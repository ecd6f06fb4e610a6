SPECIFICATION Spec
CONSTANTS
  cfg1 = cfg1
  cfg2 = cfg2
  srv1 = srv1
  srv2 = srv2
  eth = eth
  wlan = wlan
  tag1 = tag1
  tag2 = tag2
  Configurations <- NoneOrTwo
  Links <- MixedLinks
  Tags <- NoTags
  Watched <- Nobody
  SpareCells = 3
  NoServer = NoServer
  NoTag = NoTag
  NoLink = NoLink
INVARIANTS TypeOK ListIntact UniqueNames ConfiguredStay SingleHomedIsListed
PROPERTY ImplementsDirectory
CHECK_DEADLOCK FALSE
