SPECIFICATION FairSpec
CONSTANTS
  cfg1 = cfg1
  cfg2 = cfg2
  srv1 = srv1
  srv2 = srv2
  eth = eth
  wlan = wlan
  tag1 = tag1
  tag2 = tag2
  Configurations <- NoneOrOne
  Links <- TwoLinks
  Tags <- OneTag
  Watched <- ConfiguredOnly
  SpareCells = 2
  NoServer = NoServer
  NoTag = NoTag
  NoLink = NoLink
INVARIANTS WalkMissesOneAtMost ReaderSurvives
PROPERTY WalkEnds
CHECK_DEADLOCK FALSE
