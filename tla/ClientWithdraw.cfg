SPECIFICATION Spec
CONSTANTS
  cfg1 = cfg1
  cfg2 = cfg2
  srv1 = srv1
  srv2 = srv2
  eth = eth
  wlan = wlan
  tag1 = tag1
  tag2 = tag2
  Configurations <- One
  Links <- TwoLinks
  Tags <- TwoTags
  Watched <- ConfiguredAndFound
  SpareCells = 2
  NoServer = NoServer
  NoTag = NoTag
  NoLink = NoLink
INVARIANT EachServerTold
CHECK_DEADLOCK FALSE
