SPECIFICATION FairSpec
CONSTANTS
  srv1 = srv1
  srv2 = srv2
  tag1 = tag1
  tag2 = tag2
  Machines <- TwoMachines
  Tags <- TwoTags
  MaxFailures = 1
  NoTag = NoTag
  NoEntry = NoEntry
INVARIANT SwipesAreShown
PROPERTIES ImplementsDirectory ServersAreFound
CHECK_DEADLOCK FALSE
