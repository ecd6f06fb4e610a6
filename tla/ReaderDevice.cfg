SPECIFICATION FairSpec
CONSTANTS
  d1 = d1
  d2 = d2
  h1 = h1
  h2 = h2
  tag1 = tag1
  tag2 = tag2
  Devices <- TwoDevices
  Handles <- TwoHandles
  Tags <- TwoTags
  NoHandle = NoHandle
INVARIANTS TypeOK HandlesAccounted AnsweredPollsSucceed RepliesAreFresh
PROPERTY ConnectionsProceed
CHECK_DEADLOCK FALSE
