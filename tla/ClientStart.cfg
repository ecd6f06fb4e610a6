SPECIFICATION StartSpec
CONSTANTS
  Files <- UpToThreeLines
  MaxFaults = 2
  NoList = NoList
  NoText = NoText
INVARIANTS StartTypeOK ServersAsWritten
CHECK_DEADLOCK FALSE
