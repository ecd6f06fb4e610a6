SPECIFICATION FairSpec
CONSTANTS
  Requests <- AllSorts
  BufSize = 6
  MaxConns = 2
  NoRequest = NoRequest
INVARIANTS TypeOK CalledAsSent
PROPERTY ExchangesEnd
CHECK_DEADLOCK FALSE
