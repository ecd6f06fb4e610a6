SPECIFICATION FairSpec
CONSTANTS
  w1 = w1
  w2 = w2
  w3 = w3
  w4 = w4
  c1 = c1
  c2 = c2
  c3 = c3
  WorkerIds <- Workers4
  Conns <- Conns2
  PoolSize = 2
  NoConn = NoConn
  NoWorker = NoWorker
INVARIANTS TypeOK OneOwner PoolIsIdle PoolBounded NoLostWorker NoMonitorCycle
PROPERTIES ImplementsService
