SPECIFICATION WokenSpec
CONSTANTS
  w1 = w1
  w2 = w2
  w3 = w3
  w4 = w4
  c1 = c1
  c2 = c2
  c3 = c3
  WorkerIds <- Workers4
  Conns <- Conns3
  PoolSize = 2
  NoConn = NoConn
  NoWorker = NoWorker
SYMMETRY Symmetry
INVARIANT PooledServeNobody
