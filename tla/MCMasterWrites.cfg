SPECIFICATION Spec
CONSTANTS
  c1 = c1  c2 = c2  c3 = c3  a1 = a1  f1 = f1  f2 = f2  w1 = w1  w2 = w2
  Connections <- ThreeConnections
  Ip <- OwnMachine
  Files <- TwoFiles
  Chunks <- TwoChunks
  Reports <- EmptyReports
  replication_factor = 2
  Requests <- TwoRequests
  MaxInbox = 1
  MaxPolls = 0
SYMMETRY Symmetry
INVARIANTS
  RoundRobinFair
  AloneGetsReplicas
