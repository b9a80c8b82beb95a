SPECIFICATION FairSpec
CONSTANTS
  c1 = c1  c2 = c2  c3 = c3  a1 = a1  f1 = f1  f2 = f2  w1 = w1  w2 = w2
  Connections <- TwoConnections
  Ip <- Loopback
  Files <- TwoFiles
  Chunks <- TwoChunks
  Reports <- SomeReports
  replication_factor = 1
  Requests = {}
  MaxInbox = 2
  MaxPolls = 1
CHECK_DEADLOCK FALSE
INVARIANTS
  TypeOK
  RegistryMatchesHandlers
  SenderStopsLast
  AnswersAgree
PROPERTIES
  ClosedLeaves
  JoinedEnters
  ImplementsDirectory
