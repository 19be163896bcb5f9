CONSTANTS
  ClientQueueSize = 1
  DiscardOldest = TRUE
  ItemCount = 1
  BiniOf1 = "write"
  BiniOf2 = "read"
  Bini <- MCBini
  Monitored = {1}
  Outputs = {1}
  Autoconnect = FALSE
  ReadLimit = 1
  WriteLimit = 1
  MaxConnections = 2
  MaxOrders = 2
  MaxRequests = 2
SPECIFICATION FairSpec
INVARIANTS DownTogether DirtyHasRequest
PROPERTIES LifeSpec ExitEndsWorker OrdersAnswered PutReachesServer
CHECK_DEADLOCK FALSE
