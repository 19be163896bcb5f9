CONSTANTS
  ClientQueueSize = 1
  DiscardOldest = TRUE
  ItemCount = 1
  BiniOf1 = "read"
  BiniOf2 = "read"
  Bini <- MCBini
  Monitored = {}
  Outputs = {1}
  Autoconnect = TRUE
  ReadLimit = 1
  WriteLimit = 1
  MaxConnections = 2
  MaxOrders = 0
  MaxRequests = 1
SPECIFICATION Spec
INVARIANT RequestsOfThisConnection
CHECK_DEADLOCK FALSE
