CONSTANTS
  ClientQueueSize = 2
  DiscardOldest = TRUE
  ItemCount = 2
  BiniOf1 = "ignore"
  BiniOf2 = "write"
  Bini <- MCBini
  Monitored = {1}
  Outputs = {2}
  Autoconnect = TRUE
  ReadLimit = 1
  WriteLimit = 1
  MaxConnections = 1
  MaxOrders = 1
  MaxRequests = 1
SPECIFICATION Spec
INVARIANTS TypeOK NoLeafLeftBehind LossEndsConnection
CHECK_DEADLOCK FALSE
