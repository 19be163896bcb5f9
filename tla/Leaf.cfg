CONSTANTS
  ClientQueueSize = 3
  DiscardOldest = TRUE
  MaxPushes = 8
  IsItemRecord = TRUE
SPECIFICATION FairLeafSpec
INVARIANTS LeafTypeOK OneWake PulseFindsUpdate OldestFirst
PROPERTIES UpdateTakenOrOwed MailboxSpec
CHECK_DEADLOCK FALSE
