CONSTANTS
  ClientQueueSize = 3
  DiscardOldest = FALSE
  MaxPushes = 9
SPECIFICATION Spec
INVARIANTS TypeOK GapsAccounted NewestSurvives
PROPERTY MailboxSpec
CHECK_DEADLOCK FALSE
