CONSTANTS
  ServerReadNodes = 5
  SessionReadNodes = 6
  ServerWriteNodes = 0
  SessionWriteNodes = 1
  MinHoldOff = 1
  MaxHoldOff = 2
  CheckInterval = 3
  MaxAsked = 3
SPECIFICATION FairSpec
INVARIANTS TypeOK NoneLost SentInOrder WithinLimit
PROPERTIES UrgentFirst EveryRequestSent
