CONSTANTS
  Callers = {c1, c2}
  Nobody = Nobody
  IdCount = 3
  MaxCalls = 4
SPECIFICATION FairSpec
INVARIANTS TypeOK NoSlotLeaked NoneStranded
PROPERTIES CallsSpec LossWakes
CHECK_DEADLOCK FALSE
