CONSTANTS
  t1 = t1
  t2 = t2
  Tags = {t1, t2}
  Values = {0, 1}
  Records = {"in", "out"}
  Inputs = {"in"}
  Options <- MCScanned
  InitialValue = 0
  InitialPlc = 1
  ListCount = 1
  Period <- MCPeriod
  InitialLists <- MCInitialLists
  InitialTag <- MCInitialTag
  Order <- MCOrder
  ReadSize <- MCReadSize
  WriteSize <- MCWriteSize
  Limit = 2
  Bad = Bad
  Budget = 2
SPECIFICATION Spec
PROPERTY PassFindsAgreement
CHECK_DEADLOCK FALSE
