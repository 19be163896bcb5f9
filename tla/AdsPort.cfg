CONSTANTS
  a = a
  b = b
  Params = {a, b}
  NoParam = NoParam
  Setups <- MCSetups
  Values = {0, 1}
  InitialValue = 0
  NoValue = 9
  MaxConns = 2
  Budget = 2
SPECIFICATION FairSpec
INVARIANTS TypeOK RefreshedIsFed
PROPERTY AllComeAlive
CHECK_DEADLOCK FALSE
