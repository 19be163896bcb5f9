CONSTANTS
  a = a
  b = b
  Params = {a, b}
  NoParam = NoParam
  Setups <- MCPolled
  Values = {0, 1}
  InitialValue = 0
  NoValue = 9
  MaxConns = 2
  Budget = 2
SPECIFICATION Spec
INVARIANT NeverPanics
CHECK_DEADLOCK FALSE
