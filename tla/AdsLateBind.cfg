CONSTANTS
  a = a
  b = b
  Params = {a, b}
  NoParam = NoParam
  Setups <- MCBoundLate
  Values = {0, 1}
  InitialValue = 0
  NoValue = 9
  MaxConns = 2
  Budget = 2
SPECIFICATION Spec
INVARIANT ReconnectResolves
CHECK_DEADLOCK FALSE
