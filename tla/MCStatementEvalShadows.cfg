SPECIFICATION Spec
CONSTANTS
  cnt = cnt
  idx = idx
  fun = fun
  None = None
  Var <- MCVar
  Result = fun
  Bits = 4
  Fuel = 40
  Statements <- MCStatements
  Funcs <- MCFuncs
CHECK_DEADLOCK FALSE
PROPERTY OuterBindingsKept
