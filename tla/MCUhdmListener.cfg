SPECIFICATION FairSpec
CONSTANTS
  Object = {o1, o2, o3}
  Null = null
  NumFields = 2
INVARIANTS
  TypeOK
  VisitsTheReachable
  BoundedRecursion
  CallstackIsPath
  ReportsEveryReference
  AnyOncePerObject
PROPERTIES
  Returns
CHECK_DEADLOCK FALSE
