SPECIFICATION Spec
CONSTANTS
  None = None
  Kept = Kept
  Object <- MCObject
  Graphs <- MCGraphs
  Root = "design"
  Call = "call"
  Paths <- MCPaths
  Scopes <- MCScopes
CHECK_DEADLOCK FALSE
INVARIANTS TypeOK BindsToMembers KeepsElements InstancesApart
