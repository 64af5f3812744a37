CONSTANTS
  None = None
  Designs <- MCDesigns
SPECIFICATION Spec
CHECK_DEADLOCK FALSE
INVARIANT TypeOK
INVARIANT StackFollowsWalk
INVARIANT BindsByTheLanguage
