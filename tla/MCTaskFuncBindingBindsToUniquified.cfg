SPECIFICATION Spec
CONSTANTS
  pack = pack
  top = top
  sub = sub
  parent = parent
  derived = derived
  foo = foo
  bar = bar
  Scope = {pack, top, sub, parent, derived}
  Name = {foo, bar}
  None = none
  Designs <- MCDesigns
INVARIANTS
  BindsToUniquified
CHECK_DEADLOCK FALSE
