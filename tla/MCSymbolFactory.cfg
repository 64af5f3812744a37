SPECIFICATION Spec
CONSTANTS
  Factory = {f1, f2}
  EmptySymbol = empty
  Symbol = {empty, a, b, c}
  BadSymbol = bad
  MaxId = 4
INVARIANTS
  TypeOK
  MapsAreInverse
  IssuedIdsResolve
  MakeRoundTrip
PROPERTIES
  AppendOnly
SYMMETRY Symmetry
