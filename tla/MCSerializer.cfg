SPECIFICATION Spec
CONSTANTS
  Addr = {a1, a2, a3}
  Null = null
  Type = {design, package, module}
  Design = design
  Uncollected = {package}
  NoFile = nofile
  TornFile = tornfile
  MixedFile = mixedfile
  OtherFile = otherfile
  BadIndex = 7
  MaxObjId = 3
  MaxTotal = 2
  MaxSpoilt = 2
  MaxLinks = 2
INVARIANTS
  TypeOK
  UniqueIds
  FactoriesListHeap
  NoDangling
  AlwaysDefined
SYMMETRY Symmetry
CONSTRAINT OneDesign
CONSTRAINT Small
PROPERTIES
  ImplementsObjectStore
