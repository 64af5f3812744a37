SPECIFICATION SpecWithMeaning
CONSTANTS
  Word = 10
  Half = 5
  Quarter = 3
  MaxRepeat = 3
  Pools <- MCPools
  UnaryOps <- MCUnaryOps
  BinaryOps <- MCBinaryOps
  TernaryOps <- MCTernaryOps
  Parameters <- MCParameters
  MaxNodes = 4
CHECK_DEADLOCK FALSE
INVARIANTS TypeOK DigitsFitSize FoldsLikeTheLanguage
PROPERTIES OnlyOnesAreResized
