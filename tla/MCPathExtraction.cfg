SPECIFICATION Spec
CONSTANTS
  None = None
  MaxPath = 3
  MaxLiteral = 2
  Paths <- MCPaths
  Literals <- MCLiterals
  Chains <- MCChains
INVARIANTS
  CursorSound
  LiteralIsParsed
  ExtractsSegments
CHECK_DEADLOCK FALSE
