SPECIFICATION Spec
CONSTANTS
  a = a
  b = b
  Node <- MCNode
  NoNode = 0
  Root = 1
  Left <- MCLeft
  Right <- MCRight
  Segment = {a, b}
  Endpoints <- RoutingEndpoints
  Paths <- RoutingPaths
INVARIANTS
  TypeOK
  RoutingIsPure
  LongestMatchWins
