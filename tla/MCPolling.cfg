SPECIFICATION FairSpec
CONSTANTS
  a = a
  b = b
  Node <- MCNode
  NoNode = 0
  Root = 1
  Left <- MCLeft
  Right <- MCRight
  Segment = {a, b}
  Endpoints <- PollingEndpoints
  Paths <- PollingPaths
INVARIANTS
  NoPanic
  BodyTakenOnce
  NoLostWakeup
  OnlyRouteIsPolled
  ErrorsSurface
  ResponseIsComplete
PROPERTIES
  Responds
  ContractSpec
