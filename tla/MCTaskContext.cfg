SPECIFICATION Spec
CONSTANTS
  t1 = t1
  t2 = t2
  c1 = c1
  c2 = c2
  c3 = c3
  Thread <- MCThread
  Context <- MCContext
  NoContext = NoContext
  MaxDepth = 8
SYMMETRY Symmetric
INVARIANTS
  TypeOK
  NoAliasing
  PointerIsInnermost
