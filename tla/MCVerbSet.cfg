SPECIFICATION FairSpec
CONSTANT LastVerb <- MCLast
INVARIANTS
  TypeOK
  NothingSkipped
PROPERTIES
  Fused
  Ends
