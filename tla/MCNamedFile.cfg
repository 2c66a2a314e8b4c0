SPECIFICATION BoundedFairSpec
CONSTANTS
  MaxSize = 7
  BlockSizes <- MCBlockSizes
INVARIANTS
  TypeOK
  NoPanic
  NothingMissing
PROPERTIES
  Completes
