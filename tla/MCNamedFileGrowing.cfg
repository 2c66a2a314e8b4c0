SPECIFICATION BoundedSpec
CONSTANTS
  MaxSize = 7
  BlockSizes <- MCBlockSizes
INVARIANTS
  BodyMatchesLength
