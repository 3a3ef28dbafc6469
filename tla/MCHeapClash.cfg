CONSTANTS
  PE = {p0}
  HeapSize = 6
  Sizes = {1, 2}
  NumBuckets = 2
  Ids = {b0, b1, b2, b3, b4, b5}
  Remainders <- AnyBucket
  MaxCalls = 7
SPECIFICATION Spec
INVARIANTS
  LiveDisjoint
SYMMETRY AddressSymmetry
