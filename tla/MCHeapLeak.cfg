CONSTANTS
  PE = {p0}
  HeapSize = 6
  Sizes = {1, 2}
  NumBuckets = 8
  Ids = {b0, b1, b2, b3, b4}
  Remainders <- OneBucket
  MaxCalls = 6
SPECIFICATION Spec
INVARIANTS
  NothingLeaked
SYMMETRY AddressSymmetry
