CONSTANTS
  PE = {p0, p1}
  HeapSize = 3
  Sizes = {0, 1, 2}
  NumBuckets = 8
  Ids = {b0, b1, b2, b3}
  Remainders <- OneBucket
  MaxCalls = 7
SPECIFICATION Spec
INVARIANTS
  TypeOK
  BlocksDisjoint
  HeadLinked
  LegibleLive
  SameOffset
SYMMETRY AddressSymmetry
