CONSTANTS
  N = 2
  Hosts = {h1, h2, h3}
  h1 = h1
  h2 = h2
  h3 = h3
  NData = 2
  Jobs <- WholeJobs
  MaxRounds = 1
  Splits = FALSE
  SockCap = 99
  ShmFails = TRUE
SPECIFICATION FairLifeSpec
INVARIANTS
  LifeTypeOK
  PutsInOrder
  OnlyHeapMisused
PROPERTIES
  ImplementsComm
  PutsLand
  JobEnds
