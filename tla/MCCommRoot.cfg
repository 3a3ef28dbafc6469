CONSTANTS
  N = 3
  Hosts = {h1, h2, h3}
  h1 = h1
  h2 = h2
  h3 = h3
  NData = 2
  Jobs <- RootJobs
  MaxRounds = 2
  Splits = FALSE
  SockCap = 6
SPECIFICATION Spec
INVARIANTS
  TypeOK
  PutsInOrder
  WritesFit
  RootPutsComplete
PROPERTIES
  ImplementsBarrier
