CONSTANTS
  N = 2
  Hosts = {h1, h2, h3}
  h1 = h1
  h2 = h2
  h3 = h3
  NData = 2
  Jobs <- BurstJobs
  MaxRounds = 0
  Splits = TRUE
  SockCap = 99
SPECIFICATION Spec
INVARIANTS
  PutsInOrder
