CONSTANTS
  N = 2
  Hosts = {h1, h2, h3}
  h1 = h1
  h2 = h2
  h3 = h3
  NData = 2
  Jobs <- SplitJobs
  MaxRounds = 2
  Splits = TRUE
  SockCap = 5
SPECIFICATION Spec
INVARIANTS
  NoEarlyReturn
CHECK_DEADLOCK FALSE
