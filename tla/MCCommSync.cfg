CONSTANTS
  N = 3
  Hosts = {h1, h2, h3}
  h1 = h1
  h2 = h2
  h3 = h3
  NData = 2
  Jobs <- SyncJobs
  MaxRounds = 1
  Splits = FALSE
  SockCap = 99
SPECIFICATION Spec
INVARIANTS
  SyncFlushes
