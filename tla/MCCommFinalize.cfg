CONSTANTS
  N = 2
  Hosts = {h1, h2, h3}
  h1 = h1
  h2 = h2
  h3 = h3
  NData = 2
  Jobs <- FinalizeJobs
  MaxRounds = 1
  Splits = FALSE
  SockCap = 99
SPECIFICATION FairSpec
PROPERTIES
  Termination
