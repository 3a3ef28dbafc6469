CONSTANTS
  N = 4
  Hosts = {h1, h2}
  MaxRounds = 3
SPECIFICATION FairSpec
INVARIANTS
  TypeOK
  NoEarlyReturn
PROPERTIES
  SignalsNotLost
  EveryoneReturns
  ImplementsBarrier
