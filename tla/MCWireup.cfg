CONSTANTS
  N = 5
  Placements <- AllPlacements
SPECIFICATION FairSpec
INVARIANTS
  TypeOK
  IndexesMatch
  SocketsMatch
  NobodyRefused
  AllWired
PROPERTIES
  WireupEnds
