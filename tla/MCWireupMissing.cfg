CONSTANTS
  N = 7
  Placements <- TwoHosts
SPECIFICATION Spec
INVARIANTS
  AllWired
