SPECIFICATION Spec
CONSTANTS
  Nodes = {1}
  Objects = {1, 2}
  MaxBatch = 2
  RecoveryTime = 2
  MaxClock = 2
INVARIANTS
  KnowsLastState
