SPECIFICATION Spec
CONSTANTS
  b1 = b1
  b2 = b2
  b3 = b3
  Batches <- MCBatches
  MaxCalls = 2
  PendingLimit = 1
  Retries = 2
  Nothing = Nothing
  NoStats = NoStats
SYMMETRY BatchSymmetry
INVARIANTS
  MissesAtMost
  Recorded
