SPECIFICATION Spec
CONSTANTS
  Dir = {1}
  RunId = {r1, r2, r3}
  Key = {k1, k2}
  MaxDiffNumber = 2
  FullInterval = 3
  Keep = 1
  KeepDiffs = 1
  MaxParts = 2
  MaxTime = 3
  MaxLosses = 0
SYMMETRY Symmetry
INVARIANT CleanupNeverBlocked
CHECK_DEADLOCK FALSE
