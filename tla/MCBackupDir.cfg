SPECIFICATION Spec
CONSTANTS
  Dir = {1}
  RunId = {r1, r2, r3}
  Key = {k1}
  MaxDiffNumber = 2
  FullInterval = 3
  Keep = 1
  KeepDiffs = 1
  MaxParts = 2
  MaxTime = 4
  MaxLosses = 1
SYMMETRY Symmetry
CHECK_DEADLOCK FALSE
INVARIANTS DifferentialsUsable NumberNotReused LogsKept
PROPERTIES PreviewKept RetentionIsSafe ImplementsRestorePoints
