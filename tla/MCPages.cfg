SPECIFICATION PagesSpec
CONSTANTS
  x = x
  y = y
  x2 = x2
  k1 = k1
  k2 = k2
  Path <- MCPath
  PathKey <- MCPathKey
  Plain <- MCPlain
  Aliased <- MCAliased
  Values <- MCValues
  UserText <- MCUserText
  Key <- MCKey
  NeedsYubiKey <- MCNeedsYubiKey
  Dir = {1, 2, 3}
  RunId = {r1, r2}
  MaxDiffNumber = 1
  FullInterval = 3
  Keep = 1
  KeepDiffs = 0
  MaxParts = 2
  MaxTime = 2
  ReminderLimit = 1
  MaxChanges = 2
SYMMETRY Symmetry
CHECK_DEADLOCK FALSE
INVARIANTS ProtectedIsRestorable ButtonIsHonest ListMatchesDisk CardIsTrue UpdateHasCopy
