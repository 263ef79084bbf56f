SPECIFICATION WindowSpec
CONSTANTS
  MaxFolders = 2
  SetNo = {1, 2, 3}
  Lost = {3}
  Dest = {"d1"}
  MaxWindows = 2
  MaxChecks = 2
  MaxSeq = 3
  MaxRuns = 1
INVARIANTS ClaimsAreTrue LatestIsShown CheckIsOfChoices
PROPERTY StartSettles
