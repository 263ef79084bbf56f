SPECIFICATION AllSpec
CONSTANTS
  MaxData = 3
  MaxManifest = 2
  BufSize = 2
  PartSize = 2
  MaxDamages = 1
INVARIANTS WholeSetOnSuccess SuccessMeansAll
PROPERTIES WriteReturns ReadReturns
