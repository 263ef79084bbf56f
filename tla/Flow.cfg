SPECIFICATION Spec
CONSTANTS
  MaxRuns = 2
  MaxAsks = 4
  MaxFrames = 2
INVARIANT NoLostMessage
PROPERTIES WorkIsConfirmed CancelCompletes
