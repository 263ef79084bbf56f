SPECIFICATION Spec
CONSTANTS
  c1 = c1
  c2 = c2
  Config = {c1, c2}
  FirstKeys <- MCFirstKeys
  MaxKeys = 2
INVARIANT SnapshotForCaller
