SPECIFICATION Spec
CONSTANTS
  p1 = p1
  p2 = p2
  p3 = p3
  f1 = f1
  f2 = f2
  Proc <- MCProc
  FileId <- MCFileId
SYMMETRY Symmetry
INVARIANT NoSilentOverlap
PROPERTY ImplementsRWLock
