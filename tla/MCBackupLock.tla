---------------------------- MODULE MCBackupLock ----------------------------
\* Three processes and one spare file identity per process.
EXTENDS BackupLock, TLC

CONSTANTS p1, p2, p3, f1, f2

MCProc == {p1, p2, p3}
MCFileId == {f1, f2}
Symmetry == Permutations(MCProc) \cup Permutations(MCFileId)
=============================================================================
