----------------------------- MODULE MCBackupDir -----------------------------
EXTENDS BackupDir, TLC
Symmetry == Permutations(RunId) \cup Permutations(Key)
=============================================================================
