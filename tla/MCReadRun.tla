----------------------------- MODULE MCReadRun ------------------------------
(* A full backup and its differential of one folder, and a full backup of    *)
(* another one by the second run, which is the one restored and verified.    *)
EXTENDS ReadRun, TLC

MCInfo == [s \in {"full", "diff", "other"} |->
    CASE s = "full" -> [folder |-> "A", run |-> "r1", base |-> None, skipped |-> FALSE, stale |-> FALSE]
      [] s = "diff" -> [folder |-> "A", run |-> "r2", base |-> "full", skipped |-> FALSE, stale |-> TRUE]
      [] s = "other" -> [folder |-> "B", run |-> "r2", base |-> None, skipped |-> TRUE, stale |-> FALSE]]

MCRequests == {<<"diff", "other">>}

MCSymmetry == Permutations(Proc)
=============================================================================
