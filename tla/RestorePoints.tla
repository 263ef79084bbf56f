---------------------------- MODULE RestorePoints ----------------------------
(***************************************************************************)
(* What a backup directory promises its user: a set of restore points in   *)
(* which every differential has the full backup it needs (SPEC-core D7).   *)
(* Points appear and disappear one at a time, a full backup before its     *)
(* differentials and after them.  The promise ends when somebody else      *)
(* removes files of the directory.                                         *)
(***************************************************************************)
CONSTANTS Point,        \* every possible restore point
          FullOf(_)     \* the full backup a restore point needs; a full
                        \* backup needs itself

VARIABLES points,       \* the restore points on offer
          disturbed     \* whether somebody else has removed files

Init == points = {} /\ disturbed = FALSE

Add(e) ==
  /\ e \notin points
  /\ FullOf(e) \in points \cup {e}
  /\ points' = points \cup {e}

Remove(e) ==
  /\ e \in points
  /\ \A f \in points \ {e} : FullOf(f) # e
  /\ points' = points \ {e}

Step == \E e \in Point : Add(e) \/ Remove(e)

Next ==
  \/ disturbed' = TRUE
  \/ ~disturbed /\ UNCHANGED disturbed /\ Step

Spec == Init /\ [][Next]_<<points, disturbed>>
=============================================================================
