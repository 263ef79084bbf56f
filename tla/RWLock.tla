------------------------------- MODULE RWLock -------------------------------
(***************************************************************************)
(* What the backup-directory lock promises to the workflows: at any moment *)
(* either one backup holds the directory, or any number of restores and    *)
(* verifications do (comment of BackupLock, internal/fsx/lock.go).         *)
(***************************************************************************)
CONSTANT Proc

VARIABLE mode    \* mode[p]: the lock process p holds

Modes == {"none", "shared", "exclusive"}

\* A lock in mode m can be granted to p next to what the others hold.
Compatible(p, m) ==
  \A q \in Proc \ {p} :
     mode[q] # "none" => m = "shared" /\ mode[q] = "shared"

Init == mode = [p \in Proc |-> "none"]

Acquire(p, m) ==
  /\ mode[p] = "none"
  /\ m # "none"
  /\ Compatible(p, m)
  /\ mode' = [mode EXCEPT ![p] = m]

Release(p) ==
  /\ mode[p] # "none"
  /\ mode' = [mode EXCEPT ![p] = "none"]

Next == \E p \in Proc : Release(p) \/ \E m \in Modes : Acquire(p, m)

Spec == Init /\ [][Next]_mode
=============================================================================
