----------------------------- MODULE BackupLock -----------------------------
(***************************************************************************)
(* The lock file of a backup directory (internal/fsx/lock.go) and its use  *)
(* by backup, restore and verify (internal/workflow/job/lock.go).          *)
(*                                                                         *)
(* Several RestoreSafe processes share one backup directory.  Each opens   *)
(* restoresafe.lock, locks its first byte without waiting, and, when it is *)
(* done, unlocks, closes and (a backup) removes the file: three system     *)
(* calls between which the other processes run.  A process may be killed   *)
(* at any point; Windows then closes its handle and drops its lock.        *)
(*                                                                         *)
(* The lock belongs to a file, not to its path.  A file is a member of     *)
(* FileId; creating it takes an id that nothing refers to any more.        *)
(***************************************************************************)
EXTENDS FiniteSets

CONSTANTS Proc,      \* the RestoreSafe processes
          FileId     \* identities of lock files

NoFile == "no file"

ASSUME FileIdAssumption == NoFile \notin FileId

VARIABLES
  file,     \* the file at the path of the lock, or NoFile
  handle,   \* handle[p]: the file p has open, or NoFile
  held,     \* held[p]: the lock p holds on its open file
  op,       \* op[p]: what p runs, "backup" or "read" (restore, verify)
  pc        \* pc[p]: where p is

vars == <<file, handle, held, op, pc>>

Ops == {"backup", "read"}
Steps == {"idle", "opened", "running", "unlocked", "closed"}

\* Faulty variant: a backup asks for a shared lock too.
AlwaysShared(o) == IF o \in Ops THEN "shared" ELSE "none"

\* The lock an operation asks for: AcquireBackupLock passes
\* LOCKFILE_EXCLUSIVE_LOCK, AcquireReadLock passes 0.
ModeOf(o) == IF o = "backup" THEN "exclusive" ELSE "shared"

\* The state right after NewProcess: no lock file, nobody running.
Init ==
  /\ file = NoFile
  /\ handle = [p \in Proc |-> NoFile]
  /\ held = [p \in Proc |-> "none"]
  /\ op \in [Proc -> Ops]
  /\ pc = [p \in Proc |-> "idle"]

\* Ids that neither the path nor an open handle refers to.
Unused == FileId \ ({file} \cup {handle[p] : p \in Proc})

-----------------------------------------------------------------------------
(* Acquiring *)

\* os.OpenFile(path, O_CREATE|O_RDWR): opens the file at the path, creating
\* it when there is none.
OpenOrCreate(p) ==
  /\ file' \in (IF file = NoFile THEN Unused ELSE {file})
  /\ handle' = [handle EXCEPT ![p] = file']
  /\ pc' = [pc EXCEPT ![p] = "opened"]

\* p starts operation o and opens the lock file.
Open(p, o) ==
  /\ pc[p] = "idle"
  /\ op' = [op EXCEPT ![p] = o]
  /\ OpenOrCreate(p)
  /\ UNCHANGED held

\* The lock file can't be created or opened for writing: a backup fails (so p
\* stays idle), a restore or verification opens the file for reading if there
\* is one (a read-only medium may hold the lock file of an earlier backup) ...
OpenReadOnly(p) ==
  /\ pc[p] = "idle"
  /\ file # NoFile
  /\ op' = [op EXCEPT ![p] = "read"]
  /\ handle' = [handle EXCEPT ![p] = file]
  /\ pc' = [pc EXCEPT ![p] = "opened"]
  /\ UNCHANGED <<file, held>>

\* ... and goes on without a lock when that fails too: ErrLockUnavailable,
\* which LockForReading turns into a warning of the plan and the log.
RunWithoutLock(p) ==
  /\ pc[p] = "idle"
  /\ op' = [op EXCEPT ![p] = "read"]
  /\ pc' = [pc EXCEPT ![p] = "running"]
  /\ UNCHANGED <<file, handle, held>>

\* LockFileEx grants mode m on file f to p: an exclusive lock tolerates no
\* other lock on the same file, a shared lock no exclusive one.
Grantable(p, f, m) ==
  \A q \in Proc \ {p} :
    handle[q] = f /\ held[q] # "none" => m = "shared" /\ held[q] = "shared"

\* Faulty variant: the error of lockFile is ignored.
LockUnchecked(p) ==
  /\ pc[p] = "opened"
  /\ held' = [held EXCEPT ![p] = ModeOf(op[p])]
  /\ pc' = [pc EXCEPT ![p] = "running"]
  /\ UNCHANGED <<file, handle, op>>

\* lockFile succeeds: the operation runs.
LockGranted(p) ==
  /\ pc[p] = "opened"
  /\ Grantable(p, handle[p], ModeOf(op[p]))
  /\ held' = [held EXCEPT ![p] = ModeOf(op[p])]
  /\ pc' = [pc EXCEPT ![p] = "running"]
  /\ UNCHANGED <<file, handle, op>>

\* lockFile fails immediately: the file is closed and the operation ends with
\* an error before it asked anything.
LockRefused(p) ==
  /\ pc[p] = "opened"
  /\ ~Grantable(p, handle[p], ModeOf(op[p]))
  /\ handle' = [handle EXCEPT ![p] = NoFile]
  /\ pc' = [pc EXCEPT ![p] = "idle"]
  /\ UNCHANGED <<file, held, op>>

-----------------------------------------------------------------------------
(* Releasing *)

\* Release on a lock that holds nothing.
ReleaseNothing(p) ==
  /\ pc[p] = "running"
  /\ handle[p] = NoFile
  /\ pc' = [pc EXCEPT ![p] = "idle"]
  /\ UNCHANGED <<file, handle, held, op>>

\* Release: UnlockFileEx ...
Unlock(p) ==
  /\ pc[p] = "running"
  /\ handle[p] # NoFile
  /\ held' = [held EXCEPT ![p] = "none"]
  /\ pc' = [pc EXCEPT ![p] = "unlocked"]
  /\ UNCHANGED <<file, handle, op>>

\* ... Close; a shared holder is done and leaves the file ...
Close(p) ==
  /\ pc[p] = "unlocked"
  /\ handle' = [handle EXCEPT ![p] = NoFile]
  /\ pc' = [pc EXCEPT ![p] = IF op[p] = "backup" THEN "closed" ELSE "idle"]
  /\ UNCHANGED <<file, held, op>>

\* Windows deletes a file only when nobody has it open: the handles of Go's
\* os package don't share deletion.
Removable(f) == \A q \in Proc : handle[q] # f

\* ... an exclusive holder removes the file, ignoring an error.
Remove(p) ==
  /\ pc[p] = "closed"
  /\ file' = IF file # NoFile /\ Removable(file) THEN NoFile ELSE file
  /\ pc' = [pc EXCEPT ![p] = "idle"]
  /\ UNCHANGED <<handle, held, op>>

-----------------------------------------------------------------------------
\* The process is killed: Windows closes its handle and releases its lock; the
\* lock file stays behind.
Crash(p) ==
  /\ pc[p] # "idle"
  /\ handle' = [handle EXCEPT ![p] = NoFile]
  /\ held' = [held EXCEPT ![p] = "none"]
  /\ pc' = [pc EXCEPT ![p] = "idle"]
  /\ UNCHANGED <<file, op>>

Next ==
  \E p \in Proc :
    \/ \E o \in Ops : Open(p, o)
    \/ OpenReadOnly(p)
    \/ RunWithoutLock(p)
    \/ LockGranted(p)
    \/ LockRefused(p)
    \/ ReleaseNothing(p)
    \/ Unlock(p)
    \/ Close(p)
    \/ Remove(p)
    \/ Crash(p)

Spec == Init /\ [][Next]_vars

-----------------------------------------------------------------------------
(* Properties *)

TypeOK ==
  /\ file \in FileId \cup {NoFile}
  /\ handle \in [Proc -> FileId \cup {NoFile}]
  /\ held \in [Proc -> {"none", "shared", "exclusive"}]
  /\ op \in [Proc -> Ops]
  /\ pc \in [Proc -> Steps]

\* p reads or writes the backup directory.
Working(p) == pc[p] = "running"

\* While a backup works in the directory, no other operation does, except a
\* reader that could not lock it at all and was started with that warning:
\* retention never deletes parts another process reads (README "Two
\* RestoreSafe windows ... don't get in each other's way").
NoSilentOverlap ==
  \A p, q \in Proc :
    p # q /\ Working(p) /\ op[p] = "backup" /\ Working(q)
      => op[q] = "read" /\ handle[q] = NoFile

\* The inductive part: every open handle is on the file at the path (so two
\* locks can never be on different files) and a lock is held exactly while the
\* operation that took it runs.
LockInv ==
  /\ TypeOK
  /\ \A p \in Proc :
       /\ handle[p] # NoFile => handle[p] = file
       /\ pc[p] \in {"opened", "unlocked"} => handle[p] # NoFile
       /\ pc[p] \in {"idle", "closed"} => handle[p] = NoFile
       /\ held[p] # "none" <=> pc[p] = "running" /\ handle[p] # NoFile
       /\ held[p] # "none" => held[p] = ModeOf(op[p])
       /\ pc[p] = "running" /\ handle[p] = NoFile => op[p] = "read"
  /\ \A p, q \in Proc :
       p # q /\ held[p] = "exclusive" => held[q] = "none"

\* The lock file implements the abstract reader-writer lock, step by step.
RW == INSTANCE RWLock WITH mode <- held
ImplementsRWLock == RW!Spec
=============================================================================
