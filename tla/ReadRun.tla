------------------------------ MODULE ReadRun -------------------------------
(***************************************************************************)
(* Restores and verifications of one backup directory, one per RestoreSafe *)
(* process (workflow/restore, workflow/verify, workflow/job, logging).     *)
(*                                                                         *)
(* A run is locked, takes the inventory, opens its log, checks the chosen  *)
(* sets and the destination, asks to start, unlocks the keys (module       *)
(* Unlock; here its outcome), reads one restore point after the other      *)
(* (modules Restore and ReadPipeline; here their outcome), appends its log *)
(* lines to the log of the first set's backup run and releases the lock.   *)
(* Sets fail and vanish, folders appear in the destination and the user    *)
(* cancels between any two steps.                                          *)
(***************************************************************************)
EXTENDS Naturals, Sequences, FiniteSets, SequencesExt

CONSTANTS
    Proc,       \* the RestoreSafe processes
    Info,       \* the sets of the backup directory: name -> [folder, run,
                \* base, skipped, stale]
    Requests,   \* the selections of sets the user makes
    None,       \* no value (Go's nil)
    MaxFaults   \* bound: how many pieces of sets stop being sound

ASSUME ReadRunAssumption ==
    /\ MaxFaults \in Nat
    /\ \A q \in Requests : q \in Seq(DOMAIN Info) /\ q # <<>>
    /\ \A s \in DOMAIN Info : Info[s].base \in DOMAIN Info \cup {None}
    /\ "user" \notin Proc
    /\ None \notin {"ok", "failed", "cancelled"}

VARIABLES
    run,    \* the operation of each process
    disk,   \* what each piece of a set is now
    dest,   \* folders of the destination: who wrote into them, and whether whole
    log     \* the facts of each log file, in file order

vars == <<run, disk, dest, log>>

Sets == DOMAIN Info
Folder == {Info[s].folder : s \in Sets}
User == "user"

\* The pieces of a set: header and trailer, manifest section, data section.
Part == {"head", "manifest", "data"}
Piece == Sets \X Part

\* `at' is the section that is read, `fit' says whether it can be read to its
\* end, `error' is what stopped an entry; `was' is history: the restore point was
\* sound when its entry began.
Idle == [pc |-> "idle", kind |-> "none", sets |-> <<>>, lock |-> "none",
         facts |-> <<>>, cancelled |-> FALSE, n |-> 1, at |-> 0, fit |-> FALSE,
         was |-> FALSE, error |-> None, result |-> None]

Init ==
    /\ run = [p \in Proc |-> Idle]
    /\ disk = [x \in Piece |-> "sound"]
    /\ dest = [f \in Folder |-> [by |-> {}, whole |-> FALSE]]
    /\ log = [r \in {Info[s].run : s \in Sets} |-> <<>>]

Working == {"confirm", "open", "read", "done"}

-----------------------------------------------------------------------------
(* Before the first question.                                              *)

\* The sets a restore point is read from, and their pieces.
Needs(s) == {s} \cup (IF Info[s].base = None THEN {} ELSE {Info[s].base})
Pieces(s) == Needs(s) \X Part

\* OpenSet: every part is there, and header and trailer are right.  Inventory
\* and SetInfo.Complete look no further.
IsComplete(s) == disk[<<s, "head">>] = "sound" /\ \A x \in Part : disk[<<s, x>>] # "gone"

\* SelectSets: every requested set is there and complete.
SelectSets(q) == \A i \in DOMAIN q : IsComplete(q[i])

\* SelectionPreflight: the full backup a differential needs (BaseOf).
SelectionPreflight(q) == \A i \in DOMAIN q : \A s \in Needs(q[i]) : IsComplete(s)

\* buildRestorePreflight: none of the folders to create is seen to exist.  A
\* folder Windows says nothing of (seen) counts as free.
OutputFree(q, seen) == seen => \A i \in DOMAIN q : dest[Info[q[i]].folder].by = {}

\* AcquireReadLock in LockForReading: refused while a backup holds the lock,
\* which no other reader then does.
Locks(p) ==
    {"held", "unavailable"}
      \cup (IF \E o \in Proc \ {p} : run[o].lock = "held" THEN {} ELSE {"busy"})

\* A return with what the deferred calls still have to do: close the log, if
\* it was opened, and release the lock.
Return(r, result) == [r EXCEPT !.result = result, !.pc = "close"]

\* job.OpenLogger: without a log file the run continues, and what it would have
\* logged is lost as if the file were not appended in the end (Close); without
\* the lock it continues too.  (The warnings are for the result window only.)
OpenLogger(r, q) == [r EXCEPT !.pc = "confirm", !.sets = q]

\* validateRestoreTargetSpace: a destination whose free space is unknown is an
\* error of the plan, and does not stop the restore.
TooLittleSpace(space) == space = "short"

\* restore.Run and verify.Run up to ConfirmStart: what makes them return, in their
\* order.  The inventory fails (~scanned), also for one of the sets, when a file
\* cannot be read.  None of these returns leaves anything in a log.
Refused(r, q, scanned, seen, space) ==
    \/ r.lock = "busy"
    \/ ~scanned
    \/ ~SelectSets(q)
    \/ ~SelectionPreflight(q)
    \/ r.kind = "restore" /\ (~OutputFree(q, seen) \/ TooLittleSpace(space))

Plan(r, q, scanned, seen, space) ==
    IF Refused(r, q, scanned, seen, space) THEN Return(r, "refused") ELSE OpenLogger(r, q)

Start(p) ==
    /\ run[p].pc = "idle"
    /\ \E kind \in {"restore", "verify"}, q \in Requests, lock \in Locks(p),
          scanned \in BOOLEAN, seen \in BOOLEAN, space \in {"enough", "short", "unknown"} :
          run' = [run EXCEPT ![p] = Plan([Idle EXCEPT !.pc = "start", !.kind = kind, !.lock = lock],
                                         q, scanned, seen, space)]
    /\ UNCHANGED <<disk, dest, log>>

\* Faulty variant: the lock is released once the keys are unlocked.
FaultyConfirmed(r, answer) ==
    IF answer = "keys" THEN [r EXCEPT !.pc = "open", !.lock = IF @ = "held" THEN "released" ELSE @]
                       ELSE Return(r, "refused")

\* ConfirmStart, where not to start is no error, and unlock.KeySets.
Confirmed(r, answer) == IF answer = "keys" THEN [r EXCEPT !.pc = "open"] ELSE Return(r, "refused")

Confirm(p) ==
    /\ run[p].pc = "confirm"
    /\ \E answer \in {"declined", "notunlocked", "keys"} :
          run' = [run EXCEPT ![p] = Confirmed(@, answer)]
    /\ UNCHANGED <<disk, dest, log>>

-----------------------------------------------------------------------------
(* Reading the restore points.                                             *)

\* The set a run is at, and the folder it is restored into.
Set(r) == r.sets[r.n]
Target(r) == Info[Set(r)].folder

\* Faulty variant: a differential is checked without its full backup, as
\* VerifyOwnData does right after a backup.
FaultySections(s) == << <<s, "manifest">>, <<s, "data">> >>

\* restorepoint.read: both manifests before the data, and the data of the full
\* backup before that of the differential.
Sections(s) ==
    LET base == Info[s].base IN
    IF base = None THEN << <<s, "manifest">>, <<s, "data">> >>
    ELSE << <<s, "manifest">>, <<base, "manifest">>, <<base, "data">>, <<s, "data">> >>

\* Logger.Fact on the current set.
Fact(r, kind, result, error) ==
    [r EXCEPT !.facts = Append(@, [kind |-> kind, result |-> result, error |-> error,
                                   set |-> Set(r), was |-> r.was])]

\* closeAll, deferred: nothing is left of the reading.
ReaderClosed(r) == [r EXCEPT !.at = 0, !.fit = FALSE, !.was = FALSE]

\* The entry stops with an error: verifyAll records it, unless the user has
\* cancelled by then.
EntryFails(r, error) ==
    LET e == [ReaderClosed(r) EXCEPT !.pc = "stopped", !.error = error] IN
    IF r.kind = "verify" /\ ~r.cancelled THEN Fact(e, "verify", "failed", error) ELSE e

\* The errors of OpenRestorePoint: a part is missing, a header or trailer is
\* damaged, or a file cannot be opened or read, for the moment or for good.
OpenErrors(s) ==
    {"io"} \cup ({disk[x] : x \in {y \in Pieces(s) : y[2] = "head" \/ disk[y] = "gone"}}
                   \ {"sound"})
OpenRestorePoint(s) == \A x \in Needs(s) : IsComplete(x)

\* Faulty variant: os.MkdirAll takes the folder that is there.
FaultyExists(f) == FALSE

\* os.Mkdir refuses a folder that exists, which the plan checked long ago.
Exists(f) == dest[f].by # {}

\* The errors of restoreEntry before the first byte: the user has cancelled, or
\* the folder is there or cannot be made.
FolderErrors(r) ==
    IF r.kind # "restore" THEN {}
    ELSE IF r.cancelled THEN {"cancelled"}
    ELSE {"mkdir"} \cup (IF Exists(Target(r)) THEN {"exists"} ELSE {})

BeginFails(p) ==
    LET r == run[p] IN
    /\ r.pc = "open"
    /\ \E error \in OpenErrors(Set(r))
                      \cup (IF OpenRestorePoint(Set(r)) THEN FolderErrors(r) ELSE {}) :
          run' = [run EXCEPT ![p] = EntryFails(r, error)]
    /\ UNCHANGED <<disk, dest, log>>

\* Section x is sound as its reading begins, and the context of a data section
\* is not cancelled yet; what happens to it later may be noticed or not.
Starts(r, x) == disk[x] = "sound" /\ ~(r.cancelled /\ x[2] = "data")

ReadFrom(r, i) == [r EXCEPT !.pc = "read", !.at = i, !.fit = Starts(r, Sections(Set(r))[i])]

\* The folder of a restore.
Restored(p, r, whole) ==
    IF r.kind = "restore" THEN [dest EXCEPT ![Target(r)] = [by |-> @.by \cup {p}, whole |-> whole]]
                          ELSE dest

\* restoreEntry and verifyEntry up to the reading.  Opening both sets, which reads
\* their headers and trailers only, is one step.
BeginEntry(p) ==
    LET r == run[p] IN
    /\ r.pc = "open" /\ OpenRestorePoint(Set(r))
    /\ r.kind = "restore" => ~r.cancelled /\ ~Exists(Target(r))
    /\ run' = [run EXCEPT ![p] =
                 [ReadFrom(r, 1) EXCEPT !.was = \A x \in Pieces(Set(r)) : disk[x] = "sound"]]
    /\ dest' = Restored(p, r, FALSE)
    /\ UNCHANGED <<disk, log>>

\* A section is read to its end; after the last one everything is written.
ReadSection(p) ==
    LET r == run[p]
        last == r.at = Len(Sections(Set(r))) IN
    /\ r.pc = "read" /\ r.fit
    /\ run' = [run EXCEPT ![p] = IF last THEN [r EXCEPT !.pc = "done"] ELSE ReadFrom(r, r.at + 1)]
    /\ dest' = IF last THEN Restored(p, r, TRUE) ELSE dest
    /\ UNCHANGED <<disk, log>>

\* The section is damaged, gone or cannot be read, for the moment or for good,
\* the destination cannot be written, or the context is cancelled.  The folder
\* stays incomplete.
ReadErrors(r) ==
    LET x == Sections(Set(r))[r.at] IN
    {"io"} \cup ({disk[x]} \ {"sound"})
      \cup (IF r.cancelled /\ x[2] = "data" THEN {"cancelled"} ELSE {})

ReadFails(p) ==
    /\ run[p].pc = "read"
    /\ \E error \in ReadErrors(run[p]) : run' = [run EXCEPT ![p] = EntryFails(@, error)]
    /\ UNCHANGED <<disk, dest, log>>

\* What is logged of an entry that has been read; ReportSkippedFiles and
\* ReportStaleFiles tell a restore of the files the backup could not read.
EntryDone(r) ==
    IF r.kind = "verify" THEN Fact(r, "verify", "ok", None)
    ELSE IF Info[Set(r)].skipped \/ Info[Set(r)].stale THEN Fact(r, "restore", "warnings", None)
    ELSE r

NextEntry(r) ==
    IF r.n < Len(r.sets) THEN [ReaderClosed(r) EXCEPT !.pc = "open", !.n = @ + 1]
                         ELSE Return(ReaderClosed(r), "ok")

EndEntry(p) ==
    /\ run[p].pc = "done"
    /\ run' = [run EXCEPT ![p] = NextEntry(EntryDone(@))]
    /\ UNCHANGED <<disk, dest, log>>

\* EachRestorePoint and operation.run: the run ends at the first error, which
\* gives way to job.Cancelled if the user has cancelled by now.
Stop(p) ==
    /\ run[p].pc = "stopped"
    /\ run' = [run EXCEPT ![p] = IF @.cancelled
                                 THEN Return([@ EXCEPT !.error = "cancelled"], "cancelled")
                                 ELSE Return(@, "failed")]
    /\ UNCHANGED <<disk, dest, log>>

-----------------------------------------------------------------------------
(* The end.                                                                *)

\* Logger.Close: the lines of the temp file are appended to the log of the
\* first set's backup run, or stay in the temp file when that fails.  Then the
\* lock is released; of a run that read nothing, nothing stays.
Close(p) ==
    LET r == run[p] IN
    /\ r.pc = "close"
    /\ \E ok \in BOOLEAN :
          log' = IF ok /\ r.facts # <<>> THEN [log EXCEPT ![Info[r.sets[1]].run] = @ \o r.facts] ELSE log
    /\ run' = [run EXCEPT ![p] =
                 IF r.result \in {"ok", "failed", "cancelled"}
                 THEN [r EXCEPT !.pc = "ended", !.facts = <<>>, !.cancelled = FALSE,
                                !.lock = IF @ = "held" THEN "released" ELSE @]
                 ELSE [Idle EXCEPT !.pc = "ended"]]
    /\ UNCHANGED <<disk, dest>>

-----------------------------------------------------------------------------
(* The user and the disk.                                                  *)

Cancel(p) ==
    /\ run[p].pc \in Working \cup {"stopped"} /\ ~run[p].cancelled
    /\ run' = [run EXCEPT ![p].cancelled = TRUE]
    /\ UNCHANGED <<disk, dest, log>>

\* Bytes go bad, for good.
Damage(x) ==
    /\ disk[x] = "sound" /\ Cardinality({y \in Piece : disk[y] # "sound"}) < MaxFaults
    /\ disk' = [disk EXCEPT ![x] = "damaged"]
    /\ UNCHANGED <<run, dest, log>>

\* Retention of a backup, which needs the lock for itself, deletes a part.
RetentionRemoves(x) ==
    /\ \A p \in Proc : run[p].lock # "held"
    /\ disk[x] # "gone" /\ Cardinality({y \in Piece \ {x} : disk[y] # "sound"}) < MaxFaults
    /\ disk' = [disk EXCEPT ![x] = "gone"]
    /\ UNCHANGED <<run, dest, log>>

UserMakesFolder(f) ==
    /\ dest[f].by = {}
    /\ dest' = [dest EXCEPT ![f] = [by |-> {User}, whole |-> @.whole]]
    /\ UNCHANGED <<run, disk, log>>

Work(p) ==
    \/ Confirm(p) \/ BeginEntry(p) \/ BeginFails(p) \/ ReadSection(p) \/ ReadFails(p)
    \/ EndEntry(p) \/ Stop(p) \/ Close(p)

\* Every process may end its run without another one starting.
AllEnded == (\A p \in Proc : run[p].pc = "ended") /\ UNCHANGED vars

Next ==
    \/ \E p \in Proc : Start(p) \/ Work(p) \/ Cancel(p)
    \/ \E x \in Piece : Damage(x) \/ RetentionRemoves(x)
    \/ \E f \in Folder : UserMakesFolder(f)
    \/ AllEnded

Spec == Init /\ [][Next]_vars

-----------------------------------------------------------------------------
(* Properties.                                                             *)

FactTrue(f) ==
    f.kind = "verify" =>
       /\ f.result = "ok" => f.was
       /\ f.result = "failed" =>
             /\ f.error # "cancelled"
             /\ f.error \in {"damaged", "gone"} => \E x \in Pieces(f.set) : disk[x] # "sound"

\* Every verification result that is logged, or about to be, holds: "ok" only if
\* the set and its full backup were sound, to the last section, when their
\* verification began, so that damage from before it is never missed, whatever
\* happens while it reads; "failed" for damage or a missing part only if a piece
\* is not sound; and a cancelled verification says nothing about a set
\* (verifyAll).  Damage that comes behind the reader may go unnoticed, and an
\* error of the moment is recorded with that error.
FactsTrue ==
    \A f \in UNION ({ToSet(log[r]) : r \in DOMAIN log} \cup {ToSet(run[p].facts) : p \in Proc}) :
       FactTrue(f)

\* The folders a restore has finished before its current entry.
Finished(r) == {Info[r.sets[i]].folder : i \in 1 .. r.n - 1}

RestoredBy(p, r) ==
    r.kind = "restore" =>
       /\ r.result = "ok" =>
             \A i \in DOMAIN r.sets : dest[Info[r.sets[i]].folder] = [by |-> {p}, whole |-> TRUE]
       /\ \A f \in Folder : dest[f].by = {p} /\ ~dest[f].whole => f = Target(r)

\* A restore that reports success has restored every set it was asked for,
\* each whole in a folder of its own; one that stopped leaves at most the
\* folder it was working on incomplete.
\* No restore ever writes into a folder that somebody else made, whatever
\* appeared in the destination after the plan was checked (restoreEntry).
RestoredWhole ==
    /\ \A f \in Folder : Cardinality(dest[f].by) <= 1
    /\ \A p \in Proc : RestoredBy(p, run[p])

\* What the error of an entry says holds.
CauseOf(p, r, error) ==
    /\ error = "gone" => r.lock = "unavailable"
    /\ error \in {"damaged", "gone"} => \E x \in Pieces(Set(r)) : disk[x] # "sound"
    /\ error = "exists" => dest[Target(r)].by # {}
    /\ error \in {"exists", "mkdir"} /\ dest[Target(r)].by = {p} => Target(r) \in Finished(r)

\* The error a run fails with is true: no backup takes a part away from a run
\* that holds the lock, what is called damaged or missing is not sound, a folder
\* that is there was made by somebody else or for an earlier set of the run (not
\* by the entry that then fails), and a cancellation is never a failure.  Errors
\* of the moment, of the disk or the destination, may stop any run.
FailureHasCause ==
    \A p \in Proc : run[p].result = "failed" => CauseOf(p, run[p], run[p].error) /\ run[p].error # "cancelled"

-----------------------------------------------------------------------------
(* The inductive invariant.                                                *)

Errors == {"io", "damaged", "gone", "cancelled", "mkdir", "exists"}

Facts == [kind : {"verify", "restore"}, result : {"ok", "failed", "warnings"},
          error : Errors \cup {None}, set : Sets, was : BOOLEAN]

\* The facts that may be in a log.
TrueFacts == {f \in Facts : FactTrue(f)}

Results == {"ok", "failed", "cancelled", "refused"}

RunRecords ==
    [pc : Working \cup {"idle", "start", "stopped", "close", "ended"},
     kind : {"none", "restore", "verify"},
     sets : Seq(Sets), lock : {"none", "held", "unavailable", "busy", "released"},
     facts : Seq(TrueFacts), cancelled : BOOLEAN, n : Nat \ {0}, at : Nat,
     fit : BOOLEAN, was : BOOLEAN, error : Errors \cup {None}, result : Results \cup {None}]

\* The log has only what is true: a piece that isn't sound stays so.
FactsInOrder ==
    /\ run \in [Proc -> RunRecords]
    /\ log \in [{Info[s].run : s \in Sets} -> Seq(TrueFacts)]
    /\ disk \in [Piece -> {"sound", "damaged", "gone"}]

\* A run knows what it reads, and while it holds the lock no part of a set it
\* has accepted is taken away.
RunInOrder(r) ==
    /\ r.pc \in Working \cup {"stopped"} =>
          /\ r.kind # "none" /\ r.lock \in {"held", "unavailable"} /\ r.result = None
          /\ r.lock = "held" =>
                \A i \in DOMAIN r.sets : \A x \in Pieces(r.sets[i]) : disk[x] # "gone"
    /\ r.pc \in {"idle", "confirm"} => r.n = 1
    /\ r.pc # "start" /\ (r.pc = "idle" => r = Idle)
    /\ r.pc \in Working \cup {"stopped"} \/ r.result \in {"ok", "failed", "cancelled"} =>
          r.sets # <<>> /\ r.n \in DOMAIN r.sets
    /\ r.facts # <<>> => r.sets # <<>>

\* What was not sound when the entry began is still to be read; a restore point
\* that has been read to the end was sound then.
ReadInOrder(r) ==
    LET sections == Sections(Set(r)) IN
    /\ r.pc \in {"read", "done"} => r.at \in DOMAIN sections
    /\ r.pc = "read" /\ ~r.was =>
          \E i \in r.at .. Len(sections) : disk[sections[i]] # "sound" /\ (i = r.at => ~r.fit)
    /\ r.pc = "done" => r.was

\* The restore of the first set has begun.
HasBegun(r) ==
    /\ r.kind = "restore"
    /\ r.pc \in {"open", "read", "done", "stopped"} \/ r.result \in {"ok", "failed", "cancelled"}

\* What a restore has made of its folders.
DestInOrder(p, r) ==
    /\ ~HasBegun(r) => \A f \in Folder : p \notin dest[f].by
    /\ r.kind = "restore" /\ r.pc \in {"open", "read", "done"} =>
          \A f \in Finished(r) : dest[f] = [by |-> {p}, whole |-> TRUE]
    /\ r.kind = "restore" /\ r.pc \in {"read", "done"} => dest[Target(r)].by = {p}
    /\ r.kind = "restore" /\ r.pc = "done" => dest[Target(r)].whole
    /\ r.kind = "restore" /\ r.pc \in {"open", "read", "done"} =>
          \A f \in Folder : dest[f].by = {p} => f \in Finished(r) \/ (r.pc # "open" /\ f = Target(r))

OneOwner ==
    /\ dest \in [Folder -> [by : SUBSET (Proc \cup {User}), whole : BOOLEAN]]
    /\ \A f \in Folder : dest[f].by = {} \/ \E x \in Proc \cup {User} : dest[f].by = {x}

\* The error of a run that stopped, before it has returned and after.
ErrorInOrder(p, r) ==
    /\ r.pc = "stopped" \/ r.result = "failed" => CauseOf(p, r, r.error)
    /\ (r.pc = "stopped" /\ ~r.cancelled) \/ r.result = "failed" => r.error # "cancelled"

RunInv(p, r) ==
    RunInOrder(r) /\ ReadInOrder(r) /\ DestInOrder(p, r) /\ RestoredBy(p, r) /\ ErrorInOrder(p, r)

ReadRunInv == FactsInOrder /\ OneOwner /\ \A p \in Proc : RunInv(p, run[p])
=============================================================================
