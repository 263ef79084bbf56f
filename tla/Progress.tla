------------------------------ MODULE Progress -------------------------------
(***************************************************************************)
(* The progress of a backup or a restore, from the worker to what the      *)
(* window says of its folders: the reports of the worker and its ticker    *)
(* goroutine (workflow/job/progress.go), the bridge that keeps only the    *)
(* latest one (gui/flow/bridge.go), the machine that concludes from the    *)
(* reports which folders are done (gui/flow/machine.go), and the Folders   *)
(* card and the result card (gui/view/run.go, result.go).  The UI thread   *)
(* may be late by any number of reports, and the user may cancel at any    *)
(* moment.                                                                 *)
(*                                                                         *)
(* It starts when the user has confirmed the plan; module RestoreWindow    *)
(* has what comes before of a restore, module Flow the dialogs.            *)
(***************************************************************************)
EXTENDS Naturals, Sequences, FiniteSets

CONSTANT MaxFolders    \* bound: folders of an operation

ASSUME ProgressAssumption == MaxFolders \in Nat \ {0}

VARIABLES
    op,         \* the operation: a backup or a restore of so many folders,
                \* verifying afterwards
    worker,     \* its goroutine: pc, the folder it is at, how it ended
    cancelled,  \* its context was cancelled
    whole,      \* the folders whose set, or restored folder, is complete on disk
    bridge,     \* the latest report, and whether a message announces it
    posted,     \* the messages posted to the UI thread
    machine     \* the run as the UI thread knows it

vars == <<op, worker, cancelled, whole, bridge, posted, machine>>

Folder == 1 .. op.folders

\* interact.Progress; `written' is set in the last report of a backup step.
Report(phase, item, written) == [phase |-> phase, item |-> item, written |-> written]
NoReport == Report("none", 0, FALSE)

\* The phase in which the operation works on its folders.
Phase == IF op.kind = "backup" THEN "backing up" ELSE "restoring"

-----------------------------------------------------------------------------
(* The bridge.                                                             *)

\* Bridge.Progress: a message is posted unless one is on its way.
Reports(r) ==
    /\ bridge' = [report |-> r, announced |-> TRUE]
    /\ posted' = IF bridge.announced THEN posted ELSE Append(posted, "progress")

\* Faulty variant: the report is taken and the next one is not announced.
TakeProgressSilently == [bridge EXCEPT !.report = @]

\* Bridge.TakeProgress
TakeProgress == [bridge EXCEPT !.announced = FALSE]

-----------------------------------------------------------------------------
(* The worker.                                                             *)

\* What the user may start.
Operation ==
    {o \in [kind : {"backup", "restore"}, verify : BOOLEAN, folders : 1 .. MaxFolders] :
       o.kind = "restore" => ~o.verify}

NoWorker == [pc |-> "none", item |-> 1, result |-> "none"]
Idle == [stage |-> "idle", progress |-> NoReport, finished |-> {}, result |-> "none"]

NoOperation == [kind |-> "none", verify |-> FALSE, folders |-> 0]

Init ==
    /\ op = NoOperation
    /\ worker = NoWorker
    /\ cancelled = FALSE
    /\ whole = {}
    /\ bridge = [report |-> NoReport, announced |-> FALSE]
    /\ posted = <<>>
    /\ machine = Idle

Goes(pc) == worker' = [worker EXCEPT !.pc = pc]
WorkerOnly == UNCHANGED <<op, cancelled, machine>>

\* backupFailed and operation.run of a restore: an error of a cancelled run is
\* the cancellation.
Ends(result) ==
    worker' = [worker EXCEPT !.pc = "ended",
                             !.result = IF result # "ok" /\ cancelled THEN "cancelled"
                                                                      ELSE result]

Unlock ==
    /\ worker.pc = "unlocking"
    /\ Goes("between") \/ Ends("failed")
    /\ UNCHANGED <<whole, bridge, posted>> /\ WorkerOnly

\* backupDirectory and restoreEntry up to the first report of TrackProgress.
\* The full backup of a differential is loaded and the source is measured before
\* it; a restore may fail before it, and looks whether it was cancelled.
BeginFolder ==
    /\ worker.pc = "between" /\ worker.item <= op.folders
    /\ \/ /\ op.kind = "restore" => ~cancelled
          /\ Goes("writing")
          /\ Reports(Report(Phase, worker.item, FALSE))
       \/ /\ op.kind = "restore"
          /\ Ends("failed")
          /\ UNCHANGED <<bridge, posted>>
    /\ UNCHANGED whole /\ WorkerOnly

\* The ticker of TrackProgress.
TickerReports ==
    /\ worker.pc \in {"writing", "finishing", "written"}
    /\ Reports(Report(Phase, worker.item, FALSE))
    /\ UNCHANGED <<worker, whole>> /\ WorkerOnly

\* The TAR stream of a backup is complete: manifest, flush and the renames do
\* not look at the context.
TarEnds ==
    /\ op.kind = "backup" /\ worker.pc = "writing"
    /\ Goes("finishing")
    /\ UNCHANGED <<whole, bridge, posted>> /\ WorkerOnly

\* The folder fails, or notices the cancellation; stop reports once more.
FolderFails ==
    /\ worker.pc \in {"writing", "finishing"}
    /\ Ends("failed")
    /\ Reports(Report(Phase, worker.item, FALSE))
    /\ UNCHANGED whole /\ WorkerOnly

\* The last part has its final name; every file of the folder is restored.
FolderWritten ==
    /\ worker.pc = IF op.kind = "backup" THEN "finishing" ELSE "writing"
    /\ whole' = whole \cup {worker.item}
    /\ Goes("written")
    /\ UNCHANGED <<bridge, posted>> /\ WorkerOnly

\* The last report of the step, after the ticker has stopped.
LastReport ==
    /\ worker.pc = "written"
    /\ Reports(Report(Phase, worker.item, op.kind = "backup"))
    /\ worker' = [worker EXCEPT !.pc = "between", !.item = @ + 1]
    /\ UNCHANGED whole /\ WorkerOnly

\* After the last folder: a backup verifies what it wrote, one set after the
\* other; of a set that cannot be opened there is no report.
VerifySet(k) ==
    /\ op.verify /\ worker.item = op.folders + k
    /\ worker.pc = IF k = 1 THEN "between" ELSE "verifying"
    /\ worker' = [worker EXCEPT !.pc = "verifying", !.item = @ + 1]
    /\ Reports(Report("verifying", k, FALSE)) \/ UNCHANGED <<bridge, posted>>
    /\ UNCHANGED whole /\ WorkerOnly

\* The verification notices the cancellation.
VerifyCancelled ==
    /\ worker.pc = "verifying" /\ cancelled
    /\ Ends("cancelled")
    /\ Reports(Report("verifying", worker.item - op.folders - 1, FALSE))
    /\ UNCHANGED whole /\ WorkerOnly

\* ... and cleans up unless it was cancelled or a verification failed.
AllWritten ==
    /\ worker.item = IF op.verify THEN 2 * op.folders + 1 ELSE op.folders + 1
    /\ worker.pc \in {"between", "verifying"}
    /\ IF op.kind = "restore" THEN Ends("ok") /\ UNCHANGED <<bridge, posted>>
       ELSE IF cancelled THEN Ends("cancelled") /\ UNCHANGED <<bridge, posted>>
       ELSE \/ Goes("cleaning") /\ Reports(Report("cleaning up", 0, FALSE))
            \/ op.verify /\ Ends("ok") /\ UNCHANGED <<bridge, posted>>
    /\ UNCHANGED whole /\ WorkerOnly

CleanedUp ==
    /\ worker.pc = "cleaning"
    /\ Ends("ok")
    /\ UNCHANGED <<whole, bridge, posted>> /\ WorkerOnly

PostDone ==
    /\ worker.pc = "ended"
    /\ Goes("over")
    /\ posted' = Append(posted, "done")
    /\ UNCHANGED <<whole, bridge>> /\ WorkerOnly

-----------------------------------------------------------------------------
(* The UI thread.                                                          *)

\* Run.finishStep: the folder of the current step is done.
FinishStep(m) ==
    IF m.progress.phase \in {"backing up", "restoring"}
    THEN [m EXCEPT !.finished = @ \cup {[item |-> m.progress.item,
                                         written |-> m.progress.written]}]
    ELSE m

\* Machine.Progressed: a report of another step ends the current one.  Reports
\* of a run that is being cancelled are not looked at.
Progressed(m, r) ==
    IF m.stage # "running" THEN m
    ELSE IF r.phase # m.progress.phase \/ r.item # m.progress.item
         THEN [FinishStep(m) EXCEPT !.progress = r]
         ELSE [m EXCEPT !.progress = r]

\* Faulty variant: the current step is done, however the worker ended.
DoneAnyhow(m, result) == [FinishStep(m) EXCEPT !.stage = "finished", !.result = result]

\* Machine.Done
Done(m, result) ==
    [IF result = "ok" THEN FinishStep(m) ELSE m EXCEPT !.stage = "finished", !.result = result]

\* onProgress
OnProgress ==
    /\ posted # <<>> /\ Head(posted) = "progress"
    /\ posted' = Tail(posted)
    /\ bridge' = TakeProgress
    /\ machine' = Progressed(machine, bridge.report)
    /\ UNCHANGED <<op, worker, cancelled, whole>>

\* cancelRun, after the confirmation.
CancelRun ==
    /\ machine.stage = "running"
    /\ machine' = [machine EXCEPT !.stage = "cancelling"]
    /\ cancelled' = TRUE
    /\ UNCHANGED <<op, worker, whole, bridge, posted>>

\* onWorkerDone
OnWorkerDone ==
    /\ posted # <<>> /\ Head(posted) = "done"
    /\ posted' = Tail(posted)
    /\ machine' = Done(machine, worker.result)
    /\ UNCHANGED <<op, worker, cancelled, whole, bridge>>

\* The steps of the worker from its start on.
Works ==
    \/ Unlock \/ BeginFolder \/ TickerReports \/ TarEnds \/ FolderFails
    \/ FolderWritten \/ LastReport \/ VerifyCancelled \/ AllWritten \/ CleanedUp \/ PostDone
    \/ \E k \in Folder : VerifySet(k)

-----------------------------------------------------------------------------
(* What the window says.                                                   *)

Finished == {f.item : f \in machine.finished}

\* The folder whose step is shown and not recorded as done.
Unfinished ==
    IF machine.progress.phase = Phase THEN {machine.progress.item} \ Finished ELSE {}

\* RunFolders: the status of folder f on the Folders card of a backup.
FolderStatus(f) ==
    IF f \in Finished THEN "done"
    ELSE IF f \notin Unfinished THEN "waiting"
    ELSE IF machine.stage = "running" THEN "backing up"
    ELSE IF machine.stage = "cancelling" \/ cancelled THEN "cancelled"
    ELSE IF machine.result = "failed" THEN "failed"
    ELSE "waiting"

\* stepsOf: the trail of the progress card, and the steps it shows as done, the
\* ones before the step of the latest report.
Trail ==
    <<"unlocking", Phase>>
      \o (IF op.verify THEN <<"verifying">> ELSE <<>>)
      \o (IF op.kind = "backup" THEN <<"cleaning up">> ELSE <<>>)
DoneSteps ==
    {Trail[i] : i \in {j \in DOMAIN Trail :
        \E k \in DOMAIN Trail : j < k /\ Trail[k] = machine.progress.phase}}

\* keptLines and restoreKeptLines of a run that was cancelled or failed: the
\* folders it names as backed up or restored, and the one it calls unfinished and
\* removed, or incomplete.
Stopped == machine.stage = "finished" /\ machine.result # "ok"
KeptLine == IF Stopped THEN Finished ELSE {}
UnfinishedLine == IF Stopped THEN Unfinished ELSE {}

-----------------------------------------------------------------------------
(* Properties.                                                             *)

\* The window never claims a folder that is not there: what the Folders card
\* shows as done, while the operation runs and afterwards, and what the result
\* card says was kept, is complete on disk, whatever reports the UI thread missed
\* and wherever the operation was cancelled (Machine.Progressed, Done); and all
\* folders are when the trail shows their step as done (stepsOf).
ClaimsAreTrue ==
    /\ \A f \in Folder : FolderStatus(f) = "done" => f \in whole
    /\ KeptLine \subseteq whole
    /\ machine.stage = "running" /\ Phase \in DoneSteps => whole = Folder

\* The UI thread shows the latest report, or a message is on its way that makes
\* it do so: overwriting a report that was not taken yet loses no notification
\* (Bridge.Progress, TakeProgress).
LatestIsShown ==
    \/ machine.stage # "running"
    \/ machine.progress = bridge.report
    \/ \E i \in DOMAIN posted : posted[i] = "progress"

\* The folder that the result card calls unfinished, "The unfinished ... backup
\* was removed" or "... is incomplete; don't use it as a full copy", is not
\* complete on disk (keptLines, restoreKeptLines).
UnfinishedIsUnfinished == UnfinishedLine \cap whole = {}
-----------------------------------------------------------------------------
(* The inductive invariant of an operation.                                *)

Phases == {"none", "unlocking", "backing up", "restoring", "verifying", "cleaning up"}
ReportRecords == [phase : Phases, item : Nat, written : BOOLEAN]

\* Up to the start of the work, and at its end.
Before == {"none", "planning", "planned", "blocked", "asking"}
After == {"ended", "over"}

WorkerRecords ==
    [pc : Before \cup After \cup {"unlocking", "between", "writing", "finishing", "written",
                                  "verifying", "cleaning"},
     item : Nat \ {0}, result : {"none", "ok", "failed", "cancelled"}]

ProgressTypes ==
    /\ op \in [kind : {"none", "backup", "restore"}, verify : BOOLEAN, folders : Nat]
    /\ worker \in WorkerRecords
    /\ cancelled \in BOOLEAN
    /\ whole \in SUBSET Nat
    /\ bridge \in [report : ReportRecords, announced : BOOLEAN]
    /\ machine \in [stage : {"idle", "planning", "running", "cancelling", "finished"},
                    progress : ReportRecords, finished : SUBSET [item : Nat, written : BOOLEAN],
                    result : {"none", "ok", "failed", "cancelled"}]

\* The folders before the one the worker is at are there, and all of them when
\* it has ended well; a restore that was not started has reported nothing.
WorkerInOrder ==
    /\ whole \subseteq Folder /\ (\A f \in Folder : f < worker.item => f \in whole)
    /\ worker.pc \in Before \cup {"unlocking"} => worker.item = 1
    /\ worker.pc \in {"writing", "finishing", "written"} => worker.item \in Folder
    /\ worker.pc = "written" => worker.item \in whole
    /\ worker.pc = "between" => worker.item <= op.folders + 1
    /\ worker.pc \in {"verifying", "cleaning"} => whole = Folder
    /\ worker.pc = "verifying" => worker.item > op.folders
    /\ worker.pc \in Before => bridge.report = NoReport /\ machine.progress = NoReport
    /\ worker.result = "ok" =>
          whole = Folder \/ (bridge.report = NoReport /\ machine.progress = NoReport)
    /\ worker.result # "none" => worker.pc \in After

\* What a report says, taken or not.
ReportInOrder(r) ==
    /\ r.phase \in {"backing up", "restoring"} =>
          r.phase = Phase /\ r.item \in Folder /\ r.item <= worker.item
    /\ r.phase \in {"verifying", "cleaning up"} => whole = Folder

\* The machine is behind the worker, and when a report of another step waits,
\* its own step is done; it shows the latest report, or a message is announced.
MachineInOrder ==
    /\ machine.progress.phase = Phase =>
          \/ bridge.report.phase = Phase /\ bridge.report.item = machine.progress.item
          \/ machine.progress.item \in whole
    /\ Finished \subseteq whole
    /\ machine.stage = "running" => machine.progress = bridge.report \/ bridge.announced

ProgressInv ==
    /\ ProgressTypes /\ WorkerInOrder /\ MachineInOrder
    /\ ReportInOrder(bridge.report) /\ ReportInOrder(machine.progress)
=============================================================================
