---------------------------- MODULE RestoreWindow ----------------------------
(***************************************************************************)
(* The Restore backup window and the operations it starts.  The window     *)
(* checks the choices (the checked folders and the destination) with       *)
(* restore.PlanDestination while the user makes them, on goroutines that   *)
(* may finish in any order, also after the window is closed and another    *)
(* one is open (gui/restoredialog*.go, gui/view/restore.go).  Start runs   *)
(* the restore, whose own plan replaces the check and whose start question *)
(* the window answers.  Module Progress has the operation from there on.   *)
(*                                                                         *)
(* All messages to the UI thread go through one queue, in order.           *)
(***************************************************************************)
EXTENDS Progress

CONSTANTS
    SetNo,       \* the sets of a run, one per folder
    Lost,        \* the sets whose full backup is missing
    Dest,        \* destinations that are full paths
    MaxWindows,  \* bound: windows opened
    MaxChecks,   \* bound: checks started
    MaxSeq,      \* bound: changes of the choices in a window
    MaxRuns      \* bound: operations started

\* An empty or a relative path.
NoPath == "no path"

ASSUME WindowAssumption ==
    /\ NoPath \notin Dest
    /\ IsFiniteSet(SetNo) /\ Cardinality(SetNo \ Lost) <= MaxFolders
    /\ {MaxWindows, MaxChecks, MaxSeq, MaxRuns} \subseteq Nat

VARIABLES
    win,         \* the window, or NoWindow
    checks,      \* the goroutines that check choices
    pending,     \* app.pendingDest: the result to be shown, or NoPlan
    lastDest,    \* app.lastDestination
    counts       \* windows, checks and operations so far (for the bounds)

windowVars == <<win, checks, pending, lastDest, counts>>

NoWindow == [open |-> FALSE]
NoPlan == [result |-> "none"]

\* RestoreFoldersOf: the rows of the table that can be checked.  Preselected: the
\* ones among the sets selected on Restore backup.
Enabled == SetNo \ Lost
Preselected(sets) == sets \cap Enabled
Chosen(w) == w.checked \cap Enabled

\* What a window restores: sets of its run (each window is for a run of its own)
\* and a destination.
Choices(w) == [window |-> w.id, sets |-> Chosen(w), dest |-> w.dest]
OfRestore == [window |-> 0, sets |-> {}, dest |-> NoPath]

-----------------------------------------------------------------------------
(* The checks of the choices.                                              *)

\* RestoreViewOf: nothing to check yet.
HintOnly(w) == Chosen(w) = {} \/ w.dest = NoPath

\* restoreDialog.startCheck: what it resets.
Restarted(w) ==
    [w EXCEPT !.plan = NoPlan, !.planErr = FALSE, !.checking = TRUE, !.seq = @ + 1]

\* restoreDialog.runCheck in window w.
RunCheck(w) ==
    IF HintOnly(w)
    THEN /\ win' = [w EXCEPT !.checking = FALSE]
         /\ UNCHANGED <<checks, counts>>
    ELSE /\ counts.checks < MaxChecks
         /\ win' = w
         /\ checks' = checks \cup {[n |-> counts.checks, seq |-> w.seq, of |-> Choices(w)]}
         /\ counts' = [counts EXCEPT !.checks = @ + 1]

\* A check ends: PlanDestination finds nothing against the restore, or something
\* blocks it (a folder that exists, too little space, an error of its own).
CheckDone ==
    \E c \in checks, result \in {"ok", "blocked"} :
      /\ checks' = checks \ {c}
      /\ pending' = [result |-> result, seq |-> c.seq, of |-> c.of]
      /\ posted' = Append(posted, "dest")
      /\ UNCHANGED <<op, worker, cancelled, whole, bridge, machine, win, lastDest, counts>>

\* Faulty variant: results are taken whatever was chosen since.
DestCheckedAny(w, c) ==
    IF ~w.open \/ c = NoPlan \/ w.starting THEN w
    ELSE [w EXCEPT !.checking = FALSE, !.plan = [result |-> c.result, of |-> c.of]]

\* restoreDialog.destChecked
DestChecked(w, c) ==
    IF ~w.open \/ c = NoPlan THEN w
    ELSE IF c.seq # w.seq \/ w.starting THEN w
    ELSE [w EXCEPT !.checking = FALSE, !.plan = [result |-> c.result, of |-> c.of]]

\* msgDestChecked
OnDestChecked ==
    /\ posted # <<>> /\ Head(posted) = "dest"
    /\ posted' = Tail(posted)
    /\ pending' = NoPlan
    /\ win' = DestChecked(win, pending)
    /\ UNCHANGED <<op, worker, cancelled, whole, bridge, machine, checks, lastDest, counts>>

-----------------------------------------------------------------------------
(* The user and the window.                                                *)

Busy == machine.stage \in {"planning", "running", "cancelling"}

\* openRestore, with the sets selected on Restore backup.
OpenRestore ==
    /\ ~win.open /\ ~Busy
    /\ counts.windows < MaxWindows /\ counts.checks < MaxChecks
    /\ \E sets \in {s \in SUBSET SetNo : Preselected(s) # {}} :
         LET w == [open |-> TRUE, id |-> counts.windows + 1, checked |-> Preselected(sets),
                   dest |-> lastDest, plan |-> NoPlan, planErr |-> FALSE,
                   checking |-> FALSE, seq |-> 0, starting |-> FALSE, timer |-> FALSE]
         IN /\ win' = Restarted(w)
            /\ checks' = checks \cup {[n |-> counts.checks, seq |-> 1, of |-> Choices(w)]}
            /\ counts' = [counts EXCEPT !.windows = @ + 1, !.checks = @ + 1]
    /\ UNCHANGED <<vars, pending, lastDest>>

\* The path is edited, browsed or filled in: checked when typing stops.
EditDest ==
    /\ win.open /\ win.seq < MaxSeq
    /\ \E d \in (Dest \cup {NoPath}) \ {win.dest} :
         win' = [Restarted(win) EXCEPT !.dest = d, !.timer = TRUE]
    /\ UNCHANGED <<vars, checks, pending, lastDest, counts>>

\* LVN_ITEMCHANGED: a folder is checked or unchecked; a timer still runs.
ToggleSet ==
    /\ win.open /\ win.seq < MaxSeq
    /\ \E f \in Enabled :
         RunCheck([Restarted(win) EXCEPT !.checked =
                     IF f \in @ THEN @ \ {f} ELSE @ \cup {f}])
    /\ UNCHANGED <<vars, pending, lastDest>>

\* WM_TIMER
TimerFires ==
    /\ win.open /\ win.timer
    /\ RunCheck([win EXCEPT !.timer = FALSE])
    /\ UNCHANGED <<vars, pending, lastDest>>

\* build, after a change of the DPI: the controls are made again and the timer
\* is killed.
Rebuild ==
    /\ win.open /\ win.timer
    /\ win' = [win EXCEPT !.timer = FALSE]
    /\ UNCHANGED <<vars, checks, pending, lastDest, counts>>

\* RestoreViewOf: Start.
StartEnabled(w) ==
    /\ ~HintOnly(w) /\ ~w.checking /\ ~w.starting
    /\ w.plan.result = "ok"

\* startRestore and startOperation
StartRestore ==
    /\ win.open /\ StartEnabled(win) /\ ~Busy
    /\ counts.runs < MaxRuns
    /\ win' = [win EXCEPT !.starting = TRUE, !.planErr = FALSE]
    /\ lastDest' = win.dest
    /\ counts' = [counts EXCEPT !.runs = @ + 1]
    /\ op' = [kind |-> "restore", verify |-> FALSE, folders |-> Cardinality(Chosen(win))]
    /\ worker' = [NoWorker EXCEPT !.pc = "planning"]
    /\ cancelled' = FALSE /\ whole' = {}
    /\ bridge' = [report |-> NoReport, announced |-> FALSE]
    /\ machine' = [Idle EXCEPT !.stage = "planning"]
    /\ UNCHANGED <<posted, checks, pending>>

\* cancelPressed: Cancel, Esc and the close button.
CancelPressed ==
    /\ win.open
    /\ win' = NoWindow
    /\ IF win.starting /\ Busy
       THEN cancelled' = TRUE /\ machine' = [machine EXCEPT !.stage = "cancelling"]
       ELSE UNCHANGED <<cancelled, machine>>
    /\ UNCHANGED <<op, worker, whole, bridge, posted, checks, pending, lastDest, counts>>

\* A backup: its plan is confirmed in the Create backup window (module Flow).
StartBackup ==
    /\ ~win.open /\ ~Busy
    /\ counts.runs < MaxRuns
    /\ counts' = [counts EXCEPT !.runs = @ + 1]
    /\ op' \in {o \in Operation : o.kind = "backup"}
    /\ worker' = [NoWorker EXCEPT !.pc = "unlocking"]
    /\ cancelled' = FALSE /\ whole' = {}
    /\ bridge' = [report |-> Report("unlocking", 0, FALSE), announced |-> TRUE]
    /\ posted' = Append(posted, "progress")
    /\ machine' = [Idle EXCEPT !.stage = "running"]
    /\ UNCHANGED <<win, checks, pending, lastDest>>

\* Nothing runs and nobody does anything.
AtRest ==
    /\ ~win.open /\ ~Busy /\ checks = {} /\ posted = <<>>
    /\ UNCHANGED <<vars, windowVars>>

\* dismiss
Dismiss ==
    /\ machine.stage = "finished" /\ ~win.open
    /\ machine' = Idle
    /\ UNCHANGED <<op, worker, cancelled, whole, bridge, posted, windowVars>>

-----------------------------------------------------------------------------
(* The restore until it starts (restore.Run).                              *)

WindowStays == UNCHANGED windowVars

\* The lock, the inventory or the chosen sets stop it, or it shows its plan.
WorkerPlans ==
    /\ worker.pc = "planning"
    /\ \/ Ends("failed") /\ UNCHANGED posted
       \/ \E pc \in {"planned", "blocked"} : Goes(pc) /\ posted' = Append(posted, "plan")
    /\ UNCHANGED <<op, cancelled, whole, bridge, machine>> /\ WindowStays

\* questions.RestorePlan and setPlan: the workflow's plan replaces the check.
\* The bridge answers the questions of a cancelled run (next action).
OnPlan ==
    /\ posted # <<>> /\ Head(posted) = "plan"
    /\ IF worker.pc \in {"planned", "blocked"} /\ ~cancelled
       THEN /\ win' = IF ~win.open THEN win
                      ELSE [win EXCEPT !.checking = FALSE, !.seq = @ + 1, !.plan =
                              [result |-> IF worker.pc = "blocked" THEN "blocked" ELSE "ok",
                               of     |-> OfRestore]]
            /\ IF worker.pc = "blocked"
               THEN Ends("failed") /\ posted' = Tail(posted)
               ELSE Goes("asking") /\ posted' = Append(Tail(posted), "start")
       ELSE posted' = Tail(posted) /\ UNCHANGED <<win, worker>>
    /\ UNCHANGED <<op, cancelled, whole, bridge, machine, checks, pending, lastDest, counts>>

QuestionCancelled ==
    /\ worker.pc \in {"planned", "blocked", "asking"} /\ cancelled
    /\ Ends("cancelled")
    /\ UNCHANGED <<op, cancelled, whole, bridge, posted, machine>> /\ WindowStays

\* questions.ConfirmStart and restoreDialog.ask: Start was the confirmation.
OnConfirmStart ==
    /\ posted # <<>> /\ Head(posted) = "start"
    /\ IF worker.pc # "asking" \/ cancelled
       THEN posted' = Tail(posted) /\ UNCHANGED <<win, worker, bridge, machine>>
       ELSE IF ~win.open \/ ~win.starting
       THEN posted' = Tail(posted) /\ Ends("ok") /\ UNCHANGED <<win, bridge, machine>>
       ELSE /\ win' = NoWindow
            /\ machine' = [machine EXCEPT !.stage = "running"]
            /\ Goes("unlocking")
            /\ bridge' = [report |-> Report("unlocking", 0, FALSE), announced |-> TRUE]
            /\ posted' = Append(Tail(posted), "progress")
    /\ UNCHANGED <<op, cancelled, whole, checks, pending, lastDest, counts>>

\* Faulty variant: the window stays as it is.
StillStarting(w) == w

\* restoreDialog.workerDone: the restore ended before it started.
Settled(w) == [w EXCEPT !.starting = FALSE, !.planErr = TRUE]

\* onWorkerDone with the window open: it shows why.
OnRestoreDone ==
    /\ posted # <<>> /\ Head(posted) = "done" /\ win.open
    /\ posted' = Tail(posted)
    /\ machine' = Idle
    /\ win' = Settled(win)
    /\ UNCHANGED <<op, worker, cancelled, whole, bridge, checks, pending, lastDest, counts>>

-----------------------------------------------------------------------------
WindowInit ==
    /\ Init
    /\ win = NoWindow /\ checks = {} /\ pending = NoPlan
    /\ lastDest \in Dest
    /\ counts = [windows |-> 0, checks |-> 0, runs |-> 0]

Worker == WorkerPlans \/ QuestionCancelled \/ (Works /\ WindowStays)
UIThread == OnDestChecked \/ OnPlan \/ OnConfirmStart \/ OnRestoreDone
            \/ ((OnProgress \/ (~win.open /\ OnWorkerDone)) /\ WindowStays)

WindowNext ==
    \/ Worker \/ UIThread
    \/ CheckDone
    \/ OpenRestore \/ EditDest \/ ToggleSet \/ TimerFires \/ Rebuild
    \/ StartRestore \/ CancelPressed \/ StartBackup \/ Dismiss \/ AtRest
    \/ CancelRun /\ WindowStays

allVars == <<vars, windowVars>>

\* The worker goes on, the UI thread handles its messages, a timer fires, and a
\* check of a drive that answers ends.
WindowSpec ==
    /\ WindowInit /\ [][WindowNext]_allVars
    /\ WF_allVars(Worker) /\ WF_allVars(UIThread)
    /\ WF_allVars(CheckDone) /\ WF_allVars(TimerFires)

-----------------------------------------------------------------------------
(* Properties.                                                             *)

\* A check that the window shows and that one of its own goroutines made is of
\* the folders and the destination chosen now, whatever the user changed while
\* it ran and in whatever order checks end (startCheck, destChecked, RW-6a).
CheckIsOfChoices ==
    win.open /\ win.plan # NoPlan =>
        \/ win.plan.of = OfRestore
        \/ win.plan.of.window # win.id
        \/ win.plan.of = Choices(win)

\* Start is answered: the window closes because the restore runs or was
\* cancelled, or it can be started again (ask, cancelPressed, workerDone, RW-6b).
StartSettles == (win.open /\ win.starting) ~> (~win.open \/ ~win.starting)

\* Start is offered only with a check of the folders and the destination chosen
\* now, made for this window or by the restore that it started.
StartIsChecked ==
    win.open /\ StartEnabled(win) => win.plan.of \in {OfRestore, Choices(win)}

\* The window does not stay at "Checking...": the choices change, the window
\* closes, or a check is shown.
CheckArrives ==
    \A n \in 1 .. MaxSeq + MaxRuns :
        (win.open /\ win.checking /\ ~HintOnly(win) /\ win.seq = n)
            ~> (~win.open \/ ~win.checking \/ HintOnly(win) \/ win.seq # n)
-----------------------------------------------------------------------------
(* The inductive invariant.                                                *)

\* One message ends an operation, the last one of its worker, and until it is
\* handled no other operation starts.
QueueInOrder ==
    /\ posted \in Seq({"progress", "done", "dest", "plan", "start"})
    /\ bridge.announced => \E i \in DOMAIN posted : posted[i] = "progress"
    /\ \A i \in DOMAIN posted : posted[i] = "done" =>
          /\ worker.pc = "over" /\ Busy
          /\ \A j \in DOMAIN posted : posted[j] = "done" => j = i
    /\ worker.pc \notin {"none", "over"} => Busy

ChoiceRecords == [window : Nat, sets : SUBSET SetNo, dest : Dest \cup {NoPath}]
Plans == [result : {"ok", "blocked"}, of : ChoiceRecords]
Windows ==
    [open : {TRUE}, id : Nat, checked : SUBSET SetNo, dest : Dest \cup {NoPath},
     plan : Plans \cup {NoPlan}, planErr : BOOLEAN, checking : BOOLEAN, seq : Nat,
     starting : BOOLEAN, timer : BOOLEAN]

WindowTypes ==
    /\ win \in Windows \cup {NoWindow}
    /\ checks \subseteq [n : Nat, seq : Nat, of : ChoiceRecords]
    /\ pending \in [result : {"ok", "blocked"}, seq : Nat, of : ChoiceRecords] \cup {NoPlan}
    /\ lastDest \in Dest \cup {NoPath}
    /\ counts \in [windows : Nat, checks : Nat, runs : Nat]

\* A result of this window that counts as the latest one is of its choices.
OfWindow(seq, of) ==
    /\ of.window <= counts.windows
    /\ win.open /\ of.window = win.id =>
          seq <= win.seq /\ (seq = win.seq => of = Choices(win))

ChecksInOrder ==
    /\ win.open => win.id <= counts.windows
    /\ \A c \in checks : OfWindow(c.seq, c.of)
    /\ pending # NoPlan => OfWindow(pending.seq, pending.of)

WindowInv ==
    ProgressInv /\ QueueInOrder /\ WindowTypes /\ ChecksInOrder /\ CheckIsOfChoices
=============================================================================
