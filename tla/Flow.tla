-------------------------------- MODULE Flow --------------------------------
(***************************************************************************)
(* An operation between the worker goroutine that runs its workflow and    *)
(* the UI thread: the bridge of questions (gui/flow/bridge.go), the        *)
(* lifecycle of the run (gui/flow/machine.go), and the windows that answer *)
(* (gui/operation.go, questions.go, dialogs.go, plandialog.go,             *)
(* verifydialog.go, restoredialog.go).                                     *)
(*                                                                         *)
(* The plan, Verify and Restore windows run in the main message loop.  A   *)
(* credential dialog or a confirmation runs a message loop of its own: the *)
(* handler that opened it continues only when it and every loop started    *)
(* since have ended, while messages for all windows go on being handled.   *)
(* `frames' is this stack of loops.  Only the top loop runs; a dialog below *)
(* it may be answered, but its handler continues later.                    *)
(*                                                                         *)
(* The worker is any workflow: it shows plans, asks to start, asks for     *)
(* credentials, works, and may end at every point.  Output and progress    *)
(* (which never block) and the pages are left out, and so are the details  *)
(* and log windows, whose loops return to handlers that do nothing more.   *)
(***************************************************************************)
EXTENDS Naturals, Sequences

CONSTANTS
    MaxRuns,    \* bound: the operations started
    MaxAsks,    \* bound: the questions of one operation
    MaxFrames   \* bound: the loops open when a confirmation may be opened

ASSUME BoundsAssumption ==
    MaxRuns \in Nat /\ MaxAsks \in Nat /\ MaxFrames \in Nat

Op == {"backup", "restore", "verify"}
Window == Op \cup {"main"}     \* the operations' own windows, and the main one
Kind == {"plan", "start", "cred", "refused"}    \* the questions of interact.UI

Question == [n : 1 .. MaxRuns, k : 1 .. MaxAsks, kind : Kind]
NoQuestion == [n |-> 0]
NoRun == [n |-> 0]
NoReply == "none"

VARIABLES
    app,    \* the UI thread's state: the machine's run (stage, op, started,
            \* closing), app.run with its bridge, the windows, the loops, the
            \* disabled windows, the posted messages, whether the main window
            \* exists
    worker, \* the goroutine of startOperation
    runs    \* how many operations were started

vars == <<app, worker, runs>>

-----------------------------------------------------------------------------
(* The machine.                                                            *)

Busy == app.stage \in {"planning", "running", "cancelling"}

\* Machine.Confirmed
Confirmed(s) ==
    IF s.stage = "planning" THEN [s EXCEPT !.stage = "running", !.started = TRUE]
                            ELSE s

\* Machine.Replan
Replan(s) ==
    IF s.stage = "running" THEN [s EXCEPT !.stage = "planning", !.started = FALSE]
                           ELSE s

\* Machine.Cancelling
Cancelling(s) ==
    IF s.stage \in {"planning", "running"} THEN [s EXCEPT !.stage = "cancelling"]
                                           ELSE s

\* Machine.CloseConfirmed; machine.run is nil when idle.
CloseConfirmed(s) == IF s.stage = "idle" THEN s ELSE [s EXCEPT !.closing = TRUE]

\* Machine.Dismiss
Dismissed(s) ==
    IF s.stage # "finished" THEN s
    ELSE [s EXCEPT !.stage = "idle", !.op = "none", !.started = FALSE,
                   !.closing = FALSE]

-----------------------------------------------------------------------------
(* The bridge.  asked is the question whose Ask has not returned, reply its *)
(* reply channel.                                                          *)

NewBridge(n) == [n |-> n, closed |-> FALSE, queue |-> <<>>,
                 current |-> NoQuestion, asked |-> NoQuestion, reply |-> NoReply]

\* The function ShowNext gives to show.  The answer of a question that has
\* one, or of an earlier run, is ignored (question.once).
Answered(s, q, v) ==
    IF s.run = NoRun \/ s.run.asked # q THEN s
    ELSE [s EXCEPT !.run.current = IF @ = q THEN NoQuestion ELSE @,
                   !.run.reply = IF @ = NoReply THEN v ELSE @,
                   !.posted = IF s.run.queue = <<>> THEN @
                              ELSE Append(@, "question")]

\* Faulty variant: only later questions are refused.
CloseLaterOnly(s) == [s EXCEPT !.run.closed = TRUE]

\* Bridge.Close: the shown and the queued questions get the cancel answer.
CloseBridge(s) ==
    LET r == s.run
        pending == r.asked # NoQuestion
                   /\ (r.current = r.asked
                       \/ \E i \in 1 .. Len(r.queue) : r.queue[i] = r.asked)
    IN  [s EXCEPT !.run.closed = TRUE,
                  !.run.queue = <<>>,
                  !.run.current = NoQuestion,
                  !.run.reply = IF pending /\ @ = NoReply THEN "cancel" ELSE @]

-----------------------------------------------------------------------------
(* The windows.  A window that is open has the question whose answer it    *)
(* holds, and the Restore window whether its Start was pressed.            *)

Shut == [open |-> FALSE, q |-> NoQuestion, starting |-> FALSE]

\* openPlanDialog, openVerifyDialog, openRestore: nothing when it is open.
Open(s, w) ==
    IF s.win[w].open THEN s
    ELSE [s EXCEPT !.win[w] = [Shut EXCEPT !.open = TRUE],
                   !.disabled = (@ \ {w}) \cup {"main"}]

\* close of the three windows
Close(s, w) ==
    IF s.win[w].open
    THEN [s EXCEPT !.win[w] = Shut, !.disabled = @ \ {"main"}]
    ELSE s

DialogOwner(s) == IF s.win["restore"].open THEN "restore" ELSE "main"

\* The loop of a dialog owned by o.  A task dialog disables its owner and
\* enables it again if it did so; runCredentialDialog enables it in any case.
Push(s, kind, q, o) ==
    [s EXCEPT !.frames = Append(@, [kind |-> kind, q |-> q, result |-> "open",
                                    owner |-> o, was |-> o \notin s.disabled]),
              !.disabled = @ \cup {o}]

Pop(s) ==
    LET f == s.frames[Len(s.frames)]
        enable == f.kind \in {"cred", "refused"} \/ f.was
    IN  [s EXCEPT !.frames = SubSeq(@, 1, Len(@) - 1),
                  !.disabled = IF enable THEN @ \ {f.owner} ELSE @]

\* closeModal: the open credential dialog is closed without an answer.
CloseModal(s) ==
    [s EXCEPT !.frames =
        [i \in 1 .. Len(@) |->
            IF @[i].kind \in {"cred", "refused"} /\ @[i].result = "open"
            THEN [@[i] EXCEPT !.result = "no"] ELSE @[i]]]

\* cancelRun: the context and the bridge reach the worker, the dialog and the
\* windows of a plan go.
CancelRun(s) ==
    IF s.run = NoRun \/ s.stage = "cancelling" THEN s
    ELSE Close(Close(CloseModal(CloseBridge(Cancelling(s))), "backup"), "verify")

-----------------------------------------------------------------------------
Init ==
    /\ app = [stage |-> "idle", op |-> "none", started |-> FALSE,
              closing |-> FALSE, run |-> NoRun, win |-> [w \in Op |-> Shut],
              frames |-> <<>>, disabled |-> {}, posted |-> <<>>, up |-> TRUE]
    /\ worker = [pc |-> "off", phase |-> "none", asks |-> 0]
    /\ runs = 0

\* The UI thread waits for a message, in the main loop or in the loop on top;
\* a loop whose dialog was answered ends before it takes another one.
Ready ==
    /\ app.up
    /\ app.frames # <<>> => app.frames[Len(app.frames)].result = "open"

\* The user can use window w.
Usable(w) ==
    /\ Ready
    /\ w \notin app.disabled
    /\ w # "main" => app.win[w].open

-----------------------------------------------------------------------------
(* Starting.                                                               *)

\* startOperation after Machine.Start; a finished run is dismissed.
Started(s, op) ==
    [s EXCEPT !.stage = "planning", !.op = op, !.started = FALSE,
              !.closing = FALSE, !.run = NewBridge(runs + 1)]

NewWorker ==
    /\ runs < MaxRuns
    /\ runs' = runs + 1
    /\ worker' = [pc |-> "working", phase |-> "plan", asks |-> 0]

\* startOperation for a backup or a verification.  The window may fail to
\* open; its questions are then refused.
StartOperation(op) ==
    /\ Usable("main") /\ ~Busy
    /\ NewWorker
    /\ \/ app' = Open(Started(app, op), op)
       \/ app' = Started(app, op)

\* openRestore
OpenRestore ==
    /\ Usable("main") /\ ~Busy
    /\ ~app.win["restore"].open
    /\ app' = Open(app, "restore")
    /\ UNCHANGED <<worker, runs>>

\* startRestore.  Machine.Start refuses while another operation is busy.
StartRestore ==
    /\ Usable("restore") /\ ~app.win["restore"].starting
    /\ LET s == [app EXCEPT !.win["restore"].starting = TRUE]
       IN  IF Busy THEN app' = s /\ UNCHANGED <<worker, runs>>
                   ELSE app' = Started(s, "restore") /\ NewWorker

\* restoreDialog.cancelPressed
RestoreCancel ==
    /\ Usable("restore")
    /\ app' = Close(IF app.win["restore"].starting THEN CancelRun(app) ELSE app,
                    "restore")
    /\ UNCHANGED <<worker, runs>>

-----------------------------------------------------------------------------
(* The plan and Verify windows.                                            *)

\* Start of the plan or the Verify window: takeAnswer, close, runStarted,
\* answer.
PressStart(w) ==
    /\ Usable(w) /\ app.win[w].q # NoQuestion
    /\ app' = Answered(Confirmed(Close(app, w)), app.win[w].q, "ok")
    /\ UNCHANGED <<worker, runs>>

\* Full backup instead, or back to the automatic plan.
PressFull ==
    /\ Usable("backup") /\ app.win["backup"].q # NoQuestion
    /\ app' = Answered([app EXCEPT !.win["backup"].q = NoQuestion],
                       app.win["backup"].q, "other")
    /\ UNCHANGED <<worker, runs>>

\* New keys asks first.
PressNewKeys ==
    /\ Usable("backup") /\ app.win["backup"].q # NoQuestion
    /\ Len(app.frames) < MaxFrames
    /\ app' = Push(app, "newkeys", app.win["backup"].q, "backup")
    /\ UNCHANGED <<worker, runs>>

\* Faulty variant: leaves the question to the bridge.
PressCancelSilent(w) ==
    /\ Usable(w)
    /\ LET s == Close(app, w)
       IN  app' = IF app.win[w].q # NoQuestion THEN s ELSE CancelRun(s)
    /\ UNCHANGED <<worker, runs>>

\* Cancel, Esc and the close button.
PressCancel(w) ==
    /\ Usable(w)
    /\ LET q == app.win[w].q
           s == Close(app, w)
       IN  app' = IF q # NoQuestion THEN Answered(s, q, "cancel")
                                    ELSE CancelRun(s)
    /\ UNCHANGED <<worker, runs>>

-----------------------------------------------------------------------------
(* Cancelling and closing.                                                 *)

\* confirmCancel: the Cancel button of the progress card.
ConfirmCancel ==
    /\ Usable("main")
    /\ \/ app.stage = "planning" /\ app' = CancelRun(app)
       \/ /\ app.stage = "running" /\ Len(app.frames) < MaxFrames
          /\ app' = Push(app, "cancel", NoQuestion, DialogOwner(app))
    /\ UNCHANGED <<worker, runs>>

\* onClose.  WM_CLOSE also reaches a window that is disabled, from the taskbar
\* or from another program.
OnClose ==
    /\ Ready
    /\ \/ ~Busy /\ app' = [app EXCEPT !.up = FALSE]
       \/ /\ app.stage \in {"planning", "cancelling"}
          /\ app' = CancelRun([app EXCEPT !.closing = TRUE])
       \/ /\ app.stage = "running" /\ Len(app.frames) < MaxFrames
          /\ app' = Push(app, "close", NoQuestion, "main")
    /\ UNCHANGED <<worker, runs>>

\* onQueryEndSession
OnQueryEndSession ==
    /\ Ready /\ app.run # NoRun
    /\ app' = CancelRun(CloseConfirmed(app))
    /\ UNCHANGED <<worker, runs>>

\* onEndSession: cancels, waits up to 20 seconds for the worker, whose end goes
\* back into doneCh, and Windows ends the process.
OnEndSession ==
    /\ Ready /\ app.run # NoRun
    /\ app' = [CancelRun(app) EXCEPT !.up = FALSE]
    /\ UNCHANGED <<worker, runs>>

\* dismiss: the button of the result card.
Dismiss ==
    /\ Usable("main") /\ app.stage = "finished"
    /\ app' = Dismissed(app)
    /\ UNCHANGED <<worker, runs>>

-----------------------------------------------------------------------------
(* The dialogs with a loop of their own.                                   *)

\* The user answers an open dialog, whichever loop is on top.  Only the dialog
\* after a refused YubiKey has a link that matters here.
AnswerDialog ==
    /\ Ready
    /\ \E i \in 1 .. Len(app.frames) :
           /\ app.frames[i].result = "open"
           /\ \E v \in {"yes", "no", "link"} :
                  /\ v = "link" => app.frames[i].kind = "refused"
                  /\ app' = [app EXCEPT !.frames[i].result = v]
    /\ UNCHANGED <<worker, runs>>

\* What the handler does after its dialog.
Continue(s, f) ==
    CASE f.kind = "cancel"  -> IF f.result = "yes" THEN CancelRun(s) ELSE s
      [] f.kind = "close"   -> IF f.result = "yes" THEN CancelRun(CloseConfirmed(s))
                                                   ELSE s
      [] f.kind = "newkeys" -> IF f.result # "yes" THEN s
                               ELSE Answered(IF s.win["backup"].q # f.q THEN s
                                             ELSE [s EXCEPT !.win["backup"].q = NoQuestion],
                                             f.q, "other")
      [] OTHER ->
           CASE f.result = "link" -> Answered(Open(Replan(s), "backup"), f.q, "other")
             [] f.result = "yes"  -> Answered(s, f.q, "ok")
             [] OTHER             -> Answered(s, f.q, "cancel")

\* The loop on top ends.
Return ==
    /\ app.up /\ app.frames # <<>>
    /\ LET f == app.frames[Len(app.frames)]
       IN  f.result # "open" /\ app' = Continue(Pop(app), f)
    /\ UNCHANGED <<worker, runs>>

-----------------------------------------------------------------------------
(* The posted messages.                                                    *)

\* questions.ConfirmBackupStart and planDialog.ask: the plan window keeps the
\* answer for its buttons; without a window it is no.
AskBackup(s, q) ==
    IF s.win["backup"].open THEN [s EXCEPT !.win["backup"].q = q]
                            ELSE Answered(s, q, "cancel")

\* Faulty variant: the restore starts and the machine is not told.
AskRestoreUnrecorded(s, q) ==
    IF s.win["restore"].open /\ s.win["restore"].starting
    THEN Answered(Close(s, "restore"), q, "ok")
    ELSE Answered(s, q, "cancel")

\* restoreDialog.ask: yes, as Start was the confirmation, and the window goes.
AskRestore(s, q) ==
    IF s.win["restore"].open /\ s.win["restore"].starting
    THEN Answered(Confirmed(Close(s, "restore")), q, "ok")
    ELSE Answered(s, q, "cancel")

\* questions.ConfirmStart
AskStart(s, q) ==
    IF s.op = "restore" THEN AskRestore(s, q)
    ELSE IF s.win["verify"].open THEN [s EXCEPT !.win["verify"].q = q]
    ELSE Answered(s, q, "cancel")

\* Bridge.ShowNext: takes a question unless one is shown, and shows it.  A
\* credential dialog that cannot be created counts as cancelled.
ShowNext(s) ==
    IF s.run.queue = <<>> \/ s.run.current # NoQuestion THEN {s}
    ELSE LET q == Head(s.run.queue)
             t == [s EXCEPT !.run.queue = Tail(@), !.run.current = q]
         IN  CASE q.kind = "plan"  -> {Answered(t, q, "ok")}
               [] q.kind = "start" -> {IF t.op = "backup" THEN AskBackup(t, q)
                                                          ELSE AskStart(t, q)}
               [] OTHER -> {Push(t, q.kind, q, DialogOwner(t)),
                            Answered(t, q, "cancel")}

\* msgBridge with NoteQuestion.
QuestionMessage ==
    /\ Ready /\ app.posted # <<>> /\ Head(app.posted) = "question"
    /\ LET s == [app EXCEPT !.posted = Tail(@)]
       IN  app' \in (IF s.run = NoRun THEN {s} ELSE ShowNext(s))
    /\ UNCHANGED <<worker, runs>>

\* verifyDialog.workerDone: when the verification did not start, the window
\* stays and shows why.
VerifyDone(s) ==
    IF s.started THEN Close(s, "verify")
    ELSE [Dismissed(s) EXCEPT !.win["verify"].q = NoQuestion]

\* restoreDialog.workerDone: likewise; the user may change the choices.
RestoreDone(s) ==
    IF s.started THEN Close(s, "restore")
    ELSE [Dismissed(s) EXCEPT !.win["restore"].starting = FALSE]

\* onWorkerDone: Machine.Done, then close the window, or show the end.
Ended(s) ==
    LET t == [Close(s, "backup") EXCEPT !.run = NoRun, !.stage = "finished"]
    IN  IF t.closing THEN [t EXCEPT !.up = FALSE]
        ELSE CASE t.op = "restore" /\ t.win["restore"].open -> RestoreDone(t)
               [] t.op = "verify" /\ t.win["verify"].open   -> VerifyDone(t)
               [] OTHER                                     -> t

\* msgWorkerDone.  The receive from doneCh waits for the worker's end.
OnWorkerDone ==
    /\ Ready /\ app.posted # <<>> /\ Head(app.posted) = "done"
    /\ app.run # NoRun => worker.pc \in {"ended", "over"}
    /\ LET s == [app EXCEPT !.posted = Tail(@)]
       IN  app' = IF s.run = NoRun THEN s ELSE Ended(s)
    /\ worker' = IF app.run = NoRun THEN worker ELSE [worker EXCEPT !.pc = "off"]
    /\ UNCHANGED runs

-----------------------------------------------------------------------------
(* The worker.                                                             *)

\* What the workflow does after an answer.
PhaseAfter(kind, reply) ==
    IF kind = "plan" THEN "confirm"
    ELSE CASE kind \in {"start", "refused"} /\ reply = "other" -> "plan"
           [] reply = "ok" -> "unlock"
           [] OTHER        -> "leaving"

KindsIn(phase) ==
    CASE phase = "plan"    -> {"plan"}
      [] phase = "confirm" -> {"start"}
      [] phase = "unlock"  -> {"cred"} \cup (IF app.op = "backup" THEN {"refused"} ELSE {})
      [] OTHER             -> {}

\* Bridge.Ask, up to the notification; a closed bridge gives the cancel answer
\* at once.
Ask ==
    /\ worker.pc = "working" /\ worker.asks < MaxAsks
    /\ \E kind \in KindsIn(worker.phase) :
           LET q == [n |-> app.run.n, k |-> worker.asks + 1, kind |-> kind]
           IN  \/ /\ app.run.closed
                  /\ worker' = [worker EXCEPT !.phase = PhaseAfter(kind, "cancel"),
                                              !.asks = @ + 1]
                  /\ UNCHANGED app
               \/ /\ ~app.run.closed
                  /\ worker' = [worker EXCEPT !.pc = "queued", !.asks = @ + 1]
                  /\ app' = [app EXCEPT !.run.queue = Append(@, q),
                                        !.run.asked = q]
    /\ UNCHANGED runs

\* Ask posts the message, and waits.
Notify ==
    /\ worker.pc = "queued"
    /\ worker' = [worker EXCEPT !.pc = "waiting"]
    /\ app' = [app EXCEPT !.posted = Append(@, "question")]
    /\ UNCHANGED runs

\* Ask returns the answer.
Reply ==
    /\ worker.pc = "waiting" /\ app.run.reply # NoReply
    /\ worker' = [worker EXCEPT !.pc = "working",
                                !.phase = PhaseAfter(app.run.asked.kind,
                                                     app.run.reply)]
    /\ app' = [app EXCEPT !.run.asked = NoQuestion, !.run.reply = NoReply]
    /\ UNCHANGED runs

\* The workflow returns, and its end is sent to doneCh.
WorkerEnds ==
    /\ worker.pc = "working"
    /\ worker' = [worker EXCEPT !.pc = "ended", !.phase = "none"]
    /\ UNCHANGED <<app, runs>>

\* Then msgWorkerDone is posted.
PostDone ==
    /\ worker.pc = "ended"
    /\ worker' = [worker EXCEPT !.pc = "over"]
    /\ app' = [app EXCEPT !.posted = Append(@, "done")]
    /\ UNCHANGED runs

\* The main window is gone and the program ends.
Exited ==
    /\ ~app.up
    /\ UNCHANGED vars

-----------------------------------------------------------------------------
Next ==
    \/ \E op \in {"backup", "verify"} : StartOperation(op)
    \/ OpenRestore
    \/ StartRestore
    \/ RestoreCancel
    \/ \E w \in {"backup", "verify"} : PressStart(w) \/ PressCancel(w)
    \/ PressFull
    \/ PressNewKeys
    \/ ConfirmCancel
    \/ OnClose
    \/ OnQueryEndSession
    \/ OnEndSession
    \/ Dismiss
    \/ AnswerDialog
    \/ Return
    \/ QuestionMessage
    \/ OnWorkerDone
    \/ Ask
    \/ Notify
    \/ Reply
    \/ WorkerEnds
    \/ PostDone
    \/ Exited

\* The worker runs and its workflow ends by itself, the UI thread handles its
\* messages, and a loop whose dialog was answered ends.  Nothing is assumed of
\* the user.
Fairness ==
    /\ WF_vars(Notify)
    /\ WF_vars(Reply)
    /\ WF_vars(WorkerEnds)
    /\ WF_vars(PostDone)
    /\ WF_vars(QuestionMessage)
    /\ WF_vars(OnWorkerDone)
    /\ WF_vars(Return)

Spec == Init /\ [][Next]_vars /\ Fairness

-----------------------------------------------------------------------------
(* Properties.                                                             *)

\* Neither side waits for what cannot come.  A worker that waits for an answer
\* can get one: its question is queued and announced, or a window or a dialog
\* that is there holds it; neither closing a window, cancelling, nor the order in
\* which nested loops end loses it.  And the message that the worker has ended is
\* posted once, and not before its end can be received: onWorkerDone never blocks
\* the UI thread in <-r.doneCh.
NoLostMessage ==
    /\ worker.pc = "waiting" /\ app.run.reply = NoReply =>
         LET q == app.run.asked
         IN  \/ /\ \E i \in 1 .. Len(app.run.queue) : app.run.queue[i] = q
                /\ \E i \in 1 .. Len(app.posted) : app.posted[i] = "question"
             \/ /\ app.run.current = q
                /\ \/ \E w \in Op : app.win[w].open /\ app.win[w].q = q
                   \/ \E i \in 1 .. Len(app.frames) :
                          /\ app.frames[i].kind \in {"cred", "refused"}
                          /\ app.frames[i].q = q
    /\ \A i \in 1 .. Len(app.posted) :
         app.posted[i] = "done" => worker.pc = "over" /\ i = Len(app.posted)

\* The worker goes beyond its plan only in a run whose stage says that the
\* user started it.  In the planning stage Cancel and closing the window end
\* the run without asking ("StagePlanning: the workflow plans and asks; nothing
\* is written yet", flow/machine.go).
StageIsTrue ==
    worker.pc = "working" /\ worker.phase = "unlock" =>
        app.stage \in {"running", "cancelling"}

\* No dialog about a refused YubiKey whose link to new keys was chosen waits
\* for the loops above it while another operation has been started.
NoOldLink ==
    \A i \in 1 .. Len(app.frames) :
        app.frames[i].kind = "refused" /\ app.frames[i].result = "link" =>
            app.frames[i].q.n = runs

\* The stage is true as long as no such dialog outlives its operation: it goes
\* back to planning only with the worker, whichever windows, dialogs and
\* cancellations come in between.
WorkIsConfirmed == []NoOldLink => []StageIsTrue

\* A cancelled operation ends, unless the session does, whatever the user does
\* with the dialogs that are open; and when closing was asked for while it was
\* busy, the window closes.
CancelCompletes ==
    /\ app.stage = "cancelling" ~> ~Busy \/ ~app.up
    /\ app.closing /\ Busy ~> ~app.up
-----------------------------------------------------------------------------
(* What holds between the two sides at every step, as predicates of the UI *)
(* thread's state s, the worker w and the number of operations r.          *)

Asked == Question \cup {NoQuestion}
Credential == {"cred", "refused"}

Bridge == [n : 1 .. MaxRuns, closed : BOOLEAN, queue : Seq(Question),
           current : Asked, asked : Asked, reply : {NoReply, "ok", "other", "cancel"}]
Frame == [kind : Credential \cup {"newkeys", "cancel", "close"}, q : Asked,
          result : {"open", "yes", "no", "link"}, owner : Window, was : BOOLEAN]
AppState ==
    [stage : {"idle", "planning", "running", "cancelling", "finished"},
     op : Op \cup {"none"}, started : BOOLEAN, closing : BOOLEAN,
     run : Bridge \cup {NoRun},
     win : [Op -> [open : BOOLEAN, q : Asked, starting : BOOLEAN]],
     frames : Seq(Frame), disabled : SUBSET Window,
     posted : Seq({"question", "done"}), up : BOOLEAN]
WorkerState ==
    [pc : {"off", "working", "queued", "waiting", "ended", "over"},
     phase : {"none", "plan", "confirm", "unlock", "leaving"}, asks : 0 .. MaxAsks]

\* There is a worker as long as there is a run, and a run while it is busy.
RunOfWorker(s, w, r) ==
    /\ s.run = NoRun <=> w.pc = "off"
    /\ s.run = NoRun <=> s.stage \in {"idle", "finished"}
    /\ s.run # NoRun => s.run.n = r

\* The question of the worker is queued, or shown, or answered; once the bridge
\* is closed, it is answered.
OneQuestion(s, w, r) ==
    LET b == s.run IN
    b # NoRun =>
       /\ b.asked # NoQuestion <=> w.pc \in {"queued", "waiting"}
       /\ b.asked # NoQuestion => b.asked.n = r /\ b.asked.k = w.asks
       /\ b.asked = NoQuestion => b.reply = NoReply
       /\ \/ b.queue = <<b.asked>> /\ b.asked # NoQuestion
             /\ b.current = NoQuestion /\ b.reply = NoReply
          \/ b.queue = <<>> /\ b.current = b.asked /\ b.reply = NoReply
          \/ b.queue = <<>> /\ b.current = NoQuestion /\ b.reply # NoReply
       /\ b.closed => b.asked = NoQuestion \/ b.reply # NoReply

\* A window or a dialog may hold q: it was asked before, and if it is the
\* worker's, it is not queued any more.
WasShown(s, w, r, q) ==
    q # NoQuestion =>
       /\ q.n <= r
       /\ s.run # NoRun /\ q.n = r => q.k <= w.asks
       /\ s.run # NoRun /\ s.run.asked = q => s.run.queue = <<>>

Holders(s, w, r) ==
    /\ s.win["restore"].q = NoQuestion
    /\ \A v \in Op : /\ WasShown(s, w, r, s.win[v].q)
                     /\ s.win[v].q # NoQuestion => s.win[v].q.kind = "start"
    /\ \A i \in 1 .. Len(s.frames) :
          LET f == s.frames[i] IN
          /\ WasShown(s, w, r, f.q)
          /\ f.kind \in Credential => f.q # NoQuestion /\ f.q.kind = f.kind
          /\ f.kind = "newkeys" => f.q # NoQuestion /\ f.q.kind = "start"

\* A queued question is announced; the end of the worker is the last message.
Messages(s, w) ==
    /\ s.run # NoRun /\ w.pc = "waiting" /\ s.run.queue # <<>> =>
          \E i \in 1 .. Len(s.posted) : s.posted[i] = "question"
    /\ \A i \in 1 .. Len(s.posted) :
          s.posted[i] = "done" => w.pc = "over" /\ i = Len(s.posted)

FlowBase(s, w, r) ==
    /\ s \in AppState /\ w \in WorkerState /\ r \in 0 .. MaxRuns
    /\ RunOfWorker(s, w, r) /\ OneQuestion(s, w, r)
    /\ Holders(s, w, r) /\ Messages(s, w)

\* A window or a credential dialog that is there holds q.
Held(s, q) ==
    \/ \E v \in Op : s.win[v].open /\ s.win[v].q = q
    \/ \E i \in 1 .. Len(s.frames) : s.frames[i].kind \in Credential /\ s.frames[i].q = q

\* The question shown is held, unless it is q, which is being answered.
HeldUnless(s, q) ==
    s.run # NoRun /\ s.run.current \notin {NoQuestion, q} => Held(s, s.run.current)

FlowInv == FlowBase(app, worker, runs) /\ HeldUnless(app, NoQuestion)

\* The question q waits for its answer.
Live(s, q) == s.run # NoRun /\ s.run.asked = q /\ s.run.reply = NoReply

\* The phase fits the question, and the stage the phase; an answer that starts
\* or plans anew has changed the stage before the worker receives it.
StageOfPhase(s, w) ==
    LET b == s.run
        begun == s.stage \in {"running", "cancelling"} IN
    b # NoRun =>
       /\ b.asked # NoQuestion =>
             /\ b.asked.kind = "start" => w.phase = "confirm"
             /\ b.asked.kind \in Credential <=> w.phase = "unlock"
             /\ b.asked.kind = "start" /\ b.reply = "ok" => begun
       /\ w.phase = "unlock" =>
             begun \/ (b.asked # NoQuestion /\ b.asked.kind = "refused" /\ b.reply = "other")

\* A question has one dialog.
OneDialog(s) ==
    \A i, j \in 1 .. Len(s.frames) :
       i # j /\ s.frames[i].kind = "refused" /\ s.frames[j].kind = "refused" =>
          s.frames[i].q # s.frames[j].q

\* An open dialog about a refused YubiKey, or one whose link was chosen, is the
\* worker's, unless the operation is being cancelled or over.
DialogsOfRun(s) ==
    \A i \in 1 .. Len(s.frames) :
       /\ s.frames[i].kind = "refused" /\ s.frames[i].result = "open" =>
             Live(s, s.frames[i].q)
       /\ s.frames[i].result = "link" =>
             /\ s.frames[i].kind = "refused"
             /\ Live(s, s.frames[i].q) \/ s.stage \notin {"planning", "running"}

StageInv(s, w) == StageOfPhase(s, w) /\ OneDialog(s) /\ DialogsOfRun(s)
=============================================================================
