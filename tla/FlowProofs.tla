----------------------------- MODULE FlowProofs -----------------------------
(***************************************************************************)
(* Between the worker goroutine and the UI thread no question and no       *)
(* message is lost, and the stage of the run tells whether the worker has  *)
(* gone beyond its plan, for any number of operations, questions and       *)
(* nested loops.                                                           *)
(*                                                                         *)
(* The handlers are functions of the UI thread's state, put together from  *)
(* few helpers.  So the invariants are predicates of such a state s, and a *)
(* lemma for each helper says what it keeps of them; closing a window and  *)
(* ending a loop keep that the question shown is held unless it is the one *)
(* whose answer follows.                                                   *)
(***************************************************************************)
EXTENDS Flow, SequenceTheorems, TLAPS

-----------------------------------------------------------------------------
(* Questions, bridges and frames.                                          *)

\* The zero values are none of the values they stand beside.
LEMMA ZeroValues ==
    /\ \A q \in Question : q # NoQuestion
    /\ \A b \in Bridge : b # NoRun
  BY BoundsAssumption DEF Question, Bridge, NoQuestion, NoRun

\* The fields of the UI thread's state that the invariants read.
LEMMA AppFields ==
    ASSUME NEW s \in AppState
    PROVE  /\ s.run \in Bridge \cup {NoRun}
           /\ s.run # NoRun => s.run \in Bridge
           /\ s.stage \in {"idle", "planning", "running", "cancelling", "finished"}
           /\ s.win \in [Op -> [open : BOOLEAN, q : Asked, starting : BOOLEAN]]
           /\ s.frames \in Seq(Frame)
           /\ s.posted \in Seq({"question", "done"})
           /\ s.up \in BOOLEAN /\ s.closing \in BOOLEAN /\ s.started \in BOOLEAN
           /\ s.disabled \in SUBSET Window /\ s.op \in Op \cup {"none"}
  BY DEF AppState

\* The fields of a bridge.
LEMMA BridgeFields ==
    ASSUME NEW b \in Bridge
    PROVE  /\ b.n \in 1 .. MaxRuns /\ b.closed \in BOOLEAN
           /\ b.queue \in Seq(Question)
           /\ b.current \in Asked /\ b.asked \in Asked
           /\ b.reply \in {NoReply, "ok", "other", "cancel"}
  BY DEF Bridge

\* The fields of a frame.
LEMMA FrameFields ==
    ASSUME NEW f \in Frame
    PROVE  /\ f.kind \in Credential \cup {"newkeys", "cancel", "close"}
           /\ f.q \in Asked /\ f.result \in {"open", "yes", "no", "link"}
           /\ f.owner \in Window /\ f.was \in BOOLEAN
  BY DEF Frame

\* What s and t have in common when t has the run, the messages and the dialogs
\* of s, and windows that hold no other question.
Alike(s, t) ==
    /\ t.run = s.run
    /\ t.stage \in {"idle", "finished"} <=> s.stage \in {"idle", "finished"}
    /\ t.posted = s.posted
    /\ \A v \in Op : t.win[v].q \in {s.win[v].q, NoQuestion}
    /\ Len(t.frames) = Len(s.frames)
    /\ \A i \in 1 .. Len(s.frames) : /\ t.frames[i].kind = s.frames[i].kind
                                     /\ t.frames[i].q = s.frames[i].q

\* Such a state keeps the base.
LEMMA AlikeBase ==
    ASSUME NEW s, NEW t \in AppState, NEW w, NEW r,
           FlowBase(s, w, r), Alike(s, t)
    PROVE  FlowBase(t, w, r)
<1>1. s \in AppState /\ w \in WorkerState /\ r \in 0 .. MaxRuns
  BY DEF FlowBase
<1>2. RunOfWorker(t, w, r)
  BY DEF FlowBase, RunOfWorker, Alike
<1>3. OneQuestion(t, w, r)
  BY DEF FlowBase, OneQuestion, Alike
<1>4. \A q : WasShown(s, w, r, q) => WasShown(t, w, r, q)
  BY DEF WasShown, Alike
<1>5. WasShown(t, w, r, NoQuestion)
  BY DEF WasShown
<1>6. Holders(t, w, r)
  BY <1>4, <1>5 DEF FlowBase, Holders, Alike, Op
<1>7. Messages(t, w)
  BY DEF FlowBase, Messages, Alike
<1> QED
  BY <1>1, <1>2, <1>3, <1>6, <1>7 DEF FlowBase

\* And what is shown stays held when no window is taken from a question but q.
LEMMA AlikeHeld ==
    ASSUME NEW s, NEW t, NEW q, Alike(s, t), HeldUnless(s, q),
           \A v \in Op : s.win[v].open /\ s.win[v].q \notin {NoQuestion, q} =>
                            t.win[v].open /\ t.win[v].q = s.win[v].q
    PROVE  HeldUnless(t, q)
  BY DEF Alike, HeldUnless, Held

\* A state with the stage, the run and the dialogs of s has its stage facts.
LEMMA SameStage ==
    ASSUME NEW s, NEW t, NEW w, StageInv(s, w),
           t.run = s.run, t.stage = s.stage, t.frames = s.frames
    PROVE  StageInv(t, w)
  BY DEF StageInv, StageOfPhase, OneDialog, DialogsOfRun, Live
-----------------------------------------------------------------------------
(* The machine.                                                            *)

\* Machine.Confirmed, Replan, Cancelling and CloseConfirmed change the stage,
\* `started' and `closing', and no run becomes idle or finished by them.
LEMMA MachineFields ==
    ASSUME NEW s \in AppState,
           NEW t \in {Confirmed(s), Replan(s), Cancelling(s), CloseConfirmed(s)}
    PROVE  /\ t \in AppState
           /\ t.run = s.run /\ t.posted = s.posted /\ t.win = s.win
           /\ t.frames = s.frames /\ t.op = s.op /\ t.up = s.up
           /\ t.disabled = s.disabled
           /\ t.stage \in {"idle", "finished"} <=> s.stage \in {"idle", "finished"}
<1>1. CASE t = Confirmed(s)
  BY <1>1 DEF AppState, Confirmed
<1>2. CASE t = Replan(s)
  BY <1>2 DEF AppState, Replan
<1>3. CASE t = Cancelling(s)
  BY <1>3 DEF AppState, Cancelling
<1>4. CASE t = CloseConfirmed(s)
  BY <1>4 DEF AppState, CloseConfirmed
<1> QED
  BY <1>1, <1>2, <1>3, <1>4, Zenon

\* What they do to the stage.
LEMMA MachineStages ==
    ASSUME NEW s \in AppState
    PROVE  /\ Confirmed(s).stage = IF s.stage = "planning" THEN "running" ELSE s.stage
           /\ Replan(s).stage = IF s.stage = "running" THEN "planning" ELSE s.stage
           /\ Cancelling(s).stage =
                IF s.stage \in {"planning", "running"} THEN "cancelling" ELSE s.stage
           /\ CloseConfirmed(s).stage = s.stage
  BY DEF AppState, Confirmed, Replan, Cancelling, CloseConfirmed

\* They keep what concerns questions.
LEMMA MachineKeeps ==
    ASSUME NEW s, NEW w, NEW r, NEW q, FlowBase(s, w, r), HeldUnless(s, q),
           NEW t \in {Confirmed(s), Replan(s), Cancelling(s), CloseConfirmed(s)}
    PROVE  FlowBase(t, w, r) /\ HeldUnless(t, q)
<1>1. s \in AppState
  BY DEF FlowBase
<1>2. t \in AppState /\ Alike(s, t) /\ t.win = s.win
  BY <1>1, MachineFields DEF Alike
<1> QED
  BY <1>2, AlikeBase, AlikeHeld

\* Machine.Dismiss ends a finished run.
LEMMA DismissedFields ==
    ASSUME NEW s \in AppState
    PROVE  /\ Dismissed(s) \in AppState
           /\ Dismissed(s).run = s.run /\ Dismissed(s).posted = s.posted
           /\ Dismissed(s).win = s.win /\ Dismissed(s).frames = s.frames
           /\ Dismissed(s).up = s.up
           /\ Dismissed(s).stage = IF s.stage = "finished" THEN "idle" ELSE s.stage
  BY DEF AppState, Dismissed

-----------------------------------------------------------------------------
(* The windows.                                                            *)

\* Closing a window changes that window and the disabled ones.
LEMMA CloseFields ==
    ASSUME NEW s \in AppState, NEW v \in Op
    PROVE  /\ Close(s, v) \in AppState
           /\ Close(s, v).run = s.run /\ Close(s, v).stage = s.stage
           /\ Close(s, v).posted = s.posted /\ Close(s, v).frames = s.frames
           /\ Close(s, v).up = s.up /\ Close(s, v).op = s.op
           /\ Close(s, v).closing = s.closing
           /\ \A x \in Op : x # v => Close(s, v).win[x] = s.win[x]
           /\ Close(s, v).win[v] = IF s.win[v].open THEN Shut ELSE s.win[v]
<1>1. Shut \in [open : BOOLEAN, q : Asked, starting : BOOLEAN]
  BY DEF Shut, Asked
<1> QED
  BY <1>1, Zenon DEF Close, AppState

\* Closing a window keeps the base, and what is shown held unless the window
\* held it.
LEMMA CloseKeeps ==
    ASSUME NEW s, NEW w, NEW r, NEW q, NEW v \in Op,
           FlowBase(s, w, r), HeldUnless(s, q), s.win[v].q \in {NoQuestion, q}
    PROVE  FlowBase(Close(s, v), w, r) /\ HeldUnless(Close(s, v), q)
<1>1. s \in AppState
  BY DEF FlowBase
<1> DEFINE t == Close(s, v)
<1>2. /\ t \in AppState /\ t.run = s.run /\ t.stage = s.stage
      /\ t.posted = s.posted /\ t.frames = s.frames
      /\ \A x \in Op : x # v => t.win[x] = s.win[x]
      /\ t.win[v] = IF s.win[v].open THEN Shut ELSE s.win[v]
  BY <1>1, CloseFields
<1> HIDE DEF t
<1>3. Shut.q = NoQuestion
  BY DEF Shut
<1>4. Alike(s, t)
  BY <1>2, <1>3 DEF Alike
<1>5. \A x \in Op : s.win[x].open /\ s.win[x].q \notin {NoQuestion, q} =>
                       t.win[x].open /\ t.win[x].q = s.win[x].q
  BY <1>2
<1> QED
  BY <1>2, <1>4, <1>5, AlikeBase, AlikeHeld DEF t

\* A window holds its question or none.
LEMMA CloseQuestions ==
    ASSUME NEW s \in AppState, NEW v \in Op
    PROVE  \A x \in Op : Close(s, v).win[x].q \in {s.win[x].q, NoQuestion}
<1> DEFINE t == Close(s, v)
<1>1. /\ \A x \in Op : x # v => t.win[x] = s.win[x]
      /\ t.win[v] = IF s.win[v].open THEN Shut ELSE s.win[v]
  BY CloseFields
<1> HIDE DEF t
<1>2. Shut.q = NoQuestion
  BY DEF Shut
<1>3. t.win[v] = Shut \/ t.win[v] = s.win[v]
  BY <1>1
<1>4. \A x \in Op : t.win[x].q \in {s.win[x].q, NoQuestion}
  BY <1>1, <1>2, <1>3
<1> QED
  BY <1>4 DEF t

\* It keeps the facts of the stage.
LEMMA CloseStage ==
    ASSUME NEW s \in AppState, NEW w, NEW v \in Op, StageInv(s, w)
    PROVE  StageInv(Close(s, v), w)
  BY CloseFields, SameStage

\* Opening a window changes that window and the disabled ones.
LEMMA OpenFields ==
    ASSUME NEW s \in AppState, NEW v \in Op
    PROVE  /\ Open(s, v) \in AppState
           /\ Open(s, v).run = s.run /\ Open(s, v).stage = s.stage
           /\ Open(s, v).posted = s.posted /\ Open(s, v).frames = s.frames
           /\ Open(s, v).up = s.up /\ Open(s, v).op = s.op
           /\ \A x \in Op : x # v => Open(s, v).win[x] = s.win[x]
           /\ s.win[v].open => Open(s, v).win[v] = s.win[v]
           /\ ~s.win[v].open => Open(s, v).win[v].q = NoQuestion
<1>1. [Shut EXCEPT !.open = TRUE] \in [open : BOOLEAN, q : Asked, starting : BOOLEAN]
  BY DEF Shut, Asked
<1>2. [Shut EXCEPT !.open = TRUE].q = NoQuestion
  BY DEF Shut
<1>3. v \in Window /\ "main" \in Window
  BY DEF Window
<1> QED
  BY <1>1, <1>2, <1>3 DEF Open, AppState

\* A window is opened only when it is not there, so no question loses it.
LEMMA OpenKeeps ==
    ASSUME NEW s, NEW w, NEW r, NEW q, NEW v \in Op,
           FlowBase(s, w, r), HeldUnless(s, q)
    PROVE  FlowBase(Open(s, v), w, r) /\ HeldUnless(Open(s, v), q)
<1>1. s \in AppState
  BY DEF FlowBase
<1> DEFINE t == Open(s, v)
<1>2. /\ t \in AppState /\ t.run = s.run /\ t.stage = s.stage
      /\ t.posted = s.posted /\ t.frames = s.frames
      /\ \A x \in Op : x # v => t.win[x] = s.win[x]
      /\ s.win[v].open => t.win[v] = s.win[v]
      /\ ~s.win[v].open => t.win[v].q = NoQuestion
  BY <1>1, OpenFields
<1> HIDE DEF t
<1>4. Alike(s, t)
  BY <1>2 DEF Alike
<1>5. \A x \in Op : s.win[x].open /\ s.win[x].q \notin {NoQuestion, q} =>
                       t.win[x].open /\ t.win[x].q = s.win[x].q
  BY <1>2
<1> QED
  BY <1>2, <1>4, <1>5, AlikeBase, AlikeHeld DEF t

\* It keeps the facts of the stage.
LEMMA OpenStage ==
    ASSUME NEW s \in AppState, NEW w, NEW v \in Op, StageInv(s, w)
    PROVE  StageInv(Open(s, v), w)
  BY OpenFields, SameStage

-----------------------------------------------------------------------------
(* The bridge.                                                             *)

\* An answer changes the bridge and may announce the next question.
LEMMA AnsweredFields ==
    ASSUME NEW s \in AppState, NEW q, NEW v \in {"ok", "other", "cancel"}
    PROVE  /\ Answered(s, q, v) \in AppState
           /\ Answered(s, q, v).stage = s.stage /\ Answered(s, q, v).win = s.win
           /\ Answered(s, q, v).frames = s.frames /\ Answered(s, q, v).up = s.up
           /\ Answered(s, q, v).op = s.op
           /\ s.run = NoRun \/ s.run.asked # q => Answered(s, q, v) = s
           /\ s.run # NoRun /\ s.run.asked = q =>
                /\ Answered(s, q, v).run \in Bridge
                /\ Answered(s, q, v).run.n = s.run.n
                /\ Answered(s, q, v).run.closed = s.run.closed
                /\ Answered(s, q, v).run.queue = s.run.queue
                /\ Answered(s, q, v).run.asked = q
                /\ s.run.current = q => Answered(s, q, v).run.current = NoQuestion
                /\ s.run.current # q => Answered(s, q, v).run.current = s.run.current
                /\ s.run.reply = NoReply => Answered(s, q, v).run.reply = v
                /\ s.run.reply # NoReply => Answered(s, q, v).run.reply = s.run.reply
                /\ s.run.queue = <<>> => Answered(s, q, v).posted = s.posted
<1>1. CASE s.run = NoRun \/ s.run.asked # q
  BY <1>1 DEF Answered
<1>2. CASE ~(s.run = NoRun \/ s.run.asked # q)
  <2>1. s.run \in Bridge
    BY <1>2, AppFields
  <2> DEFINE b == [s.run EXCEPT !.current = IF s.run.current = q THEN NoQuestion
                                                                 ELSE s.run.current,
                                !.reply = IF s.run.reply = NoReply THEN v ELSE s.run.reply]
             m == IF s.run.queue = <<>> THEN s.posted ELSE Append(s.posted, "question")
  <2>2. b \in Bridge
    BY <2>1 DEF Bridge, Asked
  <2>3. /\ b.n = s.run.n /\ b.closed = s.run.closed /\ b.queue = s.run.queue
        /\ b.asked = q
        /\ s.run.current = q => b.current = NoQuestion
        /\ s.run.current # q => b.current = s.run.current
        /\ s.run.reply = NoReply => b.reply = v
        /\ s.run.reply # NoReply => b.reply = s.run.reply
    BY <1>2, <2>1 DEF Bridge
  <2>7. m \in Seq({"question", "done"}) /\ (s.run.queue = <<>> => m = s.posted)
    BY AppFields
  <2>4. Answered(s, q, v) = [s EXCEPT !.run = b, !.posted = m]
    BY <1>2, <2>1 DEF Answered, Bridge, AppState
  <2> HIDE DEF b, m
  <2>5. [s EXCEPT !.run = b, !.posted = m] \in AppState
    BY <2>2, <2>7 DEF AppState
  <2>6. /\ [s EXCEPT !.run = b, !.posted = m].stage = s.stage
        /\ [s EXCEPT !.run = b, !.posted = m].win = s.win
        /\ [s EXCEPT !.run = b, !.posted = m].frames = s.frames
        /\ [s EXCEPT !.run = b, !.posted = m].up = s.up
        /\ [s EXCEPT !.run = b, !.posted = m].op = s.op
        /\ [s EXCEPT !.run = b, !.posted = m].run = b
        /\ [s EXCEPT !.run = b, !.posted = m].posted = m
    BY DEF AppState
  <2> QED
    BY <1>2, <2>2, <2>3, <2>4, <2>5, <2>6, <2>7, Zenon
<1> QED
  BY <1>1, <1>2

\* The answer of a question that was shown keeps the base, and nothing that is
\* shown is without its holder then.
LEMMA AnsweredKeeps ==
    ASSUME NEW s, NEW w, NEW r, NEW q \in Question, NEW v \in {"ok", "other", "cancel"},
           FlowBase(s, w, r), HeldUnless(s, q), WasShown(s, w, r, q)
    PROVE  FlowBase(Answered(s, q, v), w, r) /\ HeldUnless(Answered(s, q, v), NoQuestion)
<1>1. s \in AppState /\ w \in WorkerState /\ r \in 0 .. MaxRuns /\ q # NoQuestion
  BY ZeroValues DEF FlowBase
<1>2. CASE s.run = NoRun \/ s.run.asked # q
  <2>1. Answered(s, q, v) = s
    BY <1>1, <1>2, AnsweredFields
  <2>2. s.run # NoRun => s.run.current \in {NoQuestion, s.run.asked}
    BY DEF FlowBase, OneQuestion
  <2>3. HeldUnless(s, NoQuestion)
    BY <1>2, <2>2 DEF HeldUnless
  <2> QED
    BY <2>1, <2>3
<1>3. CASE s.run # NoRun /\ s.run.asked = q
  <2> DEFINE t == Answered(s, q, v)
  <2>1. s.run \in Bridge
    BY <1>1, <1>3, AppFields
  <2>2. s.run.queue = <<>>
    BY <1>1, <1>3 DEF WasShown
  <2>3. /\ t \in AppState /\ t.stage = s.stage /\ t.win = s.win
        /\ t.frames = s.frames /\ t.posted = s.posted
    BY <1>1, <1>3, <2>2, AnsweredFields
  <2>4. /\ t.run.n = s.run.n /\ t.run.closed = s.run.closed /\ t.run.queue = s.run.queue
        /\ t.run.asked = q /\ t.run \in Bridge
        /\ s.run.current = q => t.run.current = NoQuestion
        /\ s.run.current # q => t.run.current = s.run.current
        /\ s.run.reply = NoReply => t.run.reply = v
        /\ s.run.reply # NoReply => t.run.reply = s.run.reply
    BY <1>1, <1>3, AnsweredFields
  <2> HIDE DEF t
  <2>5. t.run # NoRun
    BY <2>4, ZeroValues
  <2>6. t.run.current = NoQuestion /\ t.run.reply # NoReply
    BY <1>1, <1>3, <2>2, <2>4 DEF FlowBase, OneQuestion, NoReply
  <2>7. RunOfWorker(t, w, r)
    BY <1>3, <2>3, <2>4, <2>5 DEF FlowBase, RunOfWorker
  <2>8. OneQuestion(t, w, r)
    BY <1>1, <1>3, <2>2, <2>4, <2>5, <2>6 DEF FlowBase, OneQuestion
  <2>9. \A x : WasShown(s, w, r, x) => WasShown(t, w, r, x)
    BY <1>3, <2>2, <2>4 DEF WasShown
  <2>10. Holders(t, w, r)
    BY <2>3, <2>9 DEF FlowBase, Holders
  <2>11. Messages(t, w)
    BY <2>2, <2>3, <2>4 DEF FlowBase, Messages
  <2>12. HeldUnless(t, NoQuestion)
    BY <2>6 DEF HeldUnless
  <2> QED
    BY <1>1, <2>3, <2>7, <2>8, <2>10, <2>11, <2>12 DEF FlowBase, t
<1> QED
  BY <1>2, <1>3

\* It keeps the facts of the stage when the question has no dialog about a
\* refused YubiKey any more, and when a start that is confirmed is recorded.
LEMMA AnsweredStage ==
    ASSUME NEW s, NEW w, NEW r, NEW q \in Question, NEW v \in {"ok", "other", "cancel"},
           FlowBase(s, w, r), StageInv(s, w),
           \A i \in 1 .. Len(s.frames) : s.frames[i].kind = "refused" => s.frames[i].q # q,
           Live(s, q) /\ q.kind = "start" /\ v = "ok" => s.stage \in {"running", "cancelling"}
    PROVE  StageInv(Answered(s, q, v), w)
<1>1. s \in AppState
  BY DEF FlowBase
<1>2. CASE s.run = NoRun \/ s.run.asked # q
  BY <1>1, <1>2, AnsweredFields
<1>3. CASE s.run # NoRun /\ s.run.asked = q
  <2> DEFINE t == Answered(s, q, v)
  <2>1. s.run \in Bridge
    BY <1>1, <1>3, AppFields
  <2>2. /\ t.stage = s.stage /\ t.frames = s.frames /\ t.run.asked = q
        /\ s.run.reply = NoReply => t.run.reply = v
        /\ s.run.reply # NoReply => t.run.reply = s.run.reply
    BY <1>1, <1>3, AnsweredFields
  <2> HIDE DEF t
  <2>4. StageOfPhase(t, w)
    BY <1>3, <2>2 DEF StageInv, StageOfPhase, Live, NoReply
  <2>5. DialogsOfRun(t)
    BY <1>3, <2>2 DEF StageInv, DialogsOfRun, Live
  <2>6. OneDialog(t)
    BY <2>2 DEF StageInv, OneDialog
  <2> QED
    BY <2>4, <2>5, <2>6 DEF StageInv, t
<1> QED
  BY <1>2, <1>3

\* Bridge.Close leaves no question queued or shown, and none without an answer.
LEMMA CloseBridgeKeeps ==
    ASSUME NEW s, NEW w, NEW r, FlowBase(s, w, r), s.run # NoRun
    PROVE  LET t == CloseBridge(s) IN
           /\ FlowBase(t, w, r)
           /\ t.run # NoRun /\ t.run.current = NoQuestion /\ t.run.asked = s.run.asked
           /\ t.run.asked # NoQuestion => t.run.reply # NoReply
           /\ s.run.reply # NoReply => t.run.reply = s.run.reply
           /\ s.run.reply = NoReply => t.run.reply \in {NoReply, "cancel"}
           /\ t.stage = s.stage /\ t.win = s.win /\ t.frames = s.frames /\ t.up = s.up
<1> DEFINE t == CloseBridge(s)
           pending == s.run.asked # NoQuestion
                      /\ (s.run.current = s.run.asked
                          \/ \E i \in 1 .. Len(s.run.queue) : s.run.queue[i] = s.run.asked)
           b == [s.run EXCEPT !.closed = TRUE, !.queue = <<>>, !.current = NoQuestion,
                              !.reply = IF pending /\ s.run.reply = NoReply
                                        THEN "cancel" ELSE s.run.reply]
<1>1. s \in AppState /\ w \in WorkerState /\ r \in 0 .. MaxRuns
  BY DEF FlowBase
<1>2. s.run \in Bridge
  BY <1>1, AppFields
<1>3. b \in Bridge
  <2>1. <<>> \in Seq(Question) /\ NoQuestion \in Asked
    BY DEF Asked
  <2> HIDE DEF pending
  <2> QED
    BY <1>2, <2>1 DEF Bridge
<1>4. t = [s EXCEPT !.run = b]
  BY <1>1, <1>2 DEF CloseBridge, AppState, Bridge
<1>5. /\ b.n = s.run.n /\ b.closed = TRUE /\ b.queue = <<>> /\ b.current = NoQuestion
      /\ b.asked = s.run.asked
      /\ b.reply = IF pending /\ s.run.reply = NoReply THEN "cancel" ELSE s.run.reply
  BY <1>2 DEF Bridge
<1>6. b.asked # NoQuestion => b.reply # NoReply
  <2>1. s.run.queue = <<s.run.asked>> =>
          \E i \in 1 .. Len(s.run.queue) : s.run.queue[i] = s.run.asked
    OBVIOUS
  <2> HIDE DEF b
  <2> QED
    BY <1>5, <2>1 DEF FlowBase, OneQuestion, NoReply
<1>7. b.asked = NoQuestion => b.reply = NoReply
  BY <1>5 DEF FlowBase, OneQuestion
<1> HIDE DEF b, pending
<1>8. /\ t \in AppState /\ t.run = b /\ t.stage = s.stage /\ t.win = s.win
      /\ t.frames = s.frames /\ t.up = s.up /\ t.posted = s.posted
  BY <1>1, <1>3, <1>4 DEF AppState
<1>9. b # NoRun
  BY <1>3, ZeroValues
<1> HIDE DEF t
<1>10. RunOfWorker(t, w, r)
  BY <1>5, <1>8, <1>9 DEF FlowBase, RunOfWorker
<1>11. OneQuestion(t, w, r)
  BY <1>5, <1>6, <1>7, <1>8, <1>9 DEF FlowBase, OneQuestion
<1>12. \A x : WasShown(s, w, r, x) => WasShown(t, w, r, x)
  BY <1>5, <1>8, <1>9 DEF WasShown
<1>13. Holders(t, w, r)
  BY <1>8, <1>12 DEF FlowBase, Holders
<1>14. Messages(t, w)
  BY <1>5, <1>8 DEF FlowBase, Messages
<1>15. FlowBase(t, w, r)
  BY <1>1, <1>8, <1>10, <1>11, <1>13, <1>14 DEF FlowBase
<1> QED
  BY <1>5, <1>6, <1>8, <1>9, <1>15 DEF t

-----------------------------------------------------------------------------
(* The loops.                                                              *)

\* closeModal closes the open credential dialogs; their handlers still return.
LEMMA CloseModalFields ==
    ASSUME NEW s \in AppState
    PROVE  LET t == CloseModal(s) IN
           /\ t \in AppState
           /\ t.run = s.run /\ t.stage = s.stage /\ t.posted = s.posted
           /\ t.win = s.win /\ t.up = s.up
           /\ Len(t.frames) = Len(s.frames)
           /\ \A i \in 1 .. Len(s.frames) :
                 /\ t.frames[i].kind = s.frames[i].kind
                 /\ t.frames[i].q = s.frames[i].q
                 /\ s.frames[i].kind \in Credential => t.frames[i].result # "open"
                 /\ t.frames[i].result \in {s.frames[i].result, "no"}
<1> DEFINE fs == [i \in 1 .. Len(s.frames) |->
                     IF s.frames[i].kind \in {"cred", "refused"} /\ s.frames[i].result = "open"
                     THEN [s.frames[i] EXCEPT !.result = "no"] ELSE s.frames[i]]
<1>1. s.frames \in Seq(Frame)
  BY AppFields
<1>2. \A i \in 1 .. Len(s.frames) :
         /\ fs[i] \in Frame /\ fs[i].kind = s.frames[i].kind /\ fs[i].q = s.frames[i].q
         /\ s.frames[i].kind \in Credential => fs[i].result # "open"
         /\ fs[i].result \in {s.frames[i].result, "no"}
  <2>1. \A f \in Frame :
           /\ [f EXCEPT !.result = "no"] \in Frame
           /\ [f EXCEPT !.result = "no"].kind = f.kind
           /\ [f EXCEPT !.result = "no"].q = f.q
           /\ [f EXCEPT !.result = "no"].result = "no"
    BY DEF Frame
  <2>2. \A i \in 1 .. Len(s.frames) : s.frames[i] \in Frame
    BY <1>1
  <2> QED
    BY <2>1, <2>2 DEF Credential
<1>3. fs \in Seq(Frame) /\ Len(fs) = Len(s.frames)
  <2>1. Len(s.frames) \in Nat
    BY <1>1
  <2> HIDE DEF fs
  <2>2. DOMAIN fs = 1 .. Len(s.frames) /\ fs \in [1 .. Len(s.frames) -> Frame]
    BY <1>2 DEF fs
  <2> QED
    BY <2>1, <2>2
<1>4. CloseModal(s) = [s EXCEPT !.frames = fs]
  BY DEF CloseModal
<1> HIDE DEF fs
<1>5. LET t == [s EXCEPT !.frames = fs] IN
      /\ t \in AppState
      /\ t.run = s.run /\ t.stage = s.stage /\ t.posted = s.posted
      /\ t.win = s.win /\ t.up = s.up /\ t.frames = fs
  BY <1>3 DEF AppState
<1> QED
  BY <1>2, <1>3, <1>4, <1>5

\* cancelRun keeps every invariant: it answers the question before it closes
\* the dialog and the windows that may hold it.
LEMMA CancelRunKeeps ==
    ASSUME NEW s, NEW w, NEW r, FlowBase(s, w, r), HeldUnless(s, NoQuestion)
    PROVE  /\ FlowBase(CancelRun(s), w, r) /\ HeldUnless(CancelRun(s), NoQuestion)
           /\ StageInv(s, w) => StageInv(CancelRun(s), w)
<1>1. CASE s.run = NoRun \/ s.stage = "cancelling"
  BY <1>1 DEF CancelRun
<1>2. CASE ~(s.run = NoRun \/ s.stage = "cancelling")
  <2> DEFINE a == Cancelling(s)
             b == CloseBridge(a)
             c == CloseModal(b)
             d == Close(c, "backup")
             e == Close(d, "verify")
  <2>0. s \in AppState
    BY DEF FlowBase
  <2>1. FlowBase(a, w, r) /\ a.run = s.run /\ a.frames = s.frames
    BY <2>0, MachineKeeps, MachineFields
  <2>2. a.stage = "cancelling"
    <3>1. s.stage \in {"planning", "running"}
      BY <1>2, <2>0, AppFields DEF FlowBase, RunOfWorker
    <3> QED
      BY <2>0, <3>1, MachineStages
  <2>3. /\ FlowBase(b, w, r) /\ b.run # NoRun /\ b.run.current = NoQuestion
        /\ b.run.asked = s.run.asked
        /\ s.run.reply # NoReply => b.run.reply = s.run.reply
        /\ s.run.reply = NoReply => b.run.reply \in {NoReply, "cancel"}
        /\ b.stage = "cancelling" /\ b.frames = s.frames
    <3>1. a.run # NoRun
      BY <1>2, <2>1
    <3> HIDE DEF a
    <3> QED
      BY <2>1, <2>2, <3>1, CloseBridgeKeeps
  <2> HIDE DEF a, b
  <2>4. b \in AppState
    BY <2>3 DEF FlowBase
  <2>5. /\ c \in AppState /\ c.run = b.run /\ c.stage = b.stage /\ c.posted = b.posted
        /\ c.win = b.win /\ Len(c.frames) = Len(b.frames)
        /\ \A i \in 1 .. Len(b.frames) :
              /\ c.frames[i].kind = b.frames[i].kind
              /\ c.frames[i].q = b.frames[i].q
              /\ b.frames[i].kind \in Credential => c.frames[i].result # "open"
              /\ c.frames[i].result \in {b.frames[i].result, "no"}
    BY <2>4, CloseModalFields
  <2> HIDE DEF c
  <2>6. FlowBase(c, w, r)
    <3>1. Alike(b, c)
      BY <2>5 DEF Alike
    <3> QED
      BY <2>3, <2>5, <3>1, AlikeBase
  <2>7. \A q : HeldUnless(c, q)
    BY <2>3, <2>5 DEF HeldUnless
  <2>8. FlowBase(d, w, r) /\ d \in AppState /\ d.run = c.run /\ d.frames = c.frames
        /\ d.stage = c.stage
    <3>1. FlowBase(d, w, r)
      BY <2>6, <2>7, CloseKeeps DEF Op
    <3>2. "backup" \in Op
      BY DEF Op
    <3> QED
      BY <2>5, <3>1, <3>2, CloseFields
  <2> HIDE DEF d
  <2>9. \A q : HeldUnless(d, q)
    BY <2>3, <2>5, <2>8 DEF HeldUnless
  <2>10. FlowBase(e, w, r) /\ e.run = d.run /\ e.frames = d.frames /\ e.stage = d.stage
    <3>1. FlowBase(e, w, r)
      BY <2>8, <2>9, CloseKeeps DEF Op
    <3>2. "verify" \in Op
      BY DEF Op
    <3> QED
      BY <2>8, <3>1, <3>2, CloseFields
  <2>11. CancelRun(s) = e
    BY <1>2 DEF CancelRun, a, b, c, d
  <2> HIDE DEF e
  <2>12. HeldUnless(e, NoQuestion)
    BY <2>3, <2>5, <2>8, <2>10 DEF HeldUnless
  <2>13. ASSUME StageInv(s, w) PROVE StageInv(e, w)
    <3>1. /\ e.run = b.run /\ e.stage = "cancelling" /\ Len(e.frames) = Len(s.frames)
          /\ \A i \in 1 .. Len(s.frames) :
                /\ e.frames[i].kind = s.frames[i].kind
                /\ e.frames[i].q = s.frames[i].q
                /\ s.frames[i].kind \in Credential => e.frames[i].result # "open"
                /\ e.frames[i].result \in {s.frames[i].result, "no"}
      BY <2>3, <2>5, <2>8, <2>10
    <3>2. StageOfPhase(e, w)
      BY <1>2, <2>3, <2>13, <3>1 DEF StageInv, StageOfPhase
    <3>3. DialogsOfRun(e)
      BY <2>13, <3>1 DEF StageInv, DialogsOfRun, Credential
    <3>4. OneDialog(e)
      BY <2>13, <3>1 DEF StageInv, OneDialog
    <3> QED
      BY <3>2, <3>3, <3>4 DEF StageInv
  <2> QED
    BY <2>10, <2>11, <2>12, <2>13
<1> QED
  BY <1>1, <1>2

\* A loop is started on top of the others.
LEMMA PushFields ==
    ASSUME NEW s \in AppState, NEW q \in Asked, NEW o \in Window,
           NEW kind \in Credential \cup {"newkeys", "cancel", "close"}
    PROVE  LET t == Push(s, kind, q, o) IN
           /\ t \in AppState
           /\ t.run = s.run /\ t.stage = s.stage /\ t.posted = s.posted
           /\ t.win = s.win /\ t.up = s.up
           /\ Len(t.frames) = Len(s.frames) + 1
           /\ \A i \in 1 .. Len(s.frames) : t.frames[i] = s.frames[i]
           /\ t.frames[Len(s.frames) + 1].kind = kind
           /\ t.frames[Len(s.frames) + 1].q = q
           /\ t.frames[Len(s.frames) + 1].result = "open"
<1> DEFINE f == [kind |-> kind, q |-> q, result |-> "open", owner |-> o,
                 was |-> o \notin s.disabled]
           fs == Append(s.frames, f)
<1>1. f \in Frame
  BY DEF Frame
<1>2. f.kind = kind /\ f.q = q /\ f.result = "open"
  OBVIOUS
<1> HIDE DEF f
<1>3. s.frames \in Seq(Frame)
  BY AppFields
<1>4. /\ fs \in Seq(Frame) /\ Len(fs) = Len(s.frames) + 1
      /\ \A i \in 1 .. Len(s.frames) : fs[i] = s.frames[i]
      /\ fs[Len(s.frames) + 1] = f
  BY <1>1, <1>3
<1>5. Push(s, kind, q, o) = [s EXCEPT !.frames = fs, !.disabled = @ \cup {o}]
  BY DEF Push, f
<1> HIDE DEF fs
<1>6. LET t == [s EXCEPT !.frames = fs, !.disabled = @ \cup {o}] IN
      /\ t \in AppState
      /\ t.run = s.run /\ t.stage = s.stage /\ t.posted = s.posted
      /\ t.win = s.win /\ t.up = s.up /\ t.frames = fs
  BY <1>4 DEF AppState
<1> QED
  BY <1>2, <1>4, <1>5, <1>6

\* It may hold a question that was shown; a credential dialog holds its own.
LEMMA PushKeeps ==
    ASSUME NEW s, NEW w, NEW r, NEW q \in Asked, NEW o \in Window,
           NEW kind \in Credential \cup {"newkeys", "cancel", "close"},
           FlowBase(s, w, r), WasShown(s, w, r, q),
           kind \in Credential => q # NoQuestion /\ q.kind = kind,
           kind = "newkeys" => q # NoQuestion /\ q.kind = "start",
           HeldUnless(s, IF kind \in Credential THEN q ELSE NoQuestion)
    PROVE  FlowBase(Push(s, kind, q, o), w, r) /\ HeldUnless(Push(s, kind, q, o), NoQuestion)
<1> DEFINE t == Push(s, kind, q, o)
<1>1. s \in AppState /\ w \in WorkerState /\ r \in 0 .. MaxRuns
  BY DEF FlowBase
<1>2. /\ t \in AppState
      /\ t.run = s.run /\ t.stage = s.stage /\ t.posted = s.posted
      /\ t.win = s.win /\ t.up = s.up
      /\ Len(t.frames) = Len(s.frames) + 1
      /\ \A i \in 1 .. Len(s.frames) : t.frames[i] = s.frames[i]
      /\ t.frames[Len(s.frames) + 1].kind = kind
      /\ t.frames[Len(s.frames) + 1].q = q
      /\ t.frames[Len(s.frames) + 1].result = "open"
  BY <1>1, PushFields
<1> HIDE DEF t
<1>3. Len(s.frames) \in Nat
  BY <1>1, AppFields
<1>4. RunOfWorker(t, w, r) /\ OneQuestion(t, w, r) /\ Messages(t, w)
  BY <1>2 DEF FlowBase, RunOfWorker, OneQuestion, Messages
<1>5. \A x : WasShown(s, w, r, x) => WasShown(t, w, r, x)
  BY <1>2 DEF WasShown
<1>6. \A i \in 1 .. Len(t.frames) : i \in 1 .. Len(s.frames) \/ i = Len(s.frames) + 1
  BY <1>2, <1>3
<1>7. Holders(t, w, r)
  <2>1. Holders(s, w, r)
    BY DEF FlowBase
  <2>2. /\ t.win["restore"].q = NoQuestion
        /\ \A v \in Op : /\ WasShown(t, w, r, t.win[v].q)
                         /\ t.win[v].q # NoQuestion => t.win[v].q.kind = "start"
    BY <1>2, <1>5, <2>1 DEF Holders
  <2>3. ASSUME NEW i \in 1 .. Len(t.frames)
        PROVE  /\ WasShown(t, w, r, t.frames[i].q)
               /\ t.frames[i].kind \in Credential =>
                     t.frames[i].q # NoQuestion /\ t.frames[i].q.kind = t.frames[i].kind
               /\ t.frames[i].kind = "newkeys" =>
                     t.frames[i].q # NoQuestion /\ t.frames[i].q.kind = "start"
    <3>1. CASE i \in 1 .. Len(s.frames)
      BY <1>2, <1>5, <2>1, <3>1 DEF Holders
    <3>2. CASE i = Len(s.frames) + 1
      BY <1>2, <1>5, <3>2
    <3> QED
      BY <1>6, <3>1, <3>2
  <2> QED
    BY <2>2, <2>3 DEF Holders
<1>8. HeldUnless(t, NoQuestion)
  <2>1. Len(s.frames) + 1 \in 1 .. Len(t.frames) /\ 1 .. Len(s.frames) \subseteq 1 .. Len(t.frames)
    BY <1>2, <1>3
  <2>2. \A x : Held(s, x) => Held(t, x)
    BY <1>2, <2>1 DEF Held
  <2>3. kind \in Credential => Held(t, q)
    BY <1>2, <2>1 DEF Held
  <2> QED
    BY <1>2, <2>2, <2>3 DEF HeldUnless
<1> QED
  BY <1>1, <1>2, <1>4, <1>7, <1>8 DEF FlowBase, t

\* It keeps the facts of the stage; a dialog about a refused YubiKey is opened
\* for the question that waits, which has no dialog yet.
LEMMA PushStage ==
    ASSUME NEW s \in AppState, NEW w, NEW q \in Asked, NEW o \in Window,
           NEW kind \in Credential \cup {"newkeys", "cancel", "close"},
           StageInv(s, w),
           kind = "refused" =>
              /\ Live(s, q)
              /\ \A i \in 1 .. Len(s.frames) : s.frames[i].kind = "refused" => s.frames[i].q # q
    PROVE  StageInv(Push(s, kind, q, o), w)
<1> DEFINE t == Push(s, kind, q, o)
<1>2. /\ t.run = s.run /\ t.stage = s.stage
      /\ Len(t.frames) = Len(s.frames) + 1
      /\ \A i \in 1 .. Len(s.frames) : t.frames[i] = s.frames[i]
      /\ t.frames[Len(s.frames) + 1].kind = kind
      /\ t.frames[Len(s.frames) + 1].q = q
      /\ t.frames[Len(s.frames) + 1].result = "open"
  BY PushFields
<1> HIDE DEF t
<1>3. Len(s.frames) \in Nat
  BY AppFields
<1>6. \A i \in 1 .. Len(t.frames) : i \in 1 .. Len(s.frames) \/ i = Len(s.frames) + 1
  BY <1>2, <1>3
<1>7. StageOfPhase(t, w)
  BY <1>2 DEF StageInv, StageOfPhase
<1>8. DialogsOfRun(t)
  BY <1>2, <1>3, <1>6 DEF StageInv, DialogsOfRun, Live
<1>9. OneDialog(t)
  <2> SUFFICES ASSUME NEW i \in 1 .. Len(t.frames), NEW j \in 1 .. Len(t.frames), i # j,
                      t.frames[i].kind = "refused", t.frames[j].kind = "refused"
               PROVE  t.frames[i].q # t.frames[j].q
    BY DEF OneDialog
  <2>1. \A k, l \in 1 .. Len(s.frames) :
           k # l /\ s.frames[k].kind = "refused" /\ s.frames[l].kind = "refused" =>
              s.frames[k].q # s.frames[l].q
    BY DEF StageInv, OneDialog
  <2>2. CASE i \in 1 .. Len(s.frames) /\ j \in 1 .. Len(s.frames)
    BY <1>2, <2>1, <2>2
  <2>3. CASE i \in 1 .. Len(s.frames) /\ j = Len(s.frames) + 1
    BY <1>2, <2>3
  <2>4. CASE i = Len(s.frames) + 1 /\ j \in 1 .. Len(s.frames)
    BY <1>2, <2>4
  <2> QED
    BY <1>6, <2>2, <2>3, <2>4
<1> QED
  BY <1>7, <1>8, <1>9 DEF StageInv, t

\* The loop on top ends.
LEMMA PopFields ==
    ASSUME NEW s \in AppState, s.frames # <<>>
    PROVE  LET t == Pop(s) IN
           /\ t \in AppState
           /\ t.run = s.run /\ t.stage = s.stage /\ t.posted = s.posted
           /\ t.win = s.win /\ t.up = s.up
           /\ Len(t.frames) = Len(s.frames) - 1
           /\ \A i \in 1 .. Len(s.frames) - 1 : t.frames[i] = s.frames[i]
           /\ Len(s.frames) \in Nat \ {0} /\ s.frames[Len(s.frames)] \in Frame
<1> DEFINE f == s.frames[Len(s.frames)]
           enable == f.kind \in {"cred", "refused"} \/ f.was
           fs == SubSeq(s.frames, 1, Len(s.frames) - 1)
           ds == IF enable THEN s.disabled \ {f.owner} ELSE s.disabled
<1>1. s.frames \in Seq(Frame)
  BY AppFields
<1>2. Len(s.frames) \in Nat \ {0} /\ f \in Frame
  BY <1>1
<1>3. /\ fs \in Seq(Frame) /\ Len(fs) = Len(s.frames) - 1
      /\ \A i \in 1 .. Len(s.frames) - 1 : fs[i] = s.frames[i]
  BY <1>1, <1>2
<1>4. ds \in SUBSET Window
  BY AppFields
<1>5. Pop(s) = [s EXCEPT !.frames = fs, !.disabled = ds]
  BY DEF Pop
<1> HIDE DEF f, fs, ds
<1>6. LET t == [s EXCEPT !.frames = fs, !.disabled = ds] IN
      /\ t \in AppState
      /\ t.run = s.run /\ t.stage = s.stage /\ t.posted = s.posted
      /\ t.win = s.win /\ t.up = s.up /\ t.frames = fs
  BY <1>3, <1>4 DEF AppState
<1> QED
  BY <1>2, <1>3, <1>5, <1>6 DEF f

\* What was shown is held still, unless the loop of a credential dialog held it.
LEMMA PopKeeps ==
    ASSUME NEW s, NEW w, NEW r, FlowBase(s, w, r), HeldUnless(s, NoQuestion),
           s.frames # <<>>
    PROVE  LET f == s.frames[Len(s.frames)] IN
           /\ FlowBase(Pop(s), w, r)
           /\ HeldUnless(Pop(s), IF f.kind \in Credential THEN f.q ELSE NoQuestion)
<1> DEFINE t == Pop(s)
           f == s.frames[Len(s.frames)]
<1>1. s \in AppState /\ w \in WorkerState /\ r \in 0 .. MaxRuns
  BY DEF FlowBase
<1>2. /\ t \in AppState
      /\ t.run = s.run /\ t.stage = s.stage /\ t.posted = s.posted
      /\ t.win = s.win /\ t.up = s.up
      /\ Len(t.frames) = Len(s.frames) - 1
      /\ \A i \in 1 .. Len(s.frames) - 1 : t.frames[i] = s.frames[i]
      /\ Len(s.frames) \in Nat \ {0}
  BY <1>1, PopFields
<1> HIDE DEF t
<1>4. RunOfWorker(t, w, r) /\ OneQuestion(t, w, r) /\ Messages(t, w)
  BY <1>2 DEF FlowBase, RunOfWorker, OneQuestion, Messages
<1>5. \A x : WasShown(s, w, r, x) => WasShown(t, w, r, x)
  BY <1>2 DEF WasShown
<1>6. \A i \in 1 .. Len(t.frames) : i \in 1 .. Len(s.frames) /\ t.frames[i] = s.frames[i]
  BY <1>2
<1>7. Holders(t, w, r)
  BY <1>2, <1>5, <1>6 DEF FlowBase, Holders
<1>8. HeldUnless(t, IF f.kind \in Credential THEN f.q ELSE NoQuestion)
  <2>1. \A i \in 1 .. Len(s.frames) : i \in 1 .. Len(t.frames) \/ i = Len(s.frames)
    BY <1>2
  <2>2. \A x : Held(s, x) => Held(t, x) \/ (f.kind \in Credential /\ f.q = x)
    BY <1>2, <1>6, <2>1 DEF Held
  <2> QED
    BY <1>2, <2>2 DEF HeldUnless
<1> QED
  BY <1>1, <1>2, <1>4, <1>7, <1>8 DEF FlowBase, t

\* It keeps the facts of the stage, and no dialog about a refused YubiKey is
\* left for the question of the one that ended.
LEMMA PopStage ==
    ASSUME NEW s \in AppState, NEW w, StageInv(s, w), s.frames # <<>>
    PROVE  LET f == s.frames[Len(s.frames)] IN
           /\ StageInv(Pop(s), w)
           /\ f.kind = "refused" =>
                \A i \in 1 .. Len(Pop(s).frames) :
                   Pop(s).frames[i].kind = "refused" => Pop(s).frames[i].q # f.q
<1> DEFINE t == Pop(s)
<1>2. /\ t.run = s.run /\ t.stage = s.stage
      /\ Len(t.frames) = Len(s.frames) - 1
      /\ \A i \in 1 .. Len(s.frames) - 1 : t.frames[i] = s.frames[i]
      /\ Len(s.frames) \in Nat \ {0}
  BY PopFields
<1> HIDE DEF t
<1>6. \A i \in 1 .. Len(t.frames) :
         i \in 1 .. Len(s.frames) /\ t.frames[i] = s.frames[i] /\ i # Len(s.frames)
  BY <1>2
<1>7. StageOfPhase(t, w)
  BY <1>2 DEF StageInv, StageOfPhase
<1>8. DialogsOfRun(t)
  BY <1>2, <1>6 DEF StageInv, DialogsOfRun, Live
<1>9. s.frames[Len(s.frames)].kind = "refused" =>
         \A i \in 1 .. Len(t.frames) :
            t.frames[i].kind = "refused" => t.frames[i].q # s.frames[Len(s.frames)].q
  <2>1. Len(s.frames) \in 1 .. Len(s.frames)
    BY <1>2
  <2> SUFFICES ASSUME s.frames[Len(s.frames)].kind = "refused",
                      NEW i \in 1 .. Len(t.frames), t.frames[i].kind = "refused"
               PROVE  t.frames[i].q # s.frames[Len(s.frames)].q
    OBVIOUS
  <2>2. i \in 1 .. Len(s.frames) /\ t.frames[i] = s.frames[i] /\ i # Len(s.frames)
    BY <1>6
  <2> QED
    BY <2>1, <2>2 DEF StageInv, OneDialog
<1>10. OneDialog(t)
  <2> SUFFICES ASSUME NEW i \in 1 .. Len(t.frames), NEW j \in 1 .. Len(t.frames), i # j,
                      t.frames[i].kind = "refused", t.frames[j].kind = "refused"
               PROVE  t.frames[i].q # t.frames[j].q
    BY DEF OneDialog
  <2>1. /\ i \in 1 .. Len(s.frames) /\ t.frames[i] = s.frames[i]
        /\ j \in 1 .. Len(s.frames) /\ t.frames[j] = s.frames[j]
    BY <1>6
  <2> QED
    BY <2>1 DEF StageInv, OneDialog
<1> QED
  BY <1>7, <1>8, <1>9, <1>10 DEF StageInv, t

-----------------------------------------------------------------------------
(* The handlers.                                                           *)

\* What a handler that turns s into t keeps.
Keeps(s, t, w, r) ==
    /\ FlowBase(t, w, r) /\ HeldUnless(t, NoQuestion)
    /\ StageInv(s, w) => StageInv(t, w)

\* Whether a question was shown depends on the run alone.
LEMMA SameShown ==
    ASSUME NEW s, NEW t, NEW w, NEW r, NEW q, t.run = s.run, WasShown(s, w, r, q)
    PROVE  WasShown(t, w, r, q)
  BY DEF WasShown

\* Recording the start keeps the facts of the stage.
LEMMA ConfirmedStage ==
    ASSUME NEW s \in AppState, NEW w, StageInv(s, w)
    PROVE  StageInv(Confirmed(s), w)
<1> DEFINE t == Confirmed(s)
<1>1. /\ t.run = s.run /\ t.frames = s.frames
      /\ t.stage = IF s.stage = "planning" THEN "running" ELSE s.stage
  BY MachineFields, MachineStages
<1> HIDE DEF t
<1>2. StageOfPhase(t, w)
  BY <1>1 DEF StageInv, StageOfPhase
<1>3. OneDialog(t) /\ DialogsOfRun(t)
  BY <1>1 DEF StageInv, OneDialog, DialogsOfRun, Live
<1> QED
  BY <1>2, <1>3 DEF StageInv, t

\* Start of the plan or the Verify window: the window goes, the start is
\* recorded, and then the question is answered.
LEMMA StartKeeps ==
    ASSUME NEW s, NEW w, NEW r, NEW v \in Op, FlowBase(s, w, r),
           HeldUnless(s, NoQuestion), s.win[v].q # NoQuestion
    PROVE  Keeps(s, Answered(Confirmed(Close(s, v)), s.win[v].q, "ok"), w, r)
<1> DEFINE q == s.win[v].q
           a == Close(s, v)
           b == Confirmed(a)
<1>1. s \in AppState /\ q \in Question /\ q.kind = "start"
  <2>1. s \in AppState
    BY DEF FlowBase
  <2>2. q \in Asked
    BY <2>1, AppFields
  <2> QED
    BY <2>1, <2>2 DEF FlowBase, Holders, Asked
<1>2. WasShown(s, w, r, q)
  BY DEF FlowBase, Holders
<1>3. HeldUnless(s, q)
  BY DEF HeldUnless
<1> HIDE DEF q
<1>4. FlowBase(a, w, r) /\ HeldUnless(a, q) /\ a \in AppState /\ a.run = s.run
      /\ a.stage = s.stage /\ a.frames = s.frames
  <2>1. FlowBase(a, w, r) /\ HeldUnless(a, q)
    BY <1>3, CloseKeeps DEF q
  <2> QED
    BY <1>1, <2>1, CloseFields
<1>5. StageInv(s, w) => StageInv(a, w)
  BY <1>1, CloseStage
<1> HIDE DEF a
<1>6. FlowBase(b, w, r) /\ HeldUnless(b, q) /\ b.run = s.run /\ b.frames = s.frames
  BY <1>4, MachineKeeps, MachineFields
<1>7. b.stage = IF s.stage = "planning" THEN "running" ELSE s.stage
  BY <1>4, MachineStages
<1>8. StageInv(s, w) => StageInv(b, w)
  BY <1>4, <1>5, ConfirmedStage
<1> HIDE DEF b
<1>9. WasShown(b, w, r, q)
  BY <1>2, <1>6, SameShown
<1>10. FlowBase(Answered(b, q, "ok"), w, r) /\ HeldUnless(Answered(b, q, "ok"), NoQuestion)
  BY <1>1, <1>6, <1>9, AnsweredKeeps
<1>11. ASSUME StageInv(s, w) PROVE StageInv(Answered(b, q, "ok"), w)
  <2>1. \A i \in 1 .. Len(b.frames) : b.frames[i].kind = "refused" => b.frames[i].q # q
    BY <1>1, <1>6 DEF FlowBase, Holders, Credential
  <2>2. Live(b, q) => b.stage \in {"running", "cancelling"}
    <3>1. Live(b, q) => b.stage \notin {"idle", "finished"}
      BY <1>6 DEF Live, FlowBase, RunOfWorker
    <3>2. s.stage \in {"idle", "planning", "running", "cancelling", "finished"}
      BY <1>1, AppFields
    <3> QED
      BY <1>7, <3>1, <3>2
  <2> QED
    BY <1>1, <1>6, <1>8, <1>11, <2>1, <2>2, AnsweredStage
<1> QED
  BY <1>10, <1>11 DEF Keeps, q, a, b

\* Cancel of a window whose question waits: the window goes, then the answer.
LEMMA CancelWindowKeeps ==
    ASSUME NEW s, NEW w, NEW r, NEW v \in Op, FlowBase(s, w, r),
           HeldUnless(s, NoQuestion), s.win[v].q # NoQuestion
    PROVE  Keeps(s, Answered(Close(s, v), s.win[v].q, "cancel"), w, r)
<1> DEFINE q == s.win[v].q
           a == Close(s, v)
<1>1. s \in AppState /\ q \in Question /\ q.kind = "start"
  <2>1. s \in AppState
    BY DEF FlowBase
  <2>2. q \in Asked
    BY <2>1, AppFields
  <2> QED
    BY <2>1, <2>2 DEF FlowBase, Holders, Asked
<1>2. WasShown(s, w, r, q)
  BY DEF FlowBase, Holders
<1>3. HeldUnless(s, q)
  BY DEF HeldUnless
<1> HIDE DEF q
<1>4. FlowBase(a, w, r) /\ HeldUnless(a, q) /\ a \in AppState /\ a.run = s.run
      /\ a.stage = s.stage /\ a.frames = s.frames
  <2>1. FlowBase(a, w, r) /\ HeldUnless(a, q)
    BY <1>3, CloseKeeps DEF q
  <2> QED
    BY <1>1, <2>1, CloseFields
<1>5. StageInv(s, w) => StageInv(a, w)
  BY <1>1, CloseStage
<1> HIDE DEF a
<1>9. WasShown(a, w, r, q)
  BY <1>2, <1>4, SameShown
<1>10. FlowBase(Answered(a, q, "cancel"), w, r) /\ HeldUnless(Answered(a, q, "cancel"), NoQuestion)
  BY <1>1, <1>4, <1>9, AnsweredKeeps
<1>11. ASSUME StageInv(s, w) PROVE StageInv(Answered(a, q, "cancel"), w)
  <2>1. \A i \in 1 .. Len(a.frames) : a.frames[i].kind = "refused" => a.frames[i].q # q
    BY <1>1, <1>4 DEF FlowBase, Holders, Credential
  <2> QED
    BY <1>1, <1>4, <1>5, <1>11, <2>1, AnsweredStage
<1> QED
  BY <1>10, <1>11 DEF Keeps, q, a

\* The plan window gives its question away before it answers it.
LEMMA ForgetFields ==
    ASSUME NEW s \in AppState, NEW v \in Op
    PROVE  LET t == [s EXCEPT !.win[v].q = NoQuestion] IN
           /\ t \in AppState /\ t.run = s.run /\ t.stage = s.stage
           /\ t.posted = s.posted /\ t.frames = s.frames
           /\ \A x \in Op : x # v => t.win[x] = s.win[x]
           /\ t.win[v].q = NoQuestion
<1> DEFINE a == [s.win[v] EXCEPT !.q = NoQuestion]
           b == [s.win EXCEPT ![v] = a]
<1>1. s.win \in [Op -> [open : BOOLEAN, q : Asked, starting : BOOLEAN]]
  BY AppFields
<1>2. a \in [open : BOOLEAN, q : Asked, starting : BOOLEAN] /\ a.q = NoQuestion
  BY <1>1 DEF Asked
<1> HIDE DEF a
<1>3. /\ b \in [Op -> [open : BOOLEAN, q : Asked, starting : BOOLEAN]]
      /\ b[v] = a /\ \A x \in Op : x # v => b[x] = s.win[x]
  BY <1>1, <1>2
<1>4. [s EXCEPT !.win[v].q = NoQuestion] = [s EXCEPT !.win = b]
  BY DEF a
<1> HIDE DEF b
<1> QED
  BY <1>2, <1>3, <1>4 DEF AppState

\* It keeps what is shown held, but for that question.
LEMMA ForgetKeeps ==
    ASSUME NEW s, NEW w, NEW r, NEW v \in Op, NEW q, FlowBase(s, w, r),
           HeldUnless(s, q), s.win[v].q \in {NoQuestion, q}
    PROVE  LET t == [s EXCEPT !.win[v].q = NoQuestion] IN
           FlowBase(t, w, r) /\ HeldUnless(t, q) /\ (StageInv(s, w) => StageInv(t, w))
<1> DEFINE t == [s EXCEPT !.win[v].q = NoQuestion]
<1>1. s \in AppState
  BY DEF FlowBase
<1>2. /\ t \in AppState /\ t.run = s.run /\ t.stage = s.stage
      /\ t.posted = s.posted /\ t.frames = s.frames
      /\ \A x \in Op : x # v => t.win[x] = s.win[x]
      /\ t.win[v].q = NoQuestion
  BY <1>1, ForgetFields
<1> HIDE DEF t
<1>3. Alike(s, t)
  BY <1>2 DEF Alike
<1>4. \A x \in Op : s.win[x].open /\ s.win[x].q \notin {NoQuestion, q} =>
                       t.win[x].open /\ t.win[x].q = s.win[x].q
  BY <1>2
<1> QED
  BY <1>2, <1>3, <1>4, AlikeBase, AlikeHeld, SameStage DEF t

\* A question that starts nothing is answered: one of a plan or a start that no
\* dialog about a refused YubiKey holds.
LEMMA AnswerKeeps ==
    ASSUME NEW s, NEW w, NEW r, NEW q \in Question, NEW v \in {"ok", "other", "cancel"},
           FlowBase(s, w, r), HeldUnless(s, q), WasShown(s, w, r, q),
           q.kind # "start" \/ v # "ok",
           \A i \in 1 .. Len(s.frames) : s.frames[i].kind = "refused" => s.frames[i].q # q
    PROVE  Keeps(s, Answered(s, q, v), w, r)
  BY AnsweredKeeps, AnsweredStage DEF Keeps

\* Another plan: the plan window gives its question away and answers it.
LEMMA OtherPlanKeeps ==
    ASSUME NEW s, NEW w, NEW r, NEW q \in Question, FlowBase(s, w, r),
           HeldUnless(s, NoQuestion), WasShown(s, w, r, q), q.kind = "start"
    PROVE  /\ Keeps(s, Answered(s, q, "other"), w, r)
           /\ s.win["backup"].q = q =>
                Keeps(s, Answered([s EXCEPT !.win["backup"].q = NoQuestion], q, "other"), w, r)
<1>1. HeldUnless(s, q)
  BY DEF HeldUnless
<1>2. \A i \in 1 .. Len(s.frames) : s.frames[i].kind = "refused" => s.frames[i].q # q
  BY DEF FlowBase, Holders, Credential
<1>3. Keeps(s, Answered(s, q, "other"), w, r)
  BY <1>1, <1>2, AnswerKeeps
<1>4. ASSUME s.win["backup"].q = q
      PROVE  Keeps(s, Answered([s EXCEPT !.win["backup"].q = NoQuestion], q, "other"), w, r)
  <2> DEFINE t == [s EXCEPT !.win["backup"].q = NoQuestion]
  <2>0. "backup" \in Op /\ s \in AppState
    BY DEF Op, FlowBase
  <2>1. FlowBase(t, w, r) /\ HeldUnless(t, q) /\ (StageInv(s, w) => StageInv(t, w))
    BY <1>1, <1>4, <2>0, ForgetKeeps
  <2>2. t.run = s.run /\ t.frames = s.frames
    BY <2>0, ForgetFields
  <2> HIDE DEF t
  <2>3. WasShown(t, w, r, q)
    BY <2>2, SameShown
  <2>4. Keeps(t, Answered(t, q, "other"), w, r)
    BY <1>2, <2>1, <2>2, <2>3, AnswerKeeps
  <2> QED
    BY <2>1, <2>4 DEF Keeps, t
<1> QED
  BY <1>3, <1>4

\* The link to new keys: the stage goes back to planning and the plan window
\* opens before the worker gets its answer.
LEMMA LinkKeeps ==
    ASSUME NEW s, NEW w, NEW r, NEW q \in Question,
           FlowBase(s, w, r), HeldUnless(s, q), WasShown(s, w, r, q)
    PROVE  LET t == Answered(Open(Replan(s), "backup"), q, "other") IN
           /\ FlowBase(t, w, r) /\ HeldUnless(t, NoQuestion)
           /\ /\ StageInv(s, w) /\ q.kind = "refused"
              /\ \A i \in 1 .. Len(s.frames) : s.frames[i].kind = "refused" => s.frames[i].q # q
              /\ Live(s, q) \/ s.stage \notin {"planning", "running"}
              => StageInv(t, w)
<1> DEFINE a == Replan(s)
           b == Open(a, "backup")
           t == Answered(b, q, "other")
<1>0. "backup" \in Op /\ s \in AppState
  BY DEF Op, FlowBase
<1>1. /\ FlowBase(a, w, r) /\ HeldUnless(a, q) /\ a \in AppState
      /\ a.run = s.run /\ a.frames = s.frames
      /\ a.stage = IF s.stage = "running" THEN "planning" ELSE s.stage
  BY <1>0, MachineKeeps, MachineFields, MachineStages
<1> HIDE DEF a
<1>2. /\ FlowBase(b, w, r) /\ HeldUnless(b, q) /\ b \in AppState
      /\ b.run = s.run /\ b.frames = s.frames /\ b.stage = a.stage
  BY <1>0, <1>1, OpenKeeps, OpenFields
<1> HIDE DEF b
<1>3. WasShown(b, w, r, q)
  BY <1>2, SameShown
<1>4. FlowBase(t, w, r) /\ HeldUnless(t, NoQuestion)
  BY <1>2, <1>3, AnsweredKeeps
<1>5. ASSUME StageInv(s, w), q.kind = "refused",
             \A i \in 1 .. Len(s.frames) : s.frames[i].kind = "refused" => s.frames[i].q # q,
             Live(s, q) \/ s.stage \notin {"planning", "running"}
      PROVE  StageInv(t, w)
  <2>1. CASE s.stage # "running"
    <3>1. StageInv(b, w)
      BY <1>1, <1>2, <1>5, <2>1, SameStage
    <3> QED
      BY <1>2, <1>5, <3>1, AnsweredStage
  <2>2. CASE s.stage = "running"
    <3>1. Live(s, q)
      BY <1>5, <2>2
    <3>2. /\ t.stage = "planning" /\ t.frames = s.frames /\ t.run.asked = q
          /\ t.run.reply = "other"
      BY <1>1, <1>2, <2>2, <3>1, AnsweredFields DEF Live
    <3> HIDE DEF t
    <3>3. StageOfPhase(t, w)
      BY <1>5, <3>1, <3>2, ZeroValues DEF StageInv, StageOfPhase, Live
    <3>4. OneDialog(t)
      BY <1>5, <3>2 DEF StageInv, OneDialog
    <3>5. DialogsOfRun(t)
      BY <1>5, <2>2, <3>1, <3>2 DEF StageInv, DialogsOfRun, Live
    <3> QED
      BY <3>3, <3>4, <3>5 DEF StageInv
  <2> QED
    BY <2>1, <2>2
<1> QED
  BY <1>4, <1>5 DEF a, b

\* The handler whose loop ended continues.
LEMMA ReturnKeeps ==
    ASSUME NEW s, NEW w, NEW r, FlowBase(s, w, r), HeldUnless(s, NoQuestion),
           s.frames # <<>>, s.frames[Len(s.frames)].result # "open"
    PROVE  Keeps(s, Continue(Pop(s), s.frames[Len(s.frames)]), w, r)
<1> DEFINE f == s.frames[Len(s.frames)]
           a == Pop(s)
           t == Continue(a, f)
<1>0. s \in AppState
  BY DEF FlowBase
<1>1. f \in Frame /\ Len(s.frames) \in 1 .. Len(s.frames)
  BY <1>0, PopFields
<1>2. /\ FlowBase(a, w, r)
      /\ HeldUnless(a, IF f.kind \in Credential THEN f.q ELSE NoQuestion)
  BY PopKeeps
<1>3. a \in AppState /\ a.run = s.run /\ a.stage = s.stage /\ a.win = s.win
  BY <1>0, PopFields
<1>4. /\ StageInv(s, w) => StageInv(a, w)
      /\ StageInv(s, w) /\ f.kind = "refused" =>
            \A i \in 1 .. Len(a.frames) : a.frames[i].kind = "refused" => a.frames[i].q # f.q
  BY <1>0, PopStage
<1>5. /\ WasShown(s, w, r, f.q)
      /\ f.kind \in Credential => f.q # NoQuestion /\ f.q.kind = f.kind
      /\ f.kind = "newkeys" => f.q # NoQuestion /\ f.q.kind = "start"
  BY <1>1 DEF FlowBase, Holders
<1>6. WasShown(a, w, r, f.q)
  BY <1>3, <1>5, SameShown
<1>7. /\ f.q # NoQuestion => f.q \in Question
      /\ f.kind \in Credential \cup {"newkeys", "cancel", "close"}
  BY <1>1, FrameFields DEF Asked
<1>8. StageInv(s, w) =>
         /\ f.result = "link" => f.kind = "refused"
         /\ f.result = "link" => Live(s, f.q) \/ s.stage \notin {"planning", "running"}
  BY <1>1 DEF StageInv, DialogsOfRun
<1>9. Live(s, f.q) => Live(a, f.q)
  BY <1>3 DEF Live
<1> HIDE DEF f, a
<1>10. CASE f.kind = "cancel"
  <2>1. t = IF f.result = "yes" THEN CancelRun(a) ELSE a
    BY <1>10 DEF Continue
  <2>2. HeldUnless(a, NoQuestion)
    BY <1>2, <1>10 DEF Credential
  <2> QED
    BY <1>2, <1>4, <2>1, <2>2, CancelRunKeeps DEF Keeps, f, a
<1>11. CASE f.kind = "close"
  <2>1. t = IF f.result = "yes" THEN CancelRun(CloseConfirmed(a)) ELSE a
    BY <1>11 DEF Continue
  <2>2. HeldUnless(a, NoQuestion)
    BY <1>2, <1>11 DEF Credential
  <2>3. FlowBase(CloseConfirmed(a), w, r) /\ HeldUnless(CloseConfirmed(a), NoQuestion)
    BY <1>2, <2>2, MachineKeeps
  <2>4. StageInv(a, w) => StageInv(CloseConfirmed(a), w)
    BY <1>3, MachineFields, MachineStages, SameStage
  <2> QED
    BY <1>2, <1>4, <2>1, <2>2, <2>3, <2>4, CancelRunKeeps DEF Keeps, f, a
<1>12. CASE f.kind = "newkeys"
  <2>1. t = IF f.result # "yes" THEN a
            ELSE Answered(IF a.win["backup"].q # f.q THEN a
                          ELSE [a EXCEPT !.win["backup"].q = NoQuestion], f.q, "other")
    BY <1>12 DEF Continue
  <2>2. HeldUnless(a, NoQuestion)
    BY <1>2, <1>12 DEF Credential
  <2>3. /\ Keeps(a, Answered(a, f.q, "other"), w, r)
        /\ a.win["backup"].q = f.q =>
              Keeps(a, Answered([a EXCEPT !.win["backup"].q = NoQuestion], f.q, "other"), w, r)
    BY <1>2, <1>5, <1>6, <1>7, <1>12, <2>2, OtherPlanKeeps
  <2>4. Keeps(a, t, w, r)
    <3>1. CASE f.result # "yes"
      BY <1>2, <2>1, <2>2, <3>1 DEF Keeps
    <3>2. CASE f.result = "yes" /\ a.win["backup"].q # f.q
      BY <2>1, <2>3, <3>2, Zenon
    <3>3. CASE f.result = "yes" /\ a.win["backup"].q = f.q
      BY <2>1, <2>3, <3>3, Zenon
    <3> QED
      BY <3>1, <3>2, <3>3
  <2> QED
    BY <1>4, <2>4 DEF Keeps, f, a
<1>13. CASE f.kind \in Credential
  <2>0. f.q \in Question /\ f.q.kind = f.kind /\ HeldUnless(a, f.q)
    BY <1>2, <1>5, <1>7, <1>13
  <2>1. CASE f.result = "link"
    <3>1. t = Answered(Open(Replan(a), "backup"), f.q, "other")
      BY <1>13, <2>1 DEF Continue, Credential
    <3>2. /\ FlowBase(t, w, r) /\ HeldUnless(t, NoQuestion)
          /\ /\ StageInv(a, w) /\ f.q.kind = "refused"
             /\ \A i \in 1 .. Len(a.frames) : a.frames[i].kind = "refused" => a.frames[i].q # f.q
             /\ Live(a, f.q) \/ a.stage \notin {"planning", "running"}
             => StageInv(t, w)
      BY <1>2, <1>6, <2>0, <3>1, LinkKeeps
    <3> QED
      BY <1>3, <1>4, <1>8, <1>9, <2>0, <2>1, <3>2 DEF Keeps, f, a
  <2>2. CASE f.result # "link"
    <3>1. t = IF f.result = "yes" THEN Answered(a, f.q, "ok") ELSE Answered(a, f.q, "cancel")
      BY <1>13, <2>2 DEF Continue, Credential
    <3>2. PICK v \in {"ok", "cancel"} : t = Answered(a, f.q, v)
      BY <3>1
    <3>3. v \in {"ok", "other", "cancel"} /\ f.q.kind # "start"
      BY <1>13, <2>0 DEF Credential
    <3>4. FlowBase(t, w, r) /\ HeldUnless(t, NoQuestion)
      BY <1>2, <1>6, <2>0, <3>2, <3>3, AnsweredKeeps
    <3>5. ASSUME StageInv(s, w) PROVE StageInv(t, w)
      <4>1. \A i \in 1 .. Len(a.frames) : a.frames[i].kind = "refused" => a.frames[i].q # f.q
        <5>1. CASE f.kind = "refused"
          BY <1>4, <3>5, <5>1
        <5>2. CASE f.kind = "cred"
          BY <1>2, <2>0, <5>2 DEF FlowBase, Holders, Credential
        <5> QED
          BY <1>13, <5>1, <5>2 DEF Credential
      <4> QED
        BY <1>2, <1>4, <2>0, <3>2, <3>3, <3>5, <4>1, AnsweredStage
    <3> QED
      BY <3>4, <3>5 DEF Keeps, f, a
  <2> QED
    BY <2>1, <2>2
<1> QED
  BY <1>7, <1>10, <1>11, <1>12, <1>13 DEF f, a

\* A dialog is answered: its handler continues later.
LEMMA AnswerDialogKeeps ==
    ASSUME NEW s, NEW w, NEW r, FlowBase(s, w, r), HeldUnless(s, NoQuestion),
           NEW j \in 1 .. Len(s.frames), NEW v \in {"yes", "no", "link"},
           s.frames[j].result = "open", v = "link" => s.frames[j].kind = "refused"
    PROVE  Keeps(s, [s EXCEPT !.frames[j].result = v], w, r)
<1> DEFINE f == [s.frames[j] EXCEPT !.result = v]
           fs == [s.frames EXCEPT ![j] = f]
           t == [s EXCEPT !.frames = fs]
<1>0. s \in AppState /\ s.frames \in Seq(Frame)
  BY AppFields DEF FlowBase
<1>1. s.frames[j] \in Frame
  BY <1>0
<1>2. f \in Frame /\ f.kind = s.frames[j].kind /\ f.q = s.frames[j].q /\ f.result = v
  BY <1>1 DEF Frame
<1> HIDE DEF f
<1>3. /\ fs \in Seq(Frame) /\ Len(fs) = Len(s.frames) /\ fs[j] = f
      /\ \A i \in 1 .. Len(s.frames) : i # j => fs[i] = s.frames[i]
  BY <1>0, <1>2
<1>4. [s EXCEPT !.frames[j].result = v] = t
  BY DEF f
<1> HIDE DEF fs
<1>5. /\ t \in AppState /\ t.run = s.run /\ t.stage = s.stage /\ t.posted = s.posted
      /\ t.win = s.win /\ t.frames = fs
  BY <1>0, <1>3 DEF AppState
<1> HIDE DEF t
<1>6. Alike(s, t)
  BY <1>2, <1>3, <1>5 DEF Alike
<1>7. FlowBase(t, w, r) /\ HeldUnless(t, NoQuestion)
  BY <1>5, <1>6, AlikeBase, AlikeHeld
<1>8. ASSUME StageInv(s, w) PROVE StageInv(t, w)
  <2>1. StageOfPhase(t, w)
    BY <1>5, <1>8 DEF StageInv, StageOfPhase
  <2>2. \A i \in 1 .. Len(s.frames) : t.frames[i].kind = s.frames[i].kind
                                      /\ t.frames[i].q = s.frames[i].q
    BY <1>2, <1>3, <1>5
  <2>3. OneDialog(t)
    BY <1>3, <1>5, <1>8, <2>2 DEF StageInv, OneDialog
  <2>4. DialogsOfRun(t)
    <3> SUFFICES ASSUME NEW i \in 1 .. Len(t.frames)
                 PROVE  /\ t.frames[i].kind = "refused" /\ t.frames[i].result = "open" =>
                              Live(t, t.frames[i].q)
                        /\ t.frames[i].result = "link" =>
                              /\ t.frames[i].kind = "refused"
                              /\ Live(t, t.frames[i].q) \/ t.stage \notin {"planning", "running"}
      BY DEF DialogsOfRun
    <3>1. i \in 1 .. Len(s.frames)
      BY <1>3, <1>5
    <3>2. \A q : Live(s, q) => Live(t, q)
      BY <1>5 DEF Live
    <3>3. CASE i = j
      BY <1>2, <1>3, <1>5, <1>8, <3>1, <3>2, <3>3 DEF StageInv, DialogsOfRun
    <3>4. CASE i # j
      BY <1>3, <1>5, <1>8, <3>1, <3>2, <3>4 DEF StageInv, DialogsOfRun
    <3> QED
      BY <3>3, <3>4
  <2> QED
    BY <2>1, <2>3, <2>4 DEF StageInv
<1> QED
  BY <1>4, <1>7, <1>8 DEF Keeps

-----------------------------------------------------------------------------
(* Questions are shown.                                                    *)

\* The window of the plan or the verification keeps a question that is shown
\* for its buttons.
LEMMA KeepQuestionKeeps ==
    ASSUME NEW s, NEW w, NEW r, NEW q \in Question, NEW v \in {"backup", "verify"},
           FlowBase(s, w, r), HeldUnless(s, q), WasShown(s, w, r, q),
           q.kind = "start", s.win[v].open,
           s.run # NoRun /\ s.run.current = q
    PROVE  Keeps(s, [s EXCEPT !.win[v].q = q], w, r)
<1> DEFINE a == [s.win[v] EXCEPT !.q = q]
           b == [s.win EXCEPT ![v] = a]
           t == [s EXCEPT !.win = b]
<1>0. s \in AppState /\ w \in WorkerState /\ r \in 0 .. MaxRuns /\ v \in Op /\ v # "restore"
  BY DEF FlowBase, Op
<1>1. s.win \in [Op -> [open : BOOLEAN, q : Asked, starting : BOOLEAN]]
  BY <1>0, AppFields
<1>2. /\ a \in [open : BOOLEAN, q : Asked, starting : BOOLEAN] /\ a.q = q
      /\ a.open = s.win[v].open
  BY <1>0, <1>1 DEF Asked
<1> HIDE DEF a
<1>3. /\ b \in [Op -> [open : BOOLEAN, q : Asked, starting : BOOLEAN]]
      /\ b[v] = a /\ \A x \in Op : x # v => b[x] = s.win[x]
  BY <1>0, <1>1, <1>2
<1>4. [s EXCEPT !.win[v].q = q] = t
  BY DEF a
<1> HIDE DEF b
<1>5. /\ t \in AppState /\ t.run = s.run /\ t.stage = s.stage /\ t.posted = s.posted
      /\ t.win = b /\ t.frames = s.frames
  BY <1>0, <1>3 DEF AppState
<1> HIDE DEF t
<1>6. RunOfWorker(t, w, r) /\ OneQuestion(t, w, r) /\ Messages(t, w)
  BY <1>5 DEF FlowBase, RunOfWorker, OneQuestion, Messages
<1>7. \A x : WasShown(s, w, r, x) => WasShown(t, w, r, x)
  BY <1>5 DEF WasShown
<1>8. Holders(t, w, r)
  <2>1. t.win["restore"].q = NoQuestion
    BY <1>0, <1>3, <1>5 DEF FlowBase, Holders, Op
  <2>2. \A x \in Op : /\ WasShown(t, w, r, t.win[x].q)
                      /\ t.win[x].q # NoQuestion => t.win[x].q.kind = "start"
    BY <1>2, <1>3, <1>5, <1>7 DEF FlowBase, Holders
  <2> QED
    BY <1>5, <1>7, <2>1, <2>2 DEF FlowBase, Holders
<1>9. HeldUnless(t, NoQuestion)
  <2>1. Held(t, q)
    BY <1>0, <1>2, <1>3, <1>5 DEF Held
  <2> QED
    BY <1>5, <2>1 DEF HeldUnless
<1>10. StageInv(s, w) => StageInv(t, w)
  BY <1>5, SameStage
<1> QED
  BY <1>0, <1>4, <1>5, <1>6, <1>8, <1>9, <1>10 DEF FlowBase, Keeps

\* Bridge.ShowNext takes the question from the queue; the message that
\* announced it is gone.
LEMMA TakeKeeps ==
    ASSUME NEW s, NEW w, NEW r, FlowBase(s, w, r), HeldUnless(s, NoQuestion),
           s.posted # <<>>, Head(s.posted) = "question",
           s.run # NoRun, s.run.queue # <<>>
    PROVE  LET q == Head(s.run.queue)
               p == [s EXCEPT !.posted = Tail(s.posted)]
               t == [p EXCEPT !.run.queue = Tail(p.run.queue), !.run.current = q] IN
           /\ p.run = s.run /\ s.run.current = NoQuestion /\ q \in Question
           /\ FlowBase(t, w, r) /\ HeldUnless(t, q) /\ WasShown(t, w, r, q)
           /\ StageInv(s, w) => StageInv(t, w)
           /\ \A i \in 1 .. Len(t.frames) : t.frames[i].q # q
           /\ Live(t, q) /\ t.run.current = q /\ t.run # NoRun
<1> DEFINE q == Head(s.run.queue)
           p == [s EXCEPT !.posted = Tail(s.posted)]
           b == [s.run EXCEPT !.queue = Tail(s.run.queue), !.current = q]
           t == [p EXCEPT !.run = b]
<1>0. s \in AppState /\ w \in WorkerState /\ r \in 0 .. MaxRuns
  BY DEF FlowBase
<1>1. s.run \in Bridge
  BY <1>0, AppFields
<1>2. /\ s.run.queue = <<s.run.asked>> /\ s.run.asked # NoQuestion
      /\ s.run.current = NoQuestion /\ s.run.reply = NoReply /\ ~s.run.closed
      /\ s.run.asked.n = r /\ s.run.asked.k = w.asks
  BY <1>1 DEF FlowBase, OneQuestion, Bridge
<1>3. q = s.run.asked /\ Tail(s.run.queue) = <<>> /\ q \in Question
  BY <1>1, <1>2 DEF Bridge, Asked
<1>4. /\ b \in Bridge /\ b.n = s.run.n /\ b.closed = s.run.closed /\ b.queue = <<>>
      /\ b.asked = q /\ b.current = q /\ b.reply = NoReply
  <2>0. <<>> \in Seq(Question)
    OBVIOUS
  <2> HIDE DEF q
  <2>1. Tail(s.run.queue) \in Seq(Question) /\ q \in Asked
    BY <1>3, <2>0, Zenon DEF Asked
  <2>2. /\ b \in Bridge /\ b.n = s.run.n /\ b.closed = s.run.closed
        /\ b.queue = Tail(s.run.queue)
        /\ b.asked = s.run.asked /\ b.current = q /\ b.reply = s.run.reply
    BY <1>1, <2>1 DEF Bridge
  <2> QED
    BY <1>2, <1>3, <2>2
<1>5. /\ s.posted \in Seq({"question", "done"}) /\ Tail(s.posted) \in Seq({"question", "done"})
      /\ Len(s.posted) \in Nat \ {0} /\ Len(Tail(s.posted)) = Len(s.posted) - 1
      /\ \A i \in 1 .. Len(Tail(s.posted)) : Tail(s.posted)[i] = s.posted[i + 1]
  BY <1>0, AppFields
<1>6. /\ p \in AppState /\ p.run = s.run /\ p.stage = s.stage /\ p.win = s.win
      /\ p.frames = s.frames /\ p.posted = Tail(s.posted)
  BY <1>0, <1>5 DEF AppState
<1>7. [p EXCEPT !.run.queue = Tail(p.run.queue), !.run.current = q] = t
  BY <1>0, <1>1, <1>6 DEF AppState, Bridge
<1> HIDE DEF q, p, b
<1>8. /\ t \in AppState /\ t.run = b /\ t.stage = s.stage /\ t.win = s.win
      /\ t.frames = s.frames /\ t.posted = Tail(s.posted)
  BY <1>4, <1>6 DEF AppState
<1>9. b # NoRun
  BY <1>4, ZeroValues
<1> HIDE DEF t
<1>10. RunOfWorker(t, w, r)
  BY <1>4, <1>8, <1>9 DEF FlowBase, RunOfWorker
<1>11. OneQuestion(t, w, r)
  BY <1>2, <1>3, <1>4, <1>8, <1>9 DEF FlowBase, OneQuestion
<1>12. \A x : WasShown(s, w, r, x) => WasShown(t, w, r, x)
  BY <1>3, <1>4, <1>8, <1>9 DEF WasShown
<1>13. Holders(t, w, r)
  BY <1>8, <1>12 DEF FlowBase, Holders
<1>14. Messages(t, w)
  <2>1. t.run.queue = <<>>
    BY <1>4, <1>8
  <2>2. \A i \in 1 .. Len(t.posted) : t.posted[i] = "done" => w.pc = "over" /\ i = Len(t.posted)
    BY <1>5, <1>8 DEF FlowBase, Messages
  <2> QED
    BY <2>1, <2>2 DEF Messages
<1>15. WasShown(t, w, r, q)
  <2>1. q.n = r /\ q.k = w.asks /\ r \in Nat /\ w.asks \in Nat
    BY <1>0, <1>2, <1>3, BoundsAssumption DEF WorkerState
  <2> QED
    BY <1>4, <1>8, <2>1 DEF WasShown
<1>16. HeldUnless(t, q)
  BY <1>4, <1>8 DEF HeldUnless
<1>17. Live(t, q) /\ t.run.current = q /\ t.run # NoRun
  BY <1>4, <1>8, <1>9 DEF Live
<1>18. \A i \in 1 .. Len(t.frames) : t.frames[i].q # q
  BY <1>2, <1>3, <1>8 DEF FlowBase, Holders, WasShown
<1>19. ASSUME StageInv(s, w) PROVE StageInv(t, w)
  <2>1. StageOfPhase(t, w)
    BY <1>2, <1>3, <1>4, <1>8, <1>9, <1>19 DEF StageInv, StageOfPhase
  <2>2. OneDialog(t)
    BY <1>8, <1>19 DEF StageInv, OneDialog
  <2>3. DialogsOfRun(t)
    BY <1>2, <1>3, <1>4, <1>8, <1>9, <1>19 DEF StageInv, DialogsOfRun, Live
  <2> QED
    BY <2>1, <2>2, <2>3 DEF StageInv
<1>20. FlowBase(t, w, r)
  BY <1>0, <1>8, <1>10, <1>11, <1>13, <1>14 DEF FlowBase
<1>21. p.run = s.run /\ s.run.current = NoQuestion /\ q \in Question
  BY <1>2, <1>3, <1>6
<1> QED
  BY <1>7, <1>15, <1>16, <1>17, <1>18, <1>19, <1>20, <1>21 DEF q, p

\* msgBridge: whichever way the question is shown, or none is, a window or a
\* dialog holds it, or it has its answer.
LEMMA QuestionMessageKeeps ==
    ASSUME NEW s, NEW w, NEW r, FlowBase(s, w, r), HeldUnless(s, NoQuestion),
           s.posted # <<>>, Head(s.posted) = "question",
           NEW t \in LET p == [s EXCEPT !.posted = Tail(s.posted)]
                     IN  IF p.run = NoRun THEN {p} ELSE ShowNext(p)
    PROVE  Keeps(s, t, w, r)
<1> DEFINE p == [s EXCEPT !.posted = Tail(s.posted)]
<1>0. s \in AppState /\ w \in WorkerState /\ r \in 0 .. MaxRuns
  BY DEF FlowBase
<1>1. /\ s.posted \in Seq({"question", "done"}) /\ Tail(s.posted) \in Seq({"question", "done"})
      /\ Len(s.posted) \in Nat \ {0} /\ Len(Tail(s.posted)) = Len(s.posted) - 1
      /\ \A i \in 1 .. Len(Tail(s.posted)) : Tail(s.posted)[i] = s.posted[i + 1]
  BY <1>0, AppFields
<1>2. /\ p \in AppState /\ p.run = s.run /\ p.stage = s.stage /\ p.win = s.win
      /\ p.frames = s.frames /\ p.posted = Tail(s.posted)
  BY <1>0, <1>1 DEF AppState
<1>3. CASE s.run = NoRun \/ s.run.queue = <<>>
  <2>1. t = p
    BY <1>2, <1>3 DEF ShowNext
  <2> HIDE DEF p
  <2>2. RunOfWorker(p, w, r) /\ OneQuestion(p, w, r) /\ Holders(p, w, r)
    BY <1>2 DEF FlowBase, RunOfWorker, OneQuestion, Holders, WasShown
  <2>3. Messages(p, w)
    <3>1. ~(p.run # NoRun /\ p.run.queue # <<>>)
      BY <1>2, <1>3
    <3>2. \A i \in 1 .. Len(p.posted) : p.posted[i] = "done" => w.pc = "over" /\ i = Len(p.posted)
      <4>1. \A i \in 1 .. Len(s.posted) :
               s.posted[i] = "done" => w.pc = "over" /\ i = Len(s.posted)
        BY DEF FlowBase, Messages
      <4>2. \A i \in 1 .. Len(Tail(s.posted)) : i + 1 \in 1 .. Len(s.posted)
        BY <1>1
      <4> QED
        BY <1>1, <1>2, <4>1, <4>2
    <3> QED
      BY <3>1, <3>2 DEF Messages
  <2>4. HeldUnless(p, NoQuestion)
    BY <1>2 DEF HeldUnless, Held
  <2>5. StageInv(s, w) => StageInv(p, w)
    BY <1>2, SameStage
  <2> QED
    BY <1>0, <1>2, <2>1, <2>2, <2>3, <2>4, <2>5 DEF FlowBase, Keeps
<1>4. CASE ~(s.run = NoRun \/ s.run.queue = <<>>)
  <2> DEFINE q == Head(s.run.queue)
             a == [p EXCEPT !.run.queue = Tail(p.run.queue), !.run.current = q]
  <2>1. /\ s.run.current = NoQuestion /\ q \in Question
        /\ FlowBase(a, w, r) /\ HeldUnless(a, q) /\ WasShown(a, w, r, q)
        /\ StageInv(s, w) => StageInv(a, w)
        /\ \A i \in 1 .. Len(a.frames) : a.frames[i].q # q
        /\ Live(a, q) /\ a.run.current = q /\ a.run # NoRun
    BY <1>4, TakeKeeps
  <2>2. t \in CASE q.kind = "plan"  -> {Answered(a, q, "ok")}
                [] q.kind = "start" -> {IF a.op = "backup" THEN AskBackup(a, q)
                                                           ELSE AskStart(a, q)}
                [] OTHER -> {Push(a, q.kind, q, DialogOwner(a)), Answered(a, q, "cancel")}
    BY <1>2, <1>4, <2>1 DEF ShowNext
  <2> HIDE DEF q, a, p
  <2>3. q \in Asked /\ q # NoQuestion /\ q.kind \in Kind
    BY <2>1, ZeroValues DEF Asked, Question
  <2>4. a \in AppState
    BY <2>1 DEF FlowBase
  <2>5. \A v \in {"ok", "other", "cancel"} :
           q.kind # "start" \/ v # "ok" => Keeps(a, Answered(a, q, v), w, r)
    BY <2>1, AnswerKeeps
  <2>6. Keeps(a, t, w, r)
    <3>1. CASE q.kind = "plan"
      BY <2>2, <2>5, <3>1
    <3>2. CASE q.kind \in Credential
      <4>1. t \in {Push(a, q.kind, q, DialogOwner(a)), Answered(a, q, "cancel")}
        BY <2>2, <3>2 DEF Credential
      <4>2. DialogOwner(a) \in Window
        BY DEF DialogOwner, Window, Op
      <4>3. FlowBase(Push(a, q.kind, q, DialogOwner(a)), w, r)
            /\ HeldUnless(Push(a, q.kind, q, DialogOwner(a)), NoQuestion)
        BY <2>1, <2>3, <3>2, <4>2, PushKeeps DEF Credential
      <4>4. StageInv(a, w) => StageInv(Push(a, q.kind, q, DialogOwner(a)), w)
        BY <2>1, <2>3, <2>4, <3>2, <4>2, PushStage
      <4>5. Keeps(a, Push(a, q.kind, q, DialogOwner(a)), w, r)
        BY <4>3, <4>4 DEF Keeps
      <4>6. Keeps(a, Answered(a, q, "cancel"), w, r)
        BY <2>5
      <4> QED
        BY <4>1, <4>5, <4>6, Zenon
    <3>3. CASE q.kind = "start"
      <4>1. Keeps(a, Answered(a, q, "cancel"), w, r)
        BY <2>5
      <4>2. \A v \in {"backup", "verify"} : a.win[v].open =>
               Keeps(a, [a EXCEPT !.win[v].q = q], w, r)
        BY <2>1, <3>3, KeepQuestionKeeps
      <4>3. Keeps(a, Answered(Confirmed(Close(a, "restore")), q, "ok"), w, r)
        <5> DEFINE b == Close(a, "restore")
                   c == Confirmed(b)
        <5>0. "restore" \in Op
          BY DEF Op
        <5>1. a.win["restore"].q = NoQuestion
          BY <2>1 DEF FlowBase, Holders
        <5>2. FlowBase(b, w, r) /\ HeldUnless(b, q)
          BY <2>1, <5>0, <5>1, CloseKeeps
        <5>3. b \in AppState /\ b.run = a.run /\ b.stage = a.stage /\ b.frames = a.frames
          BY <2>4, <5>0, CloseFields
        <5>4. StageInv(a, w) => StageInv(b, w)
          BY <2>4, <5>0, CloseStage
        <5> HIDE DEF b
        <5>5. FlowBase(c, w, r) /\ HeldUnless(c, q) /\ c.run = a.run /\ c.frames = a.frames
              /\ c.stage = IF a.stage = "planning" THEN "running" ELSE a.stage
          <6>1. FlowBase(c, w, r) /\ HeldUnless(c, q)
            BY <5>2, MachineKeeps
          <6>2. c.run = a.run /\ c.frames = a.frames
            BY <5>3, MachineFields
          <6>3. c.stage = IF a.stage = "planning" THEN "running" ELSE a.stage
            BY <5>3, MachineStages
          <6> QED
            BY <6>1, <6>2, <6>3
        <5>6. StageInv(a, w) => StageInv(c, w)
          BY <5>3, <5>4, ConfirmedStage
        <5> HIDE DEF c
        <5>7. WasShown(c, w, r, q)
          BY <2>1, <5>5, SameShown
        <5>8. FlowBase(Answered(c, q, "ok"), w, r) /\ HeldUnless(Answered(c, q, "ok"), NoQuestion)
          BY <2>1, <5>5, <5>7, AnsweredKeeps
        <5>9. c.stage \in {"running", "cancelling"}
          <6>1. a.stage \notin {"idle", "finished"}
            BY <2>1 DEF FlowBase, RunOfWorker
          <6>2. a.stage \in {"idle", "planning", "running", "cancelling", "finished"}
            BY <2>4, AppFields
          <6> QED
            BY <5>5, <6>1, <6>2
        <5>10. StageInv(a, w) => StageInv(Answered(c, q, "ok"), w)
          BY <2>1, <5>5, <5>6, <5>9, AnsweredStage
        <5> QED
          BY <5>8, <5>10 DEF Keeps, b, c
      <4>4. t = IF a.op = "backup" THEN AskBackup(a, q) ELSE AskStart(a, q)
        BY <2>2, <3>3
      <4>5. CASE a.op = "backup"
        <5>1. t = IF a.win["backup"].open THEN [a EXCEPT !.win["backup"].q = q]
                                          ELSE Answered(a, q, "cancel")
          BY <4>4, <4>5 DEF AskBackup
        <5>2. CASE a.win["backup"].open
          BY <4>2, <5>1, <5>2, Zenon
        <5>3. CASE ~a.win["backup"].open
          BY <4>1, <5>1, <5>3, Zenon
        <5> QED
          BY <5>2, <5>3
      <4>6. CASE a.op = "restore"
        <5>1. t = IF a.win["restore"].open /\ a.win["restore"].starting
                  THEN Answered(Confirmed(Close(a, "restore")), q, "ok")
                  ELSE Answered(a, q, "cancel")
          BY <4>4, <4>6 DEF AskStart, AskRestore
        <5>2. CASE a.win["restore"].open /\ a.win["restore"].starting
          BY <4>3, <5>1, <5>2, Zenon
        <5>3. CASE ~(a.win["restore"].open /\ a.win["restore"].starting)
          BY <4>1, <5>1, <5>3, Zenon
        <5> QED
          BY <5>2, <5>3
      <4>7. CASE a.op \notin {"backup", "restore"}
        <5>1. t = IF a.win["verify"].open THEN [a EXCEPT !.win["verify"].q = q]
                                          ELSE Answered(a, q, "cancel")
          BY <4>4, <4>7 DEF AskStart
        <5>2. CASE a.win["verify"].open
          BY <4>2, <5>1, <5>2, Zenon
        <5>3. CASE ~a.win["verify"].open
          BY <4>1, <5>1, <5>3, Zenon
        <5> QED
          BY <5>2, <5>3
      <4> QED
        BY <4>5, <4>6, <4>7
    <3> QED
      BY <2>3, <3>1, <3>2, <3>3 DEF Kind, Credential
  <2> QED
    BY <2>1, <2>6 DEF Keeps
<1> QED
  BY <1>3, <1>4

-----------------------------------------------------------------------------
(* Operations start and end.                                               *)

\* A new bridge has no question.
LEMMA NewBridgeFields ==
    ASSUME NEW n \in 1 .. MaxRuns
    PROVE  LET b == NewBridge(n) IN
           /\ b \in Bridge /\ b.n = n /\ b.closed = FALSE /\ b.queue = <<>>
           /\ b.current = NoQuestion /\ b.asked = NoQuestion /\ b.reply = NoReply
  BY DEF NewBridge, Bridge, Asked

\* startOperation: the questions that windows and dialogs of earlier operations
\* still hold are older than all of the new one.
LEMMA StartedKeeps ==
    ASSUME NEW s, NEW w, NEW r, FlowBase(s, w, r), r < MaxRuns,
           s.stage \notin {"planning", "running", "cancelling"},
           NEW t \in AppState, t.run = NewBridge(r + 1), t.stage = "planning",
           t.frames = s.frames, t.win = s.win, t.posted = s.posted,
           NEW u \in WorkerState, u.pc = "working", u.phase = "plan", u.asks = 0
    PROVE  /\ FlowBase(t, u, r + 1) /\ HeldUnless(t, NoQuestion) /\ t.frames = s.frames
           /\ /\ StageInv(s, w)
              /\ \A i \in 1 .. Len(s.frames) :
                    s.frames[i].kind = "refused" /\ s.frames[i].result = "link" =>
                       s.frames[i].q.n = r + 1
              => StageInv(t, u)
<1>0. s \in AppState /\ w \in WorkerState /\ r \in 0 .. MaxRuns
  BY DEF FlowBase
<1> DEFINE b == NewBridge(r + 1)
<1>1. r + 1 \in 1 .. MaxRuns
  BY <1>0, BoundsAssumption
<1>2. /\ b \in Bridge /\ b.n = r + 1 /\ b.closed = FALSE /\ b.queue = <<>>
      /\ b.current = NoQuestion /\ b.asked = NoQuestion /\ b.reply = NoReply
  BY <1>1, NewBridgeFields
<1> HIDE DEF b
<1>3. /\ t \in AppState /\ t.run = b /\ t.stage = "planning" /\ t.frames = s.frames
      /\ t.win = s.win /\ t.posted = s.posted
  BY DEF b
<1>4. u \in WorkerState /\ u.pc = "working" /\ u.phase = "plan" /\ u.asks = 0
  OBVIOUS
<1>5. b # NoRun
  BY <1>2, ZeroValues
<1>6. s.run = NoRun /\ w.pc = "off"
  <2>1. s.stage \in {"idle", "finished"}
    BY <1>0, AppFields
  <2> QED
    BY <2>1 DEF FlowBase, RunOfWorker
<1>7. RunOfWorker(t, u, r + 1)
  BY <1>2, <1>3, <1>4, <1>5 DEF RunOfWorker
<1>8. OneQuestion(t, u, r + 1)
  BY <1>2, <1>3, <1>4, <1>5 DEF OneQuestion
<1>9. \A q \in Asked : WasShown(s, w, r, q) => WasShown(t, u, r + 1, q)
  <2> SUFFICES ASSUME NEW q \in Asked, WasShown(s, w, r, q), q # NoQuestion
               PROVE  q.n <= r + 1 /\ q.n # r + 1
    BY <1>2, <1>3, <1>4, <1>5 DEF WasShown
  <2>1. q.n \in Nat /\ q.n <= r /\ r \in Nat
    BY <1>0, BoundsAssumption DEF WasShown, Asked, Question
  <2> QED
    BY <2>1
<1>10. (\A v \in Op : s.win[v].q \in Asked) /\ \A i \in 1 .. Len(s.frames) : s.frames[i] \in Frame
  BY <1>0, AppFields
<1>11. Holders(t, u, r + 1)
  <2>1. \A i \in 1 .. Len(s.frames) : s.frames[i].q \in Asked
    BY <1>10, FrameFields
  <2> QED
    BY <1>3, <1>9, <1>10, <2>1 DEF FlowBase, Holders
<1>12. Messages(t, u)
  BY <1>2, <1>3, <1>6 DEF FlowBase, Messages
<1>13. FlowBase(t, u, r + 1)
  BY <1>1, <1>3, <1>4, <1>7, <1>8, <1>11, <1>12 DEF FlowBase
<1>14. HeldUnless(t, NoQuestion)
  BY <1>2, <1>3 DEF HeldUnless
<1>15. ASSUME StageInv(s, w),
              \A i \in 1 .. Len(s.frames) :
                 s.frames[i].kind = "refused" /\ s.frames[i].result = "link" =>
                    s.frames[i].q.n = r + 1
       PROVE  StageInv(t, u)
  <2>1. StageOfPhase(t, u)
    BY <1>2, <1>3, <1>4 DEF StageOfPhase
  <2>2. OneDialog(t)
    BY <1>3, <1>15 DEF StageInv, OneDialog
  <2>3. \A q : ~Live(s, q)
    BY <1>6 DEF Live
  <2>4. \A i \in 1 .. Len(s.frames) : s.frames[i].result # "link"
    <3> SUFFICES ASSUME NEW i \in 1 .. Len(s.frames), s.frames[i].result = "link"
                 PROVE  FALSE
      OBVIOUS
    <3>1. s.frames[i].kind = "refused" /\ s.frames[i].q.n = r + 1
      BY <1>15 DEF StageInv, DialogsOfRun
    <3>2. s.frames[i].q # NoQuestion /\ WasShown(s, w, r, s.frames[i].q)
      BY <3>1 DEF FlowBase, Holders, Credential
    <3>3. s.frames[i].q.n <= r /\ r \in Nat
      BY <1>0, <3>2, BoundsAssumption DEF WasShown
    <3> QED
      BY <3>1, <3>3
  <2>5. DialogsOfRun(t)
    BY <1>3, <1>15, <2>3, <2>4 DEF StageInv, DialogsOfRun
  <2> QED
    BY <2>1, <2>2, <2>5 DEF StageInv
<1> QED
  BY <1>3, <1>13, <1>14, <1>15

\* onWorkerDone: the worker has ended, its message was the last one, and no
\* window keeps a question the next operation could meet.
LEMMA EndedKeeps ==
    ASSUME NEW s, NEW w, NEW r, FlowBase(s, w, r),
           s.posted # <<>>, Head(s.posted) = "done",
           NEW p, p = [s EXCEPT !.posted = Tail(s.posted)],
           NEW u, u = [w EXCEPT !.pc = "off"]
    PROVE  /\ s.run # NoRun
           /\ FlowBase(Ended(p), u, r) /\ HeldUnless(Ended(p), NoQuestion)
           /\ StageInv(s, w) => StageInv(Ended(p), u)
<1> DEFINE c == Close(p, "backup")
           t == [c EXCEPT !.run = NoRun, !.stage = "finished"]
           e == Ended(p)
<1>0. s \in AppState /\ w \in WorkerState /\ r \in 0 .. MaxRuns /\ "backup" \in Op
  BY DEF FlowBase, Op
<1>1. /\ s.posted \in Seq({"question", "done"}) /\ Len(s.posted) \in Nat \ {0}
      /\ s.posted[1] = "done" /\ 1 \in 1 .. Len(s.posted)
  BY <1>0, AppFields
<1>2. w.pc = "over" /\ Len(s.posted) = 1
  BY <1>1 DEF FlowBase, Messages
<1>3. s.run # NoRun /\ w.asks \in 0 .. MaxAsks
  BY <1>0, <1>2 DEF FlowBase, RunOfWorker, WorkerState
<1>4. Tail(s.posted) = <<>> /\ Tail(s.posted) \in Seq({"question", "done"})
  <2>1. Tail(s.posted) \in Seq({"question", "done"})
    BY <1>1
  <2>2. Len(Tail(s.posted)) = 0
    BY <1>1, <1>2
  <2> QED
    BY <2>1, <2>2, EmptySeq
<1>5. /\ p \in AppState /\ p.run = s.run /\ p.stage = s.stage /\ p.win = s.win
      /\ p.frames = s.frames /\ p.posted = <<>>
  BY <1>0, <1>4 DEF AppState
<1>6. /\ c \in AppState /\ c.frames = p.frames /\ c.posted = p.posted
      /\ \A x \in Op : c.win[x].q \in {p.win[x].q, NoQuestion}
  <2>1. c \in AppState /\ c.frames = p.frames /\ c.posted = p.posted
    BY <1>0, <1>5, CloseFields
  <2>2. \A x \in Op : c.win[x].q \in {p.win[x].q, NoQuestion}
    BY <1>0, <1>5, CloseQuestions
  <2> QED
    BY <2>1, <2>2
<1> HIDE DEF c
<1>7. /\ t \in AppState /\ t.run = NoRun /\ t.stage = "finished" /\ t.frames = s.frames
      /\ t.posted = <<>> /\ \A x \in Op : t.win[x].q \in {s.win[x].q, NoQuestion}
  BY <1>5, <1>6 DEF AppState
<1>8. e = IF t.closing THEN [t EXCEPT !.up = FALSE]
          ELSE CASE t.op = "restore" /\ t.win["restore"].open -> RestoreDone(t)
                 [] t.op = "verify" /\ t.win["verify"].open   -> VerifyDone(t)
                 [] OTHER                                     -> t
  BY DEF Ended, c
<1> HIDE DEF e, t
<1>9. /\ e \in AppState /\ e.run = NoRun /\ e.stage \in {"finished", "idle"}
      /\ e.frames = s.frames /\ e.posted = <<>>
      /\ \A x \in Op : e.win[x].q \in {s.win[x].q, NoQuestion}
  <2>0. Shut.q = NoQuestion /\ "restore" \in Op /\ "verify" \in Op
    BY DEF Shut, Op
  <2>1. CASE e = [t EXCEPT !.up = FALSE]
    BY <1>7, <2>1 DEF AppState
  <2>2. CASE e = t
    BY <1>7, <2>2
  <2>3. CASE e = Close(t, "restore") \/ e = Close(t, "verify")
    <3>1. PICK v \in Op : e = Close(t, v)
      BY <2>0, <2>3
    <3>2. /\ Close(t, v) \in AppState /\ Close(t, v).run = t.run
          /\ Close(t, v).stage = t.stage /\ Close(t, v).frames = t.frames
          /\ Close(t, v).posted = t.posted
      BY <1>7, CloseFields
    <3>3. \A x \in Op : Close(t, v).win[x].q \in {t.win[x].q, NoQuestion}
      BY <1>7, CloseQuestions
    <3> QED
      BY <1>7, <3>1, <3>2, <3>3
  <2> DEFINE d == Dismissed(t)
  <2>4. /\ d \in AppState /\ d.run = NoRun /\ d.stage = "idle" /\ d.frames = t.frames
        /\ d.posted = <<>> /\ d.win = t.win
    BY <1>7, DismissedFields
  <2> HIDE DEF d
  <2>5. CASE e = [d EXCEPT !.win["verify"].q = NoQuestion]
    <3>1. /\ e \in AppState /\ e.run = d.run /\ e.stage = d.stage
          /\ e.posted = d.posted /\ e.frames = d.frames
          /\ \A x \in Op : x # "verify" => e.win[x] = d.win[x]
          /\ e.win["verify"].q = NoQuestion
      BY <2>0, <2>4, <2>5, ForgetFields
    <3>2. \A x \in Op : e.win[x].q \in {d.win[x].q, NoQuestion}
      BY <3>1
    <3> QED
      BY <1>7, <2>4, <3>1, <3>2
  <2>6. CASE e = [d EXCEPT !.win["restore"].starting = FALSE]
    <3> DEFINE a == [d.win["restore"] EXCEPT !.starting = FALSE]
               b == [d.win EXCEPT !["restore"] = a]
    <3>1. d.win \in [Op -> [open : BOOLEAN, q : Asked, starting : BOOLEAN]]
      BY <2>4, AppFields
    <3>2. /\ a \in [open : BOOLEAN, q : Asked, starting : BOOLEAN]
          /\ a.q = d.win["restore"].q
      BY <2>0, <3>1
    <3> HIDE DEF a
    <3>3. /\ b \in [Op -> [open : BOOLEAN, q : Asked, starting : BOOLEAN]]
          /\ \A x \in Op : b[x].q = d.win[x].q
      BY <2>0, <3>1, <3>2
    <3>4. e = [d EXCEPT !.win = b]
      BY <2>6 DEF a
    <3> HIDE DEF b
    <3> QED
      BY <1>7, <2>4, <3>3, <3>4 DEF AppState
  <2>7. \/ e = [t EXCEPT !.up = FALSE] \/ e = t
        \/ e = Close(t, "restore") \/ e = Close(t, "verify")
        \/ e = [d EXCEPT !.win["verify"].q = NoQuestion]
        \/ e = [d EXCEPT !.win["restore"].starting = FALSE]
    BY <1>8 DEF RestoreDone, VerifyDone, d
  <2> QED
    BY <2>1, <2>2, <2>3, <2>5, <2>6, <2>7
<1>10. u \in WorkerState /\ u.pc = "off"
  BY <1>0 DEF WorkerState
<1>11. \A q : WasShown(s, w, r, q) => WasShown(e, u, r, q)
  BY <1>9 DEF WasShown
<1>12. WasShown(e, u, r, NoQuestion)
  BY DEF WasShown
<1>13. Holders(e, u, r)
  BY <1>9, <1>11, <1>12 DEF FlowBase, Holders, Op
<1>14. RunOfWorker(e, u, r) /\ OneQuestion(e, u, r) /\ Messages(e, u)
  BY <1>9, <1>10 DEF RunOfWorker, OneQuestion, Messages
<1>15. FlowBase(e, u, r) /\ HeldUnless(e, NoQuestion)
  BY <1>0, <1>9, <1>10, <1>13, <1>14 DEF FlowBase, HeldUnless
<1>16. ASSUME StageInv(s, w) PROVE StageInv(e, u)
  <2>1. StageOfPhase(e, u)
    BY <1>9 DEF StageOfPhase
  <2>2. OneDialog(e)
    BY <1>9, <1>16 DEF StageInv, OneDialog
  <2>3. \A i \in 1 .. Len(s.frames) : ~(s.frames[i].kind = "refused" /\ s.frames[i].result = "open")
    <3>1. s.run.asked = NoQuestion
      BY <1>2, <1>3 DEF FlowBase, OneQuestion
    <3> QED
      BY <1>16, <3>1 DEF StageInv, DialogsOfRun, Live, FlowBase, Holders, Credential
  <2>4. DialogsOfRun(e)
    BY <1>9, <1>16, <2>3 DEF StageInv, DialogsOfRun
  <2> QED
    BY <2>1, <2>2, <2>4 DEF StageInv
<1> QED
  BY <1>3, <1>15, <1>16 DEF e

-----------------------------------------------------------------------------
(* The worker.                                                             *)

\* What a step of the worker from w to u keeps, with s turned into t.
WorkerKeeps(s, t, w, u, r) ==
    /\ FlowBase(t, u, r) /\ HeldUnless(t, NoQuestion)
    /\ StageInv(s, w) => StageInv(t, u)

\* A worker that runs has a run; while it works, it has no question.
LEMMA WorkerRuns ==
    ASSUME NEW s, NEW w, NEW r, FlowBase(s, w, r), w.pc # "off"
    PROVE  /\ s \in AppState /\ w \in WorkerState /\ r \in 0 .. MaxRuns
           /\ s.run # NoRun /\ s.run \in Bridge /\ s.run.n = r
           /\ w.pc \notin {"queued", "waiting"} =>
                /\ s.run.asked = NoQuestion /\ s.run.queue = <<>>
                /\ s.run.current = NoQuestion /\ s.run.reply = NoReply
           /\ w.pc \in {"queued", "waiting"} => s.run.asked # NoQuestion
<1>1. s \in AppState /\ w \in WorkerState /\ r \in 0 .. MaxRuns /\ s.run # NoRun
  BY DEF FlowBase, RunOfWorker
<1>2. s.run \in Bridge /\ s.run.n = r
  BY <1>1, AppFields DEF FlowBase, RunOfWorker
<1>3. OneQuestion(s, w, r)
  BY DEF FlowBase
<1> QED
  BY <1>1, <1>2, <1>3 DEF OneQuestion

\* The end of the workflow.
LEMMA WorkerEndsKeeps ==
    ASSUME NEW s, NEW w, NEW r, FlowBase(s, w, r), HeldUnless(s, NoQuestion),
           w.pc = "working",
           NEW u \in WorkerState, u.pc = "ended", u.phase = "none", u.asks = w.asks
    PROVE  WorkerKeeps(s, s, w, u, r)
<1>1. /\ s \in AppState /\ w \in WorkerState /\ r \in 0 .. MaxRuns /\ s.run # NoRun
      /\ s.run.asked = NoQuestion
  BY WorkerRuns
<1>2. u \in WorkerState /\ u.pc = "ended" /\ u.phase = "none" /\ u.asks = w.asks
  OBVIOUS
<1>3. RunOfWorker(s, u, r)
  BY <1>1, <1>2 DEF FlowBase, RunOfWorker
<1>4. OneQuestion(s, u, r)
  BY <1>1, <1>2 DEF FlowBase, OneQuestion
<1>5. Holders(s, u, r)
  BY <1>2 DEF FlowBase, Holders, WasShown
<1>6. Messages(s, u)
  BY <1>2 DEF FlowBase, Messages
<1>7. StageInv(s, w) => StageInv(s, u)
  BY <1>1, <1>2 DEF StageInv, StageOfPhase
<1> QED
  BY <1>1, <1>2, <1>3, <1>4, <1>5, <1>6, <1>7 DEF WorkerKeeps, FlowBase

\* A posted message changes nothing else.
LEMMA PostedFields ==
    ASSUME NEW s \in AppState, NEW m \in {"question", "done"},
           NEW t, t = [s EXCEPT !.posted = Append(s.posted, m)]
    PROVE  /\ t \in AppState /\ t.run = s.run /\ t.stage = s.stage /\ t.win = s.win
           /\ t.frames = s.frames
           /\ Len(s.posted) \in Nat /\ Len(t.posted) = Len(s.posted) + 1
           /\ t.posted[Len(s.posted) + 1] = m
           /\ \A i \in 1 .. Len(s.posted) : t.posted[i] = s.posted[i]
<1> DEFINE p == Append(s.posted, m)
<1>1. s.posted \in Seq({"question", "done"})
  BY AppFields
<1>2. /\ p \in Seq({"question", "done"}) /\ Len(s.posted) \in Nat
      /\ Len(p) = Len(s.posted) + 1 /\ p[Len(s.posted) + 1] = m
      /\ \A i \in 1 .. Len(s.posted) : p[i] = s.posted[i]
  BY <1>1
<1> HIDE DEF p
<1>3. t = [s EXCEPT !.posted = p]
  BY DEF p
<1>4. t \in AppState /\ t.posted = p
  BY <1>2, <1>3 DEF AppState
<1>5. t.run = s.run /\ t.stage = s.stage /\ t.win = s.win /\ t.frames = s.frames
  BY <1>3 DEF AppState
<1> QED
  BY <1>2, <1>4, <1>5

\* Announcing the question, and the end.
LEMMA PostKeeps ==
    ASSUME NEW s, NEW w, NEW r, FlowBase(s, w, r), HeldUnless(s, NoQuestion),
           NEW m \in {"question", "done"}, NEW pc,
           \/ m = "question" /\ w.pc = "queued" /\ pc = "waiting"
           \/ m = "done" /\ w.pc = "ended" /\ pc = "over",
           NEW t, t = [s EXCEPT !.posted = Append(s.posted, m)],
           NEW u, u = [w EXCEPT !.pc = pc]
    PROVE  WorkerKeeps(s, t, w, u, r)
<1>1. s \in AppState /\ w \in WorkerState /\ r \in 0 .. MaxRuns /\ s.run # NoRun
  BY WorkerRuns
<1>2. u \in WorkerState /\ u.pc = pc /\ u.phase = w.phase /\ u.asks = w.asks
  BY <1>1 DEF WorkerState
<1>3. /\ t \in AppState /\ t.run = s.run /\ t.stage = s.stage /\ t.win = s.win
      /\ t.frames = s.frames
  BY <1>1, PostedFields
<1>4. /\ Len(s.posted) \in Nat /\ Len(t.posted) = Len(s.posted) + 1
      /\ t.posted[Len(s.posted) + 1] = m
      /\ \A i \in 1 .. Len(s.posted) : t.posted[i] = s.posted[i]
  BY <1>1, PostedFields
<1>5. RunOfWorker(t, u, r)
  BY <1>1, <1>2, <1>3 DEF FlowBase, RunOfWorker
<1>6. OneQuestion(t, u, r)
  BY <1>1, <1>2, <1>3 DEF FlowBase, OneQuestion
<1>7. Holders(t, u, r)
  BY <1>2, <1>3 DEF FlowBase, Holders, WasShown
<1>8. Messages(t, u)
  <2>1. \A i \in 1 .. Len(s.posted) : s.posted[i] # "done"
    BY DEF FlowBase, Messages
  <2>2. \A i \in 1 .. Len(t.posted) : i \in 1 .. Len(s.posted) \/ i = Len(s.posted) + 1
    BY <1>4
  <2>3. Len(s.posted) + 1 \in 1 .. Len(t.posted)
    BY <1>4
  <2>4. \A i \in 1 .. Len(t.posted) : t.posted[i] = "done" => m = "done" /\ i = Len(t.posted)
    BY <1>4, <2>1, <2>2
  <2>5. u.pc = "waiting" => m = "question"
    BY <1>2
  <2> QED
    BY <1>2, <1>4, <2>3, <2>4, <2>5 DEF Messages
<1>9. HeldUnless(t, NoQuestion)
  BY <1>3 DEF HeldUnless, Held
<1>10. StageInv(s, w) => StageInv(t, u)
  BY <1>2, <1>3 DEF StageInv, StageOfPhase, OneDialog, DialogsOfRun, Live
<1> QED
  BY <1>1, <1>2, <1>3, <1>5, <1>6, <1>7, <1>8, <1>9, <1>10 DEF WorkerKeeps, FlowBase

\* Another bridge changes nothing else of the UI thread's state.
LEMMA BridgeChange ==
    ASSUME NEW s \in AppState, NEW b \in Bridge
    PROVE  LET t == [s EXCEPT !.run = b] IN
           /\ t \in AppState /\ t.run = b /\ t.run # NoRun /\ t.stage = s.stage
           /\ t.win = s.win /\ t.frames = s.frames /\ t.posted = s.posted
  BY ZeroValues DEF AppState

\* An answer is received once: the question is gone with it.
LEMMA ReplyKeeps ==
    ASSUME NEW s, NEW w, NEW r, FlowBase(s, w, r), HeldUnless(s, NoQuestion),
           w.pc = "waiting", s.run.reply # NoReply,
           NEW b, b = [s.run EXCEPT !.asked = NoQuestion, !.reply = NoReply],
           NEW t, t = [s EXCEPT !.run = b],
           NEW u, u = [pc |-> "working", asks |-> w.asks,
                       phase |-> PhaseAfter(s.run.asked.kind, s.run.reply)]
    PROVE  WorkerKeeps(s, t, w, u, r)
<1> DEFINE ph == PhaseAfter(s.run.asked.kind, s.run.reply)
<1>1. /\ s \in AppState /\ w \in WorkerState /\ r \in 0 .. MaxRuns /\ s.run # NoRun
      /\ s.run \in Bridge /\ s.run.n = r /\ s.run.asked # NoQuestion
  BY WorkerRuns
<1>2. /\ b \in Bridge /\ b.n = s.run.n /\ b.closed = s.run.closed
      /\ b.queue = s.run.queue /\ b.current = s.run.current
      /\ b.asked = NoQuestion /\ b.reply = NoReply
  BY <1>1 DEF Bridge, Asked
<1>3. t = [s EXCEPT !.run = b]
  OBVIOUS
<1>4. /\ t \in AppState /\ t.run = b /\ t.run # NoRun /\ t.stage = s.stage
      /\ t.win = s.win /\ t.frames = s.frames /\ t.posted = s.posted
  <2> DEFINE x == [s EXCEPT !.run = b]
  <2>1. /\ x \in AppState /\ x.run = b /\ x.run # NoRun /\ x.stage = s.stage
        /\ x.win = s.win /\ x.frames = s.frames /\ x.posted = s.posted
    BY <1>1, <1>2, BridgeChange
  <2>2. t = x
    BY <1>3
  <2> HIDE DEF x
  <2> QED
    BY <2>1, <2>2, Zenon
<1>5. s.run.queue = <<>> /\ s.run.current = NoQuestion
  BY <1>1 DEF FlowBase, OneQuestion
<1>6. ph \in {"plan", "confirm", "unlock", "leaving"}
  BY DEF PhaseAfter
<1>7. ph = "unlock" => s.run.asked.kind # "plan" /\ s.run.reply = "ok"
  BY DEF PhaseAfter
<1>8. u = [pc |-> "working", asks |-> w.asks, phase |-> ph]
  OBVIOUS
<1> HIDE DEF ph
<1>9. u \in WorkerState /\ u.pc = "working" /\ u.phase = ph /\ u.asks = w.asks
  BY <1>1, <1>6, <1>8 DEF WorkerState
<1>10. RunOfWorker(t, u, r)
  BY <1>1, <1>2, <1>4, <1>9 DEF FlowBase, RunOfWorker
<1>11. OneQuestion(t, u, r)
  BY <1>2, <1>4, <1>5, <1>9 DEF OneQuestion
<1>12. Holders(t, u, r)
  <2>1. \A q : WasShown(s, w, r, q) => WasShown(t, u, r, q)
    BY <1>1, <1>2, <1>4, <1>9 DEF WasShown
  <2> QED
    BY <1>4, <2>1 DEF FlowBase, Holders
<1>13. Messages(t, u)
  BY <1>4, <1>9 DEF FlowBase, Messages
<1>14. HeldUnless(t, NoQuestion)
  BY <1>2, <1>4, <1>5 DEF HeldUnless
<1>15. ASSUME StageInv(s, w) PROVE StageInv(t, u)
  <2>1. StageOfPhase(s, w) /\ OneDialog(s) /\ DialogsOfRun(s)
    BY <1>15 DEF StageInv
  <2>2. s.run.asked \in Question
    BY <1>1, BridgeFields DEF Asked
  <2>3. s.run.asked.kind \in Kind
    BY <2>2 DEF Question
  <2>4. ph = "unlock" => s.stage \in {"running", "cancelling"}
    BY <1>1, <1>7, <2>1, <2>3 DEF StageOfPhase, Kind, Credential
  <2>5. StageOfPhase(t, u)
    BY <1>2, <1>4, <1>9, <2>4 DEF StageOfPhase
  <2>6. OneDialog(t)
    BY <1>4, <2>1 DEF OneDialog
  <2>7. \A q : ~Live(s, q)
    BY DEF Live
  <2>8. DialogsOfRun(t)
    BY <1>4, <2>1, <2>7 DEF DialogsOfRun
  <2> QED
    BY <2>5, <2>6, <2>8 DEF StageInv
<1> QED
  BY <1>1, <1>4, <1>9, <1>10, <1>11, <1>12, <1>13, <1>14, <1>15 DEF WorkerKeeps, FlowBase

\* Bridge.Ask with a closed bridge: the answer is there at once.
LEMMA AskClosedKeeps ==
    ASSUME NEW s, NEW w, NEW r, FlowBase(s, w, r), HeldUnless(s, NoQuestion),
           w.pc = "working", w.asks < MaxAsks, NEW kind \in Kind,
           NEW u, u = [pc |-> "working", asks |-> w.asks + 1,
                       phase |-> PhaseAfter(kind, "cancel")]
    PROVE  WorkerKeeps(s, s, w, u, r)
<1> DEFINE ph == PhaseAfter(kind, "cancel")
<1>1. /\ s \in AppState /\ w \in WorkerState /\ r \in 0 .. MaxRuns /\ s.run # NoRun
      /\ s.run.asked = NoQuestion
  BY WorkerRuns
<1>2. w.asks \in Nat /\ w.asks + 1 \in 0 .. MaxAsks
  BY <1>1, BoundsAssumption DEF WorkerState
<1>3. ph \in {"confirm", "leaving"}
  BY DEF PhaseAfter
<1> HIDE DEF ph
<1>4. u \in WorkerState /\ u.pc = "working" /\ u.phase = ph /\ u.asks = w.asks + 1
  BY <1>1, <1>2, <1>3 DEF WorkerState, ph
<1>5. RunOfWorker(s, u, r) /\ OneQuestion(s, u, r) /\ Messages(s, u)
  BY <1>1, <1>4 DEF FlowBase, RunOfWorker, OneQuestion, Messages
<1>6. \A q \in Asked : WasShown(s, w, r, q) => WasShown(s, u, r, q)
  <2> SUFFICES ASSUME NEW q \in Asked, WasShown(s, w, r, q), q # NoQuestion, q.n = r
               PROVE  q.k <= w.asks + 1
    BY <1>1, <1>4 DEF WasShown
  <2>1. q.k \in Nat /\ q.k <= w.asks
    BY <1>1, BoundsAssumption DEF WasShown, Asked, Question
  <2> QED
    BY <1>2, <2>1
<1>7. Holders(s, u, r)
  <2>1. (\A v \in Op : s.win[v].q \in Asked) /\ \A i \in 1 .. Len(s.frames) : s.frames[i] \in Frame
    BY <1>1, AppFields
  <2>2. \A i \in 1 .. Len(s.frames) : s.frames[i].q \in Asked
    BY <2>1, FrameFields
  <2> QED
    BY <1>6, <2>1, <2>2 DEF FlowBase, Holders
<1>8. StageInv(s, w) => StageInv(s, u)
  BY <1>1, <1>3, <1>4 DEF StageInv, StageOfPhase
<1> QED
  BY <1>1, <1>4, <1>5, <1>7, <1>8 DEF WorkerKeeps, FlowBase

\* Bridge.Ask: the new question is none that a window or a dialog holds.
LEMMA AskKeeps ==
    ASSUME NEW s, NEW w, NEW r, FlowBase(s, w, r), HeldUnless(s, NoQuestion),
           w.pc = "working", w.asks < MaxAsks, ~s.run.closed, NEW kind \in Kind,
           kind = "start" => w.phase = "confirm",
           kind \in Credential <=> w.phase = "unlock",
           NEW q, q = [n |-> s.run.n, k |-> w.asks + 1, kind |-> kind],
           NEW b, b = [s.run EXCEPT !.queue = Append(s.run.queue, q), !.asked = q],
           NEW t, t = [s EXCEPT !.run = b],
           NEW u, u = [pc |-> "queued", asks |-> w.asks + 1, phase |-> w.phase]
    PROVE  WorkerKeeps(s, t, w, u, r)
<1>1. /\ s \in AppState /\ w \in WorkerState /\ r \in 0 .. MaxRuns /\ s.run # NoRun
      /\ s.run \in Bridge /\ s.run.n = r
      /\ s.run.asked = NoQuestion /\ s.run.queue = <<>>
      /\ s.run.current = NoQuestion /\ s.run.reply = NoReply
  BY WorkerRuns
<1>2. w.asks \in Nat /\ w.asks + 1 \in 0 .. MaxAsks /\ w.asks + 1 \in 1 .. MaxAsks
  BY <1>1, BoundsAssumption DEF WorkerState
<1>3. /\ q \in Question /\ q # NoQuestion /\ q.n = r /\ q.k = w.asks + 1 /\ q.kind = kind
  <2>1. s.run.n \in 1 .. MaxRuns
    BY <1>1, BridgeFields
  <2>2. q \in Question /\ q.n = r /\ q.k = w.asks + 1 /\ q.kind = kind
    BY <1>1, <1>2, <2>1 DEF Question
  <2> QED
    BY <2>2, ZeroValues
<1>4. Append(s.run.queue, q) = <<q>> /\ <<q>> \in Seq(Question)
  BY <1>1, <1>3
<1>5. /\ b \in Bridge /\ b.n = s.run.n /\ b.closed = s.run.closed
      /\ b.queue = <<q>> /\ b.current = s.run.current
      /\ b.asked = q /\ b.reply = s.run.reply
  BY <1>1, <1>3, <1>4 DEF Bridge, Asked
<1>6. t = [s EXCEPT !.run = b]
  OBVIOUS
<1>7. /\ t \in AppState /\ t.run = b /\ t.run # NoRun /\ t.stage = s.stage
      /\ t.win = s.win /\ t.frames = s.frames /\ t.posted = s.posted
  <2> DEFINE x == [s EXCEPT !.run = b]
  <2>1. /\ x \in AppState /\ x.run = b /\ x.run # NoRun /\ x.stage = s.stage
        /\ x.win = s.win /\ x.frames = s.frames /\ x.posted = s.posted
    BY <1>1, <1>5, BridgeChange
  <2>2. t = x
    BY <1>6
  <2> HIDE DEF x
  <2> QED
    BY <2>1, <2>2, Zenon
<1>8. u \in WorkerState /\ u.pc = "queued" /\ u.phase = w.phase /\ u.asks = w.asks + 1
  BY <1>1, <1>2 DEF WorkerState
<1>9. RunOfWorker(t, u, r)
  BY <1>1, <1>5, <1>7, <1>8 DEF FlowBase, RunOfWorker
<1>10. OneQuestion(t, u, r)
  <2> HIDE DEF NoQuestion
  <2> QED
    BY <1>1, <1>3, <1>5, <1>7, <1>8 DEF OneQuestion
<1>11. \A h \in Asked : WasShown(s, w, r, h) => WasShown(t, u, r, h)
  <2> SUFFICES ASSUME NEW h \in Asked, WasShown(s, w, r, h), h # NoQuestion
               PROVE  (h.n = r => h.k <= w.asks + 1) /\ h # q
    <3>1. t.run.asked = q /\ u.asks = w.asks + 1
      BY <1>5, <1>7, <1>8
    <3> QED
      BY <3>1, Zenon DEF WasShown
  <2>1. h.k \in Nat /\ (h.n = r => h.k <= w.asks)
    BY <1>1, BoundsAssumption DEF WasShown, Asked, Question
  <2> QED
    BY <1>2, <1>3, <2>1
<1>12. Holders(t, u, r)
  <2>1. (\A v \in Op : s.win[v].q \in Asked) /\ \A i \in 1 .. Len(s.frames) : s.frames[i] \in Frame
    BY <1>1, AppFields
  <2>2. \A i \in 1 .. Len(s.frames) : s.frames[i].q \in Asked
    BY <2>1, FrameFields
  <2> QED
    BY <1>7, <1>11, <2>1, <2>2 DEF FlowBase, Holders
<1>13. Messages(t, u)
  BY <1>7, <1>8 DEF FlowBase, Messages
<1>14. HeldUnless(t, NoQuestion)
  BY <1>1, <1>5, <1>7 DEF HeldUnless
<1>15. ASSUME StageInv(s, w) PROVE StageInv(t, u)
  <2>1. StageOfPhase(s, w) /\ OneDialog(s) /\ DialogsOfRun(s)
    BY <1>15 DEF StageInv
  <2>2. w.phase = "unlock" => s.stage \in {"running", "cancelling"}
    BY <1>1, <2>1 DEF StageOfPhase
  <2>3. StageOfPhase(t, u)
    <3>1. /\ t.run.asked = q /\ t.run.reply = NoReply /\ NoReply # "ok"
          /\ u.phase = w.phase /\ t.stage = s.stage
      BY <1>1, <1>5, <1>7, <1>8 DEF NoReply
    <3> QED
      BY <1>3, <2>2, <3>1, Zenon DEF StageOfPhase
  <2>4. OneDialog(t)
    BY <1>7, <2>1 DEF OneDialog
  <2>5. \A i \in 1 .. Len(s.frames) :
           s.frames[i].kind = "refused" => s.frames[i].q # NoQuestion
    BY DEF FlowBase, Holders, Credential
  <2>6. \A i \in 1 .. Len(s.frames) :
           s.frames[i].kind = "refused" => ~Live(s, s.frames[i].q)
    BY <1>1, <2>5 DEF Live
  <2>7. DialogsOfRun(t)
    BY <1>7, <2>1, <2>6 DEF DialogsOfRun
  <2> QED
    BY <2>3, <2>4, <2>7 DEF StageInv
<1> QED
  BY <1>1, <1>7, <1>8, <1>9, <1>10, <1>12, <1>13, <1>14, <1>15 DEF WorkerKeeps, FlowBase

-----------------------------------------------------------------------------
(* The steps.                                                              *)

\* What every step keeps; the facts of the stage as long as no dialog with a
\* chosen link outlives its operation.
StepKeeps ==
    /\ FlowInv'
    /\ StageInv(app, worker) /\ NoOldLink' => StageInv(app, worker)'

\* A handler of the UI thread, and a step of the worker.
LEMMA StepOfHandler ==
    ASSUME UNCHANGED <<worker, runs>>, Keeps(app, app', worker, runs)
    PROVE  StepKeeps
  BY DEF StepKeeps, Keeps, FlowInv

\* A step of the worker alone.
LEMMA StepOfWorker ==
    ASSUME UNCHANGED runs, WorkerKeeps(app, app', worker, worker', runs)
    PROVE  StepKeeps
  BY DEF StepKeeps, WorkerKeeps, FlowInv

\* startOperation
LEMMA StepOfStart ==
    ASSUME FlowInv, NEW s, NEW op \in Op, NewWorker,
           s.stage \notin {"planning", "running", "cancelling"},
           FlowBase(s, worker, runs), StageInv(app, worker) => StageInv(s, worker),
           s.frames = app.frames, app' \in {Started(s, op), Open(Started(s, op), op)}
    PROVE  StepKeeps
<1> DEFINE t == Started(s, op)
           u == [pc |-> "working", phase |-> "plan", asks |-> 0]
<1>1. runs < MaxRuns /\ runs' = runs + 1 /\ worker' = u
  BY DEF NewWorker
<1>2. /\ t \in AppState /\ t.run = NewBridge(runs + 1) /\ t.stage = "planning"
      /\ t.frames = s.frames /\ t.win = s.win /\ t.posted = s.posted
  <2> DEFINE b == NewBridge(runs + 1)
  <2>1. s \in AppState /\ runs \in 0 .. MaxRuns
    BY DEF FlowBase
  <2>2. runs + 1 \in 1 .. MaxRuns
    BY <1>1, <2>1, BoundsAssumption
  <2>3. b \in Bridge
    BY <2>2, NewBridgeFields
  <2>4. t = [s EXCEPT !.stage = "planning", !.op = op, !.started = FALSE,
                      !.closing = FALSE, !.run = b]
    BY DEF Started
  <2> HIDE DEF b, t
  <2>5. t \in AppState
    BY <2>1, <2>3, <2>4 DEF AppState
  <2>6. /\ t.run = b /\ t.stage = "planning"
        /\ t.frames = s.frames /\ t.win = s.win /\ t.posted = s.posted
    BY <2>1, <2>4 DEF AppState
  <2> QED
    BY <2>5, <2>6 DEF b
<1>3. /\ FlowBase(t, u, runs + 1) /\ HeldUnless(t, NoQuestion) /\ t.frames = s.frames
      /\ /\ StageInv(s, worker)
         /\ \A i \in 1 .. Len(s.frames) :
               s.frames[i].kind = "refused" /\ s.frames[i].result = "link" =>
                  s.frames[i].q.n = runs + 1
         => StageInv(t, u)
  <2>1. u \in WorkerState /\ u.pc = "working" /\ u.phase = "plan" /\ u.asks = 0
    BY BoundsAssumption DEF WorkerState
  <2> HIDE DEF t, u
  <2> QED
    BY <1>1, <1>2, <2>1, StartedKeeps
<1> HIDE DEF t, u
<1>4. app' \in {t, Open(t, op)}
  BY DEF t
<1>5. /\ FlowBase(app', u, runs + 1) /\ HeldUnless(app', NoQuestion)
      /\ app'.frames = s.frames
      /\ StageInv(t, u) => StageInv(app', u)
  <2>1. CASE app' = t
    BY <1>3, <2>1
  <2>2. CASE app' = Open(t, op)
    <3>1. FlowBase(Open(t, op), u, runs + 1) /\ HeldUnless(Open(t, op), NoQuestion)
      BY <1>3, OpenKeeps
    <3>2. Open(t, op).frames = t.frames
      BY <1>2, OpenFields
    <3>3. StageInv(t, u) => StageInv(Open(t, op), u)
      BY <1>2, OpenStage
    <3> QED
      BY <1>3, <2>2, <3>1, <3>2, <3>3
  <2> QED
    BY <1>4, <2>1, <2>2
<1>6. FlowInv'
  BY <1>1, <1>5 DEF FlowInv
<1>7. NoOldLink' => \A i \in 1 .. Len(s.frames) :
               s.frames[i].kind = "refused" /\ s.frames[i].result = "link" =>
                  s.frames[i].q.n = runs + 1
  BY <1>1, <1>5 DEF NoOldLink
<1> QED
  BY <1>1, <1>3, <1>5, <1>6, <1>7 DEF StepKeeps

\* Start of the Restore window changes that window alone.
LEMMA StartingKeeps ==
    ASSUME NEW s, NEW w, NEW r, FlowBase(s, w, r), HeldUnless(s, NoQuestion)
    PROVE  LET t == [s EXCEPT !.win["restore"].starting = TRUE] IN
           Keeps(s, t, w, r) /\ t.frames = s.frames /\ t.stage = s.stage
<1> DEFINE a == [s.win["restore"] EXCEPT !.starting = TRUE]
           b == [s.win EXCEPT !["restore"] = a]
           t == [s EXCEPT !.win = b]
<1>0. s \in AppState /\ "restore" \in Op
  BY DEF FlowBase, Op
<1>1. s.win \in [Op -> [open : BOOLEAN, q : Asked, starting : BOOLEAN]]
  BY <1>0, AppFields
<1>2. /\ a \in [open : BOOLEAN, q : Asked, starting : BOOLEAN]
      /\ a.q = s.win["restore"].q /\ a.open = s.win["restore"].open
  BY <1>0, <1>1
<1> HIDE DEF a
<1>3. /\ b \in [Op -> [open : BOOLEAN, q : Asked, starting : BOOLEAN]]
      /\ \A x \in Op : b[x].q = s.win[x].q /\ b[x].open = s.win[x].open
  BY <1>0, <1>1, <1>2
<1> HIDE DEF b
<1>4. /\ t \in AppState /\ t.run = s.run /\ t.stage = s.stage /\ t.posted = s.posted
      /\ t.frames = s.frames /\ t.win = b
  BY <1>0, <1>3 DEF AppState
<1> HIDE DEF t
<1>5. Alike(s, t)
  BY <1>3, <1>4 DEF Alike
<1>6. FlowBase(t, w, r)
  BY <1>4, <1>5, AlikeBase
<1>7. \A v \in Op : s.win[v].open /\ s.win[v].q \notin {NoQuestion, NoQuestion} =>
                       t.win[v].open /\ t.win[v].q = s.win[v].q
  BY <1>3, <1>4
<1>8. HeldUnless(t, NoQuestion)
  BY <1>5, <1>7, AlikeHeld
<1>9. StageInv(s, w) => StageInv(t, w)
  BY <1>4, SameStage
<1> QED
  BY <1>4, <1>6, <1>8, <1>9 DEF Keeps, t, b, a

\* A state that differs in whether the window is up or closing is asked for.
LEMMA FlagsKeep ==
    ASSUME NEW s, NEW w, NEW r, FlowBase(s, w, r), HeldUnless(s, NoQuestion),
           NEW t \in {[s EXCEPT !.up = FALSE], [s EXCEPT !.closing = TRUE]}
    PROVE  Keeps(s, t, w, r)
<1>1. s \in AppState
  BY DEF FlowBase
<1>2. /\ t \in AppState /\ t.run = s.run /\ t.stage = s.stage /\ t.posted = s.posted
      /\ t.frames = s.frames /\ t.win = s.win
  BY <1>1 DEF AppState
<1>3. Alike(s, t)
  BY <1>2 DEF Alike
<1>4. FlowBase(t, w, r)
  BY <1>2, <1>3, AlikeBase
<1>5. HeldUnless(t, NoQuestion)
  BY <1>2, <1>3, AlikeHeld
<1>6. StageInv(s, w) => StageInv(t, w)
  BY <1>2, SameStage
<1> QED
  BY <1>4, <1>5, <1>6 DEF Keeps

\* One handler after another.
LEMMA KeepsChain ==
    ASSUME NEW s, NEW t, NEW u, NEW w, NEW r, Keeps(s, t, w, r), Keeps(t, u, w, r)
    PROVE  Keeps(s, u, w, r)
  BY DEF Keeps

\* cancelRun, and closing a window that holds no question.
LEMMA CancelKeeps ==
    ASSUME NEW s, NEW w, NEW r, FlowBase(s, w, r), HeldUnless(s, NoQuestion)
    PROVE  /\ Keeps(s, CancelRun(s), w, r)
           /\ \A v \in Op : s.win[v].q = NoQuestion => Keeps(s, Close(s, v), w, r)
<1>1. s \in AppState
  BY DEF FlowBase
<1>2. Keeps(s, CancelRun(s), w, r)
  BY CancelRunKeeps DEF Keeps
<1>3. ASSUME NEW v \in Op, s.win[v].q = NoQuestion PROVE Keeps(s, Close(s, v), w, r)
  <2>1. FlowBase(Close(s, v), w, r) /\ HeldUnless(Close(s, v), NoQuestion)
    BY <1>3, CloseKeeps
  <2>2. StageInv(s, w) => StageInv(Close(s, v), w)
    BY <1>1, CloseStage
  <2> QED
    BY <2>1, <2>2 DEF Keeps
<1> QED
  BY <1>2, <1>3

\* One step per action.
LEMMA NextKeeps ==
    ASSUME FlowInv, Next
    PROVE  StepKeeps
<1>0. /\ FlowBase(app, worker, runs) /\ HeldUnless(app, NoQuestion)
      /\ app \in AppState /\ worker \in WorkerState /\ runs \in 0 .. MaxRuns
      /\ {"backup", "verify", "restore"} \subseteq Op /\ Op \subseteq Window /\ "main" \in Window
  BY DEF FlowInv, FlowBase, Op, Window
<1>1. ASSUME NEW op \in {"backup", "verify"}, StartOperation(op) PROVE StepKeeps
  BY <1>0, <1>1, StepOfStart DEF StartOperation, Busy
<1>2. ASSUME OpenRestore PROVE StepKeeps
  <2>1. FlowBase(app', worker, runs) /\ HeldUnless(app', NoQuestion)
    BY <1>0, <1>2, OpenKeeps DEF OpenRestore
  <2>2. StageInv(app, worker) => StageInv(app', worker)
    BY <1>0, <1>2, OpenStage DEF OpenRestore
  <2> QED
    BY <1>2, <2>1, <2>2, StepOfHandler DEF OpenRestore, Keeps
<1>3. ASSUME StartRestore PROVE StepKeeps
  <2> DEFINE s == [app EXCEPT !.win["restore"].starting = TRUE]
  <2>1. Keeps(app, s, worker, runs) /\ s.frames = app.frames /\ s.stage = app.stage
    BY <1>0, StartingKeeps
  <2>2. \/ app' = s /\ UNCHANGED <<worker, runs>>
        \/ ~Busy /\ app' = Started(s, "restore") /\ NewWorker
    BY <1>3 DEF StartRestore
  <2> HIDE DEF s
  <2>3. CASE app' = s /\ UNCHANGED <<worker, runs>>
    BY <2>1, <2>3, StepOfHandler
  <2>4. CASE ~Busy /\ app' = Started(s, "restore") /\ NewWorker
    <3>1. s.stage \notin {"planning", "running", "cancelling"}
      BY <2>1, <2>4 DEF Busy
    <3> QED
      BY <1>0, <2>1, <2>4, <3>1, StepOfStart DEF Keeps
  <2> QED
    BY <2>2, <2>3, <2>4
<1>4. ASSUME RestoreCancel PROVE StepKeeps
  <2> DEFINE s == IF app.win["restore"].starting THEN CancelRun(app) ELSE app
  <2>1. Keeps(app, s, worker, runs)
    BY <1>0, CancelKeeps DEF Keeps
  <2>2. app' = Close(s, "restore") /\ UNCHANGED <<worker, runs>>
    BY <1>4 DEF RestoreCancel
  <2> HIDE DEF s
  <2>3. s.win["restore"].q = NoQuestion /\ FlowBase(s, worker, runs) /\ HeldUnless(s, NoQuestion)
    BY <2>1 DEF Keeps, FlowBase, Holders
  <2>4. Keeps(s, Close(s, "restore"), worker, runs)
    BY <1>0, <2>3, CancelKeeps
  <2> QED
    BY <2>1, <2>2, <2>4, KeepsChain, StepOfHandler
<1>5. ASSUME NEW v \in {"backup", "verify"}, PressStart(v) PROVE StepKeeps
  <2>1. Keeps(app, app', worker, runs)
    BY <1>0, <1>5, StartKeeps DEF PressStart
  <2> QED
    BY <1>5, <2>1, StepOfHandler DEF PressStart
<1>6. ASSUME NEW v \in {"backup", "verify"}, PressCancel(v) PROVE StepKeeps
  <2>1. CASE app.win[v].q # NoQuestion
    <3>1. app' = Answered(Close(app, v), app.win[v].q, "cancel") /\ UNCHANGED <<worker, runs>>
      BY <1>6, <2>1 DEF PressCancel
    <3>2. Keeps(app, app', worker, runs)
      BY <1>0, <2>1, <3>1, CancelWindowKeeps
    <3> QED
      BY <3>1, <3>2, StepOfHandler
  <2>2. CASE app.win[v].q = NoQuestion
    <3> DEFINE s == Close(app, v)
    <3>1. Keeps(app, s, worker, runs)
      BY <1>0, <2>2, CancelKeeps
    <3>2. app' = CancelRun(s) /\ UNCHANGED <<worker, runs>>
      BY <1>6, <2>2 DEF PressCancel
    <3> HIDE DEF s
    <3>3. Keeps(s, CancelRun(s), worker, runs)
      BY <3>1, CancelKeeps DEF Keeps
    <3> QED
      BY <3>1, <3>2, <3>3, KeepsChain, StepOfHandler
  <2> QED
    BY <2>1, <2>2
<1>7. ASSUME PressFull PROVE StepKeeps
  <2> DEFINE q == app.win["backup"].q
  <2>1. /\ q \in Question /\ WasShown(app, worker, runs, q) /\ q.kind = "start"
    BY <1>0, <1>7, AppFields DEF PressFull, FlowBase, Holders, Asked
  <2>2. /\ app' = Answered([app EXCEPT !.win["backup"].q = NoQuestion], q, "other")
        /\ UNCHANGED <<worker, runs>>
    BY <1>7 DEF PressFull
  <2>3. Keeps(app, Answered([app EXCEPT !.win["backup"].q = NoQuestion], q, "other"), worker, runs)
    BY <1>0, <2>1, OtherPlanKeeps
  <2> QED
    BY <2>2, <2>3, StepOfHandler
<1>8. ASSUME PressNewKeys PROVE StepKeeps
  <2> DEFINE q == app.win["backup"].q
  <2>1. /\ q \in Question /\ WasShown(app, worker, runs, q) /\ q.kind = "start" /\ q # NoQuestion
    BY <1>0, <1>8, AppFields DEF PressNewKeys, FlowBase, Holders, Asked
  <2>2. /\ app' = Push(app, "newkeys", q, "backup")
        /\ UNCHANGED <<worker, runs>>
    BY <1>8 DEF PressNewKeys
  <2> HIDE DEF q
  <2>3. q \in Asked /\ "newkeys" \notin Credential /\ "backup" \in Window
    BY <1>0, <2>1 DEF Asked, Credential
  <2>4. FlowBase(app', worker, runs) /\ HeldUnless(app', NoQuestion)
    BY <1>0, <2>1, <2>2, <2>3, PushKeeps
  <2>5. StageInv(app, worker) => StageInv(app', worker)
    BY <1>0, <2>2, <2>3, PushStage
  <2> QED
    BY <2>2, <2>4, <2>5, StepOfHandler DEF Keeps
<1>9. ASSUME NEW kind \in {"cancel", "close"}, NEW o \in Window,
             app' = Push(app, kind, NoQuestion, o), UNCHANGED <<worker, runs>>
      PROVE  StepKeeps
  <2>1. NoQuestion \in Asked /\ kind \notin Credential /\ kind # "newkeys" /\ kind # "refused"
    BY DEF Asked, Credential
  <2>2. WasShown(app, worker, runs, NoQuestion)
    BY DEF WasShown
  <2>3. FlowBase(app', worker, runs) /\ HeldUnless(app', NoQuestion)
    BY <1>0, <1>9, <2>1, <2>2, PushKeeps
  <2>4. StageInv(app, worker) => StageInv(app', worker)
    BY <1>0, <1>9, <2>1, PushStage
  <2> QED
    BY <1>9, <2>3, <2>4, StepOfHandler DEF Keeps
<1>10. ASSUME ConfirmCancel PROVE StepKeeps
  <2>1. CASE app' = CancelRun(app)
    BY <1>0, <1>10, <2>1, CancelKeeps, StepOfHandler DEF ConfirmCancel
  <2>2. CASE app' = Push(app, "cancel", NoQuestion, DialogOwner(app))
    <3>1. DialogOwner(app) \in Window
      BY DEF DialogOwner, Window, Op
    <3> QED
      BY <1>9, <1>10, <2>2, <3>1 DEF ConfirmCancel
  <2> QED
    BY <1>10, <2>1, <2>2 DEF ConfirmCancel
<1>11. ASSUME OnClose PROVE StepKeeps
  <2>1. CASE app' = [app EXCEPT !.up = FALSE]
    BY <1>0, <1>11, <2>1, FlagsKeep, StepOfHandler DEF OnClose
  <2>2. CASE app' = CancelRun([app EXCEPT !.closing = TRUE])
    <3> DEFINE s == [app EXCEPT !.closing = TRUE]
    <3>1. Keeps(app, s, worker, runs)
      BY <1>0, FlagsKeep
    <3> HIDE DEF s
    <3>2. Keeps(s, CancelRun(s), worker, runs)
      BY <3>1, CancelKeeps DEF Keeps
    <3>3. app' = CancelRun(s) /\ UNCHANGED <<worker, runs>>
      BY <1>11, <2>2 DEF OnClose, s
    <3> QED
      BY <3>1, <3>2, <3>3, KeepsChain, StepOfHandler
  <2>3. CASE app' = Push(app, "close", NoQuestion, "main")
    BY <1>0, <1>9, <1>11, <2>3 DEF OnClose
  <2> QED
    BY <1>11, <2>1, <2>2, <2>3 DEF OnClose
<1>12. ASSUME OnQueryEndSession PROVE StepKeeps
  <2> DEFINE s == CloseConfirmed(app)
  <2>1. FlowBase(s, worker, runs) /\ HeldUnless(s, NoQuestion)
    BY <1>0, MachineKeeps
  <2>2. StageInv(app, worker) => StageInv(s, worker)
    <3>1. s.run = app.run /\ s.frames = app.frames
      BY <1>0, MachineFields
    <3>2. s.stage = app.stage
      BY <1>0, MachineStages
    <3> QED
      BY <3>1, <3>2, SameStage
  <2>3. app' = CancelRun(s) /\ UNCHANGED <<worker, runs>>
    BY <1>12 DEF OnQueryEndSession
  <2> HIDE DEF s
  <2>4. Keeps(s, CancelRun(s), worker, runs)
    BY <2>1, CancelKeeps
  <2> QED
    BY <2>1, <2>2, <2>3, <2>4, StepOfHandler DEF Keeps
<1>13. ASSUME OnEndSession PROVE StepKeeps
  <2> DEFINE s == CancelRun(app)
  <2>1. Keeps(app, s, worker, runs)
    BY <1>0, CancelKeeps
  <2>2. app' = [s EXCEPT !.up = FALSE] /\ UNCHANGED <<worker, runs>>
    BY <1>13 DEF OnEndSession
  <2> HIDE DEF s
  <2>3. Keeps(s, [s EXCEPT !.up = FALSE], worker, runs)
    BY <2>1, FlagsKeep DEF Keeps
  <2> QED
    BY <2>1, <2>2, <2>3, KeepsChain, StepOfHandler
<1>14. ASSUME Dismiss PROVE StepKeeps
  <2> DEFINE t == Dismissed(app)
  <2>1. /\ t \in AppState /\ t.run = app.run /\ t.posted = app.posted
        /\ t.win = app.win /\ t.frames = app.frames /\ t.stage = "idle"
    BY <1>0, <1>14, DismissedFields DEF Dismiss
  <2>2. app' = t /\ UNCHANGED <<worker, runs>> /\ app.stage = "finished"
    BY <1>14 DEF Dismiss
  <2> HIDE DEF t
  <2>3. Alike(app, t)
    BY <2>1, <2>2 DEF Alike
  <2>4. FlowBase(t, worker, runs)
    BY <1>0, <2>1, <2>3, AlikeBase
  <2>5. HeldUnless(t, NoQuestion)
    BY <1>0, <2>1, <2>3, AlikeHeld
  <2>6. StageInv(app, worker) => StageInv(t, worker)
    <3>1. app.run = NoRun
      BY <1>0, <2>2 DEF FlowBase, RunOfWorker
    <3> QED
      BY <2>1, <3>1 DEF StageInv, StageOfPhase, OneDialog, DialogsOfRun, Live
  <2> QED
    BY <2>2, <2>4, <2>5, <2>6, StepOfHandler DEF Keeps
<1>15. ASSUME AnswerDialog PROVE StepKeeps
  <2>1. PICK i \in 1 .. Len(app.frames) :
           /\ app.frames[i].result = "open"
           /\ \E v \in {"yes", "no", "link"} :
                  /\ v = "link" => app.frames[i].kind = "refused"
                  /\ app' = [app EXCEPT !.frames[i].result = v]
    BY <1>15 DEF AnswerDialog
  <2>2. PICK v \in {"yes", "no", "link"} :
           /\ v = "link" => app.frames[i].kind = "refused"
           /\ app' = [app EXCEPT !.frames[i].result = v]
    BY <2>1
  <2>3. Keeps(app, [app EXCEPT !.frames[i].result = v], worker, runs)
    BY <1>0, <2>1, <2>2, AnswerDialogKeeps
  <2> QED
    BY <1>15, <2>2, <2>3, StepOfHandler DEF AnswerDialog
<1>16. ASSUME Return PROVE StepKeeps
  <2>1. Keeps(app, app', worker, runs)
    BY <1>0, <1>16, ReturnKeeps DEF Return
  <2> QED
    BY <1>16, <2>1, StepOfHandler DEF Return
<1>17. ASSUME QuestionMessage PROVE StepKeeps
  <2>1. Keeps(app, app', worker, runs)
    BY <1>0, <1>17, QuestionMessageKeeps DEF QuestionMessage
  <2> QED
    BY <1>17, <2>1, StepOfHandler DEF QuestionMessage
<1>18. ASSUME OnWorkerDone PROVE StepKeeps
  <2> DEFINE p == [app EXCEPT !.posted = Tail(app.posted)]
             u == [worker EXCEPT !.pc = "off"]
  <2>1. app.posted # <<>> /\ Head(app.posted) = "done" /\ runs' = runs
    BY <1>18 DEF OnWorkerDone
  <2>2. /\ app.run # NoRun
        /\ FlowBase(Ended(p), u, runs) /\ HeldUnless(Ended(p), NoQuestion)
        /\ StageInv(app, worker) => StageInv(Ended(p), u)
    BY <1>0, <2>1, EndedKeeps
  <2>3. p.run = app.run
    BY <1>0 DEF AppState
  <2>4. app' = Ended(p) /\ worker' = u
    BY <1>18, <2>2, <2>3 DEF OnWorkerDone
  <2> HIDE DEF p, u
  <2> QED
    BY <2>1, <2>2, <2>4, StepOfWorker DEF WorkerKeeps
<1>19. ASSUME Ask PROVE StepKeeps
  <2>1. worker.pc = "working" /\ worker.asks < MaxAsks /\ runs' = runs
    BY <1>19 DEF Ask
  <2> DEFINE Q(kind) == [n |-> app.run.n, k |-> worker.asks + 1, kind |-> kind]
             B(kind) == [app.run EXCEPT !.queue = Append(app.run.queue, Q(kind)),
                                        !.asked = Q(kind)]
             C(kind) == [pc |-> "working", asks |-> worker.asks + 1,
                         phase |-> PhaseAfter(kind, "cancel")]
             u == [pc |-> "queued", asks |-> worker.asks + 1, phase |-> worker.phase]
  <2>2. PICK kind \in KindsIn(worker.phase) :
           \/ worker' = C(kind) /\ UNCHANGED app
           \/ ~app.run.closed /\ worker' = u /\ app' = [app EXCEPT !.run = B(kind)]
    <3>1. PICK kind \in KindsIn(worker.phase) :
             \/ /\ worker' = [worker EXCEPT !.phase = PhaseAfter(kind, "cancel"),
                                            !.asks = @ + 1]
                /\ UNCHANGED app
             \/ /\ ~app.run.closed
                /\ worker' = [worker EXCEPT !.pc = "queued", !.asks = @ + 1]
                /\ app' = [app EXCEPT !.run.queue = Append(@, Q(kind)),
                                      !.run.asked = Q(kind)]
      BY <1>19 DEF Ask
    <3>2. worker' = [worker EXCEPT !.phase = PhaseAfter(kind, "cancel"), !.asks = @ + 1]
          => worker' = C(kind)
      BY <1>0, <2>1 DEF WorkerState
    <3>3. worker' = [worker EXCEPT !.pc = "queued", !.asks = @ + 1] => worker' = u
      BY <1>0, <2>1 DEF WorkerState
    <3>4. app' = [app EXCEPT !.run.queue = Append(@, Q(kind)), !.run.asked = Q(kind)]
          => app' = [app EXCEPT !.run = B(kind)]
      <4> HIDE DEF Q
      <4> QED
        BY <1>0 DEF AppState
    <3> QED
      BY <3>1, <3>2, <3>3, <3>4
  <2>3. /\ kind \in Kind /\ (kind = "start" => worker.phase = "confirm")
        /\ kind \in Credential <=> worker.phase = "unlock"
    <3>1. worker.phase \in {"none", "plan", "confirm", "unlock", "leaving"}
      BY <1>0 DEF WorkerState
    <3> QED
      BY <2>2, <3>1 DEF KindsIn, Kind, Credential
  <2>4. CASE worker' = C(kind) /\ UNCHANGED app
    <3>1. WorkerKeeps(app, app, worker, C(kind), runs)
      BY <1>0, <2>1, <2>3, AskClosedKeeps
    <3> QED
      BY <2>1, <2>4, <3>1, StepOfWorker
  <2>5. CASE ~app.run.closed /\ worker' = u /\ app' = [app EXCEPT !.run = B(kind)]
    <3>1. WorkerKeeps(app, [app EXCEPT !.run = B(kind)], worker, u, runs)
      BY <1>0, <2>1, <2>3, <2>5, AskKeeps
    <3> QED
      BY <2>1, <2>5, <3>1, StepOfWorker
  <2> QED
    BY <2>2, <2>4, <2>5
<1>20. ASSUME Notify PROVE StepKeeps
  <2>1. WorkerKeeps(app, app', worker, worker', runs)
    BY <1>0, <1>20, PostKeeps DEF Notify
  <2> QED
    BY <1>20, <2>1, StepOfWorker DEF Notify
<1>21. ASSUME Reply PROVE StepKeeps
  <2> DEFINE b == [app.run EXCEPT !.asked = NoQuestion, !.reply = NoReply]
             u == [pc |-> "working", asks |-> worker.asks,
                   phase |-> PhaseAfter(app.run.asked.kind, app.run.reply)]
  <2>1. app' = [app EXCEPT !.run = b] /\ worker.pc = "waiting" /\ app.run.reply # NoReply
    BY <1>0, <1>21 DEF Reply, AppState
  <2>2. worker' = u
    BY <1>0, <1>21 DEF Reply, WorkerState
  <2> HIDE DEF b, u
  <2>3. WorkerKeeps(app, app', worker, worker', runs)
    BY <1>0, <2>1, <2>2, ReplyKeeps DEF b, u
  <2> QED
    BY <1>21, <2>3, StepOfWorker DEF Reply
<1>22. ASSUME WorkerEnds PROVE StepKeeps
  <2>1. /\ worker' \in WorkerState /\ worker'.pc = "ended" /\ worker'.phase = "none"
        /\ worker'.asks = worker.asks /\ worker.pc = "working"
    BY <1>0, <1>22 DEF WorkerEnds, WorkerState
  <2>2. WorkerKeeps(app, app, worker, worker', runs)
    BY <1>0, <2>1, WorkerEndsKeeps
  <2> QED
    BY <1>22, <2>2, StepOfWorker DEF WorkerEnds
<1>23. ASSUME PostDone PROVE StepKeeps
  <2>1. WorkerKeeps(app, app', worker, worker', runs)
    BY <1>0, <1>23, PostKeeps DEF PostDone
  <2> QED
    BY <1>23, <2>1, StepOfWorker DEF PostDone
<1>24. ASSUME Exited PROVE StepKeeps
  BY <1>0, <1>24 DEF Exited, vars, StepKeeps, FlowInv
<1> QED
  BY <1>1, <1>2, <1>3, <1>4, <1>5, <1>6, <1>7, <1>8, <1>10, <1>11, <1>12, <1>13, <1>14,
     <1>15, <1>16, <1>17, <1>18, <1>19, <1>20, <1>21, <1>22, <1>23, <1>24 DEF Next

-----------------------------------------------------------------------------
(* The theorems.                                                           *)

\* Nothing is held, asked or posted at the start.
LEMMA InitHolds ==
    ASSUME Init
    PROVE  FlowInv /\ StageInv(app, worker)
<1>1. Shut \in [open : BOOLEAN, q : Asked, starting : BOOLEAN] /\ Shut.q = NoQuestion
  BY DEF Shut, Asked
<1>2. /\ app.stage = "idle" /\ app.run = NoRun /\ app.frames = <<>> /\ app.posted = <<>>
      /\ app.win = [w \in Op |-> Shut] /\ runs = 0
      /\ worker.pc = "off" /\ worker.phase = "none"
  BY DEF Init
<1>3. app \in AppState
  <2>1. [w \in Op |-> Shut] \in [Op -> [open : BOOLEAN, q : Asked, starting : BOOLEAN]]
    BY <1>1
  <2>2. <<>> \in Seq(Frame) /\ <<>> \in Seq({"question", "done"})
    BY EmptySeq
  <2> DEFINE a == [w \in Op |-> Shut]
  <2>3. app = [stage |-> "idle", op |-> "none", started |-> FALSE,
               closing |-> FALSE, run |-> NoRun, win |-> a,
               frames |-> <<>>, disabled |-> {}, posted |-> <<>>, up |-> TRUE]
    BY DEF Init
  <2> HIDE DEF a
  <2> QED
    BY <2>1, <2>2, <2>3 DEF AppState, a
<1>4. worker \in WorkerState /\ runs \in 0 .. MaxRuns
  BY BoundsAssumption DEF Init, WorkerState
<1>5. RunOfWorker(app, worker, runs) /\ OneQuestion(app, worker, runs) /\ Messages(app, worker)
  BY <1>2 DEF RunOfWorker, OneQuestion, Messages
<1>6. \A w \in Op : app.win[w].q = NoQuestion
  BY <1>1, <1>2
<1>7. Holders(app, worker, runs)
  BY <1>2, <1>6 DEF Holders, WasShown, Op
<1>8. FlowInv
  BY <1>2, <1>3, <1>4, <1>5, <1>7 DEF FlowInv, FlowBase, HeldUnless
<1>9. StageInv(app, worker)
  BY <1>2 DEF StageInv, StageOfPhase, OneDialog, DialogsOfRun
<1> QED
  BY <1>8, <1>9

\* A step that changes nothing.
LEMMA StutterKeeps ==
    ASSUME FlowInv, UNCHANGED vars
    PROVE  StepKeeps
  BY DEF vars, StepKeeps, FlowInv

\* The bridge's bookkeeping holds in every state.
THEOREM FlowInvariant == Spec => []FlowInv
<1>1. Init => FlowInv
  BY InitHolds
<1>2. FlowInv /\ [Next]_vars => FlowInv'
  BY NextKeeps, StutterKeeps DEF StepKeeps
<1> QED
  BY <1>1, <1>2, PTL DEF Spec

\* A worker that waits can get its answer, and its end is announced once and
\* last: Bridge.Ask, ShowNext, Answer and Close, the windows and the nested
\* message loops lose no question, whatever is closed, cancelled or opened in
\* between, for any number of operations, questions and loops.
THEOREM NoMessageIsLost == Spec => []NoLostMessage
<1>1. FlowInv => NoLostMessage
  <2> SUFFICES ASSUME FlowInv PROVE NoLostMessage
    OBVIOUS
  <2>1. FlowBase(app, worker, runs) /\ HeldUnless(app, NoQuestion)
    BY DEF FlowInv
  <2>2. \A i \in 1 .. Len(app.posted) :
           app.posted[i] = "done" => worker.pc = "over" /\ i = Len(app.posted)
    BY <2>1 DEF FlowBase, Messages
  <2> SUFFICES ASSUME worker.pc = "waiting", app.run.reply = NoReply
               PROVE  \/ /\ \E i \in 1 .. Len(app.run.queue) : app.run.queue[i] = app.run.asked
                         /\ \E i \in 1 .. Len(app.posted) : app.posted[i] = "question"
                      \/ app.run.current = app.run.asked /\ Held(app, app.run.asked)
    BY <2>2 DEF NoLostMessage, Held, Credential
  <2>3. app.run # NoRun /\ app.run.asked # NoQuestion
    BY <2>1, WorkerRuns
  <2>4. \/ app.run.queue = <<app.run.asked>>
        \/ app.run.queue = <<>> /\ app.run.current = app.run.asked
    BY <2>1, <2>3 DEF FlowBase, OneQuestion
  <2>5. CASE app.run.queue = <<app.run.asked>>
    <3>1. Len(app.run.queue) = 1 /\ app.run.queue[1] = app.run.asked /\ app.run.queue # <<>>
      BY <2>5
    <3>2. \E i \in 1 .. Len(app.posted) : app.posted[i] = "question"
      BY <2>1, <2>3, <3>1 DEF FlowBase, Messages
    <3> QED
      BY <3>1, <3>2
  <2>6. CASE app.run.current = app.run.asked
    BY <2>1, <2>3, <2>6 DEF HeldUnless
  <2> QED
    BY <2>4, <2>5, <2>6
<1> QED
  BY <1>1, FlowInvariant, PTL

\* The worker goes beyond its plan only in a run whose stage says that the user
\* started it, as long as no dialog about a refused YubiKey with its link chosen
\* outlives its operation: Machine.Confirmed, Replan and Cancelling follow the
\* worker through every nesting of windows and dialogs.
THEOREM TheStageIsTrue == Spec => WorkIsConfirmed
<1> DEFINE I == FlowInv /\ StageInv(app, worker)
<1>1. Init => I
  BY InitHolds
<1>2. I /\ [Next]_vars /\ NoOldLink' => I'
  BY NextKeeps, StutterKeeps DEF StepKeeps
<1>3. I => StageIsTrue
  <2> SUFFICES ASSUME I, worker.pc = "working", worker.phase = "unlock"
               PROVE  app.stage \in {"running", "cancelling"}
    BY DEF StageIsTrue
  <2>1. app.run # NoRun /\ app.run.asked = NoQuestion
    BY WorkerRuns DEF FlowInv
  <2> QED
    BY <2>1 DEF StageInv, StageOfPhase
<1> HIDE DEF I
<1> QED
  BY <1>1, <1>2, <1>3, PTL DEF Spec, WorkIsConfirmed
=============================================================================
