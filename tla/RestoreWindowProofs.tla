------------------------- MODULE RestoreWindowProofs -------------------------
(***************************************************************************)
(* For any number of folders, sets, windows, checks and operations:        *)
(* WindowInv is an invariant of the Restore backup window and of the       *)
(* operations it starts, so what the window says of the folders is true,   *)
(* the latest report is shown, and a check is of what is chosen.           *)
(***************************************************************************)
EXTENDS RestoreWindow, TLAPS, FiniteSetTheorems, SequenceTheorems

-----------------------------------------------------------------------------
(* The queue *)

\* What a message added at the end of a queue changes.
LEMMA Appended ==
  ASSUME NEW S, NEW s \in Seq(S), NEW m \in S, NEW x
  PROVE  /\ Append(s, m) \in Seq(S)
         /\ (\E i \in DOMAIN Append(s, m) : Append(s, m)[i] = x) <=>
               (x = m \/ \E i \in DOMAIN s : s[i] = x)
         /\ \A i \in DOMAIN Append(s, m) : Append(s, m)[i] = x =>
               (i \in DOMAIN s /\ s[i] = x) \/ (i = Len(s) + 1 /\ x = m)
<1> DEFINE t == Append(s, m)
<1>1. /\ t \in Seq(S) /\ Len(t) = Len(s) + 1 /\ \A i \in 1 .. Len(s) : t[i] = s[i]
      /\ t[Len(s) + 1] = m /\ Len(s) \in Nat
  BY AppendProperties
<1>2. DOMAIN t = 1 .. Len(s) + 1 /\ DOMAIN s = 1 .. Len(s)
  BY <1>1
<1> HIDE DEF t
<1>3. \A i \in DOMAIN t : i \in DOMAIN s \/ i = Len(s) + 1
  BY <1>1, <1>2
<1>4. DOMAIN s \subseteq DOMAIN t /\ Len(s) + 1 \in DOMAIN t
  BY <1>1, <1>2
<1>5. \A i \in DOMAIN s : t[i] = s[i]
  BY <1>1, <1>2
<1>6. (\E i \in DOMAIN t : t[i] = x) <=> (x = m \/ \E i \in DOMAIN s : s[i] = x)
  BY <1>1, <1>3, <1>4, <1>5
<1>7. \A i \in DOMAIN t : t[i] = x =>
               (i \in DOMAIN s /\ s[i] = x) \/ (i = Len(s) + 1 /\ x = m)
  BY <1>1, <1>3, <1>5
<1> QED
  BY <1>1, <1>6, <1>7 DEF t

\* What the first message of a queue was.
LEMMA Taken ==
  ASSUME NEW S, NEW s \in Seq(S), s # <<>>
  PROVE  /\ Tail(s) \in Seq(S) /\ Head(s) = s[1] /\ 1 \in DOMAIN s
         /\ \A i \in DOMAIN Tail(s) : i + 1 \in DOMAIN s /\ Tail(s)[i] = s[i + 1] /\ i \in Nat \ {0}
         /\ \A x : x # Head(s) /\ (\E i \in DOMAIN s : s[i] = x) => \E i \in DOMAIN Tail(s) : Tail(s)[i] = x
<1>1. /\ Tail(s) \in Seq(S) /\ Head(s) = s[1] /\ Len(Tail(s)) = Len(s) - 1
      /\ \A i \in 1 .. Len(Tail(s)) : Tail(s)[i] = s[i + 1]
  BY HeadTailProperties
<1>2. Len(s) \in Nat /\ Len(s) > 0 /\ DOMAIN s = 1 .. Len(s) /\ DOMAIN Tail(s) = 1 .. Len(s) - 1
  BY <1>1, EmptySeq
<1>3. \A i \in DOMAIN Tail(s) : i + 1 \in DOMAIN s /\ Tail(s)[i] = s[i + 1] /\ i \in Nat \ {0}
  BY <1>1, <1>2
<1>4. ASSUME NEW x, x # Head(s), NEW i \in DOMAIN s, s[i] = x
      PROVE  \E j \in DOMAIN Tail(s) : Tail(s)[j] = x
  <2>1. i - 1 \in DOMAIN Tail(s) /\ (i - 1) + 1 = i
    BY <1>1, <1>2, <1>4
  <2> QED
    BY <1>3, <1>4, <2>1
<1> QED
  BY <1>1, <1>2, <1>3, <1>4

Messages == {"progress", "done", "dest", "plan", "start"}

\* A message other than the last one of a worker is added.
LEMMA QueueGrows ==
  ASSUME QueueInOrder, NEW m \in Messages, m # "done", posted' = Append(posted, m),
         bridge'.announced => bridge.announced \/ m = "progress",
         worker.pc = "over" => worker'.pc = "over",
         worker.pc = "over" /\ Busy => Busy', worker'.pc \notin {"none", "over"} => Busy'
  PROVE  QueueInOrder'
<1>1. posted \in Seq(Messages)
  BY DEF QueueInOrder, Messages
<1>2. posted' \in Seq(Messages)
  BY <1>1, Appended
<1>3. bridge'.announced => \E i \in DOMAIN posted' : posted'[i] = "progress"
  BY <1>1, Appended DEF QueueInOrder
<1>4. \A i \in DOMAIN posted' : posted'[i] = "done" => i \in DOMAIN posted /\ posted[i] = "done"
  BY <1>1, Appended
<1>5. \A i \in DOMAIN posted' : posted'[i] = "done" =>
          /\ worker'.pc = "over" /\ Busy'
          /\ \A j \in DOMAIN posted' : posted'[j] = "done" => j = i
  BY <1>4 DEF QueueInOrder
<1> QED
  BY <1>2, <1>3, <1>5 DEF QueueInOrder, Messages, Busy

\* The queue stays.
LEMMA QueueWaits ==
  ASSUME QueueInOrder, posted' = posted,
         bridge'.announced => bridge.announced,
         worker.pc = "over" /\ Busy => worker'.pc = "over" /\ Busy', worker'.pc \notin {"none", "over"} => Busy'
  PROVE  QueueInOrder'
BY DEF QueueInOrder

\* A report.
LEMMA QueueReports ==
  ASSUME QueueInOrder, NEW r, Reports(r), bridge.announced \in BOOLEAN,
         worker.pc = "over" => worker'.pc = "over",
         worker.pc = "over" /\ Busy => Busy', worker'.pc \notin {"none", "over"} => Busy'
  PROVE  QueueInOrder'
<1>1. CASE bridge.announced
  BY <1>1, QueueWaits DEF Reports
<1>2. CASE ~bridge.announced
  BY <1>2, QueueGrows DEF Reports, Messages
<1> QED
  BY <1>1, <1>2

\* A message other than a report is handled.
LEMMA QueueShrinks ==
  ASSUME QueueInOrder, posted # <<>>, posted' = Tail(posted),
         bridge'.announced => bridge.announced /\ Head(posted) # "progress",
         Head(posted) = "done" \/ (worker.pc = "over" => worker'.pc = "over" /\ (Busy => Busy')),
         worker'.pc \notin {"none", "over"} => Busy'
  PROVE  QueueInOrder'
<1>1. posted \in Seq(Messages)
  BY DEF QueueInOrder, Messages
<1>2. posted' \in Seq(Messages)
  BY <1>1, Taken
<1>3. bridge'.announced => \E i \in DOMAIN posted' : posted'[i] = "progress"
  <2>1. \A x : x # Head(posted) /\ (\E i \in DOMAIN posted : posted[i] = x) =>
                 \E i \in DOMAIN Tail(posted) : Tail(posted)[i] = x
    BY <1>1, Taken, Zenon
  <2>2. bridge'.announced => "progress" # Head(posted) /\ \E i \in DOMAIN posted : posted[i] = "progress"
    BY DEF QueueInOrder
  <2> QED
    BY <2>1, <2>2
<1>4. /\ 1 \in DOMAIN posted /\ Head(posted) = posted[1]
      /\ \A i \in DOMAIN posted' : i + 1 \in DOMAIN posted /\ posted'[i] = posted[i + 1] /\ i \in Nat \ {0}
  BY <1>1, Taken
<1>5. Head(posted) = "done" => \A i \in DOMAIN posted' : posted'[i] # "done"
  BY <1>4 DEF QueueInOrder
<1>6. \A i \in DOMAIN posted' : posted'[i] = "done" =>
          /\ worker'.pc = "over" /\ Busy'
          /\ \A j \in DOMAIN posted' : posted'[j] = "done" => j = i
  BY <1>4, <1>5 DEF QueueInOrder
<1> QED
  BY <1>2, <1>3, <1>6 DEF QueueInOrder, Messages, Busy

-----------------------------------------------------------------------------
(* The worker *)

\* The window and its checks stay.
LEMMA WindowPart ==
  ASSUME WindowTypes, ChecksInOrder, CheckIsOfChoices, UNCHANGED windowVars
  PROVE  WindowTypes' /\ ChecksInOrder' /\ CheckIsOfChoices'
<1>1. UNCHANGED <<win, checks, pending, lastDest, counts>>
  BY DEF windowVars
<1>2. WindowTypes'
  BY <1>1 DEF WindowTypes
<1>3. ChecksInOrder'
  BY <1>1 DEF ChecksInOrder, OfWindow, Choices, Chosen
<1>4. CheckIsOfChoices'
  BY <1>1 DEF CheckIsOfChoices, Choices, Chosen
<1> QED
  BY <1>2, <1>3, <1>4

\* The phase of the operation.
LEMMA PhaseIs == Phase \in {"backing up", "restoring"}
BY DEF Phase

\* A step of the worker that reports nothing, and after which at least the same
\* folders are there.
LEMMA SilentStep ==
  ASSUME ProgressInv, UNCHANGED <<op, bridge, machine, cancelled>>,
         worker' \in WorkerRecords,
         whole \subseteq whole', whole' \subseteq Folder, worker.item <= worker'.item,
         WorkerInOrder'
  PROVE  ProgressInv'
<1>1. ProgressTypes'
  BY DEF ProgressInv, ProgressTypes, Folder
<1>2. Folder' = Folder /\ Phase' = Phase
  BY DEF Folder, Phase
<1>3. ASSUME NEW r \in ReportRecords, ReportInOrder(r) PROVE ReportInOrder(r)'
  <2>1. r.item \in Nat /\ worker.item \in Nat /\ worker'.item \in Nat
    BY DEF ReportRecords, WorkerRecords, ProgressInv, ProgressTypes
  <2>2. r.item <= worker.item => r.item <= worker'.item
    BY <2>1
  <2>3. whole = Folder => whole' = Folder
    OBVIOUS
  <2> QED
    BY <1>2, <1>3, <2>2, <2>3, Zenon DEF ReportInOrder
<1>4. MachineInOrder'
  BY <1>2 DEF ProgressInv, MachineInOrder, Finished
<1>5. ReportInOrder(bridge.report)' /\ ReportInOrder(machine.progress)'
  BY <1>3 DEF ProgressInv, ProgressTypes
<1> QED
  BY <1>1, <1>4, <1>5 DEF ProgressInv

\* The order of numbers.
LEMMA LeTransitive == \A a, b, c \in Nat : a <= b /\ b <= c => a <= c
OBVIOUS

\* A step of the worker that reports where it is.
LEMMA ReportingStep ==
  ASSUME ProgressInv, UNCHANGED <<op, machine, cancelled, whole>>,
         NEW r \in ReportRecords, Reports(r), ReportInOrder(r)',
         worker' \in WorkerRecords,
         worker.item <= worker'.item, WorkerInOrder',
         r.phase = Phase => r.item = worker.item,
         r.phase \in {Phase, "verifying", "cleaning up"}
  PROVE  ProgressInv'
<1>1. bridge' = [report |-> r, announced |-> TRUE] /\ bridge'.report = r /\ bridge'.announced
  BY DEF Reports
<1>2. ProgressTypes'
  BY <1>1 DEF ProgressInv, ProgressTypes
<1>3. Folder' = Folder /\ Phase' = Phase /\ Finished' = Finished
  BY DEF Folder, Phase, Finished
<1>4. ReportInOrder(machine.progress)'
  <2>1. machine.progress.item \in Nat /\ worker.item \in Nat /\ worker'.item \in Nat
    BY DEF ReportRecords, WorkerRecords, ProgressInv, ProgressTypes
  <2>2. machine.progress.item <= worker.item => machine.progress.item <= worker'.item
    BY <2>1, LeTransitive, Zenon
  <2>3. whole' = whole /\ machine' = machine /\ ReportInOrder(machine.progress)
    BY DEF ProgressInv
  <2> QED
    BY <1>3, <2>2, <2>3, Zenon DEF ReportInOrder
<1>5. ASSUME machine.progress.phase = Phase, ~(r.phase = Phase /\ r.item = machine.progress.item)
      PROVE  machine.progress.item \in whole
  <2>1. machine.progress.item \in Folder /\ machine.progress.item <= worker.item
    BY <1>5, PhaseIs DEF ProgressInv, ReportInOrder
  <2>2. CASE r.phase = Phase
    <3>1. machine.progress.item < worker.item
      BY <1>5, <2>1, <2>2 DEF Folder, WorkerRecords, ProgressInv, ProgressTypes
    <3> QED
      BY <2>1, <3>1 DEF ProgressInv, WorkerInOrder
  <2>3. CASE r.phase # Phase
    <3>1. whole' = Folder'
      BY <2>3 DEF ReportInOrder
    <3> QED
      BY <1>3, <2>1, <3>1
  <2> QED
    BY <2>2, <2>3
<1>6. MachineInOrder'
  BY <1>1, <1>3, <1>5 DEF ProgressInv, MachineInOrder
<1> QED
  BY <1>1, <1>2, <1>4, <1>6 DEF ProgressInv

\* The same, with the queue and the window: the worker is neither at its end nor
\* gets there.
LEMMA WorkerSilent ==
  ASSUME WindowInv, WindowStays, UNCHANGED <<op, cancelled, machine, bridge, posted>>,
         worker.pc \notin {"none", "over"}, worker' \in WorkerRecords,
         worker.item <= worker'.item,
         whole \subseteq whole', whole' \subseteq Folder, WorkerInOrder'
  PROVE  WindowInv'
<1>1. ProgressInv'
  BY SilentStep DEF WindowInv
<1>2. Busy /\ Busy' = Busy
  BY DEF WindowInv, QueueInOrder, Busy
<1>3. QueueInOrder'
  BY <1>2, QueueWaits DEF WindowInv
<1> QED
  BY <1>1, <1>3, WindowPart DEF WindowInv, WindowStays

\* The same with a report.
LEMMA WorkerReporting ==
  ASSUME WindowInv, WindowStays, UNCHANGED <<op, cancelled, machine, whole>>,
         worker.pc \notin {"none", "over"}, worker' \in WorkerRecords,
         worker.item <= worker'.item, WorkerInOrder',
         NEW r \in ReportRecords, Reports(r), ReportInOrder(r)',
         r.phase = Phase => r.item = worker.item,
         r.phase \in {Phase, "verifying", "cleaning up"}
  PROVE  WindowInv'
<1>1. ProgressInv'
  BY ReportingStep DEF WindowInv
<1>2. Busy /\ Busy' = Busy
  BY DEF WindowInv, QueueInOrder, Busy
<1>3. bridge.announced \in BOOLEAN
  BY DEF WindowInv, ProgressInv, ProgressTypes
<1>4. QueueInOrder'
  BY <1>2, <1>3, QueueReports DEF WindowInv
<1> QED
  BY <1>1, <1>4, WindowPart DEF WindowInv, WindowStays

\* What a worker knows of itself.
LEMMA WorkerIs ==
  ASSUME WindowInv
  PROVE  /\ worker \in WorkerRecords /\ worker.item \in Nat \ {0} /\ op.folders \in Nat
         /\ op.kind \in {"none", "backup", "restore"}
         /\ worker.result \in {"none", "ok", "failed", "cancelled"} /\ WorkerInOrder
BY DEF WindowInv, ProgressInv, ProgressTypes, WorkerRecords

\* How a worker ends.
LEMMA EndsGives ==
  ASSUME WindowInv, NEW result \in {"ok", "failed", "cancelled"}, Ends(result)
  PROVE  /\ worker' \in WorkerRecords /\ worker'.pc = "ended" /\ worker'.item = worker.item
         /\ worker'.result = "ok" <=> result = "ok"
         /\ worker'.result # "none"
BY WorkerIs DEF Ends, WorkerRecords, After

\* How a worker goes on.
LEMMA GoesGives ==
  ASSUME WindowInv, NEW pc \in {"unlocking", "between", "writing", "finishing", "written",
                                "verifying", "cleaning", "planned", "blocked", "asking", "over"},
         Goes(pc)
  PROVE  /\ worker' \in WorkerRecords /\ worker'.pc = pc /\ worker'.item = worker.item
         /\ worker'.result = worker.result
BY WorkerIs DEF Goes, WorkerRecords, After, Before

\* Unlocking the keys.
LEMMA UnlockKeeps ==
  ASSUME WindowInv, Unlock, WindowStays
  PROVE  WindowInv'
<1>1. /\ worker.pc = "unlocking" /\ UNCHANGED <<op, cancelled, machine, whole, bridge, posted>>
      /\ Goes("between") \/ Ends("failed")
  BY DEF Unlock, WorkerOnly
<1>2. /\ worker' \in WorkerRecords /\ worker'.item = worker.item
      /\ \/ worker'.pc = "between" /\ worker'.result = worker.result
         \/ worker'.pc = "ended" /\ worker'.result \notin {"ok", "none"}
  BY <1>1, EndsGives, GoesGives
<1>3. WorkerInOrder'
  BY <1>1, <1>2, WorkerIs DEF WorkerInOrder, Folder, After, Before
<1> QED
  BY <1>1, <1>2, <1>3, WorkerSilent, WorkerIs DEF WorkerInOrder

\* The report of the folder the worker is at.
LEMMA OwnReport ==
  ASSUME WindowInv, worker.item \in Folder, UNCHANGED op, NEW written \in BOOLEAN,
         worker'.item \in Nat, worker.item <= worker'.item,
         NEW r, r = Report(Phase, worker.item, written)
  PROVE  r \in ReportRecords /\ ReportInOrder(r)' /\ r.phase = Phase /\ r.item = worker.item
<1>1. Phase' = Phase /\ Folder' = Folder /\ Phase \in {"backing up", "restoring"}
  BY DEF Phase, Folder
<1>2. r \in ReportRecords
  BY <1>1, WorkerIs DEF Report, ReportRecords, Phases
<1>3. r.phase = Phase /\ r.item = worker.item
  BY DEF Report
<1>4. ReportInOrder(r)'
  BY <1>1, <1>3 DEF ReportInOrder
<1> QED
  BY <1>2, <1>3, <1>4

\* A step that reports the folder the worker is at.
LEMMA OwnReporting ==
  ASSUME WindowInv, WindowStays, UNCHANGED <<op, cancelled, machine, whole>>,
         worker.pc \notin {"none", "over"}, worker' \in WorkerRecords,
         worker.item <= worker'.item, WorkerInOrder', worker.item \in Folder,
         NEW written \in BOOLEAN, Reports(Report(Phase, worker.item, written))
  PROVE  WindowInv'
<1>1. PICK r : r = Report(Phase, worker.item, written)
  OBVIOUS
<1>2. worker'.item \in Nat /\ op' = op
  BY DEF WorkerRecords
<1>3. r \in ReportRecords /\ ReportInOrder(r)' /\ r.phase = Phase /\ r.item = worker.item
  BY <1>1, <1>2, OwnReport
<1>4. Reports(r)
  BY <1>1
<1> QED
  BY <1>3, <1>4, WorkerReporting

\* A folder is begun, or the restore fails before it.
LEMMA BeginFolderKeeps ==
  ASSUME WindowInv, BeginFolder, WindowStays
  PROVE  WindowInv'
<1>1. /\ worker.pc = "between" /\ worker.item <= op.folders
      /\ UNCHANGED <<op, cancelled, machine, whole>>
      /\ \/ Goes("writing") /\ Reports(Report(Phase, worker.item, FALSE))
         \/ Ends("failed") /\ UNCHANGED <<bridge, posted>>
  BY DEF BeginFolder, WorkerOnly
<1>2. worker.item \in Folder
  BY <1>1, WorkerIs DEF Folder
<1>3. CASE Goes("writing") /\ Reports(Report(Phase, worker.item, FALSE))
  <2>1. /\ worker' \in WorkerRecords /\ worker'.pc = "writing" /\ worker'.item = worker.item
        /\ worker'.result = worker.result
    BY <1>3, GoesGives
  <2>2. WorkerInOrder'
    BY <1>1, <1>2, <2>1, WorkerIs DEF WorkerInOrder, Folder, After, Before
  <2>3. worker.item <= worker'.item
    BY <2>1, WorkerIs
  <2> QED
    BY <1>1, <1>2, <1>3, <2>1, <2>2, <2>3, OwnReporting
<1>4. CASE Ends("failed") /\ UNCHANGED <<bridge, posted>>
  <2>1. /\ worker' \in WorkerRecords /\ worker'.pc = "ended" /\ worker'.item = worker.item
        /\ worker'.result \notin {"ok", "none"}
    BY <1>4, EndsGives
  <2>2. WorkerInOrder'
    BY <1>1, <1>4, <2>1, WorkerIs DEF WorkerInOrder, Folder, After, Before
  <2> QED
    BY <1>1, <1>4, <2>1, <2>2, WorkerSilent, WorkerIs DEF WorkerInOrder
<1> QED
  BY <1>1, <1>3, <1>4

\* The ticker.
LEMMA TickerReportsKeeps ==
  ASSUME WindowInv, TickerReports, WindowStays
  PROVE  WindowInv'
<1>1. /\ worker.pc \in {"writing", "finishing", "written"}
      /\ UNCHANGED <<op, cancelled, machine, whole, worker>>
      /\ Reports(Report(Phase, worker.item, FALSE))
  BY DEF TickerReports, WorkerOnly
<1>2. worker.item \in Folder
  BY <1>1, WorkerIs DEF WorkerInOrder
<1>3. WorkerInOrder'
  BY <1>1, WorkerIs DEF WorkerInOrder, Folder, After, Before
<1>4. worker.item <= worker'.item /\ worker' \in WorkerRecords
  BY <1>1, WorkerIs
<1> QED
  BY <1>1, <1>2, <1>3, <1>4, OwnReporting

\* The end of the TAR stream.
LEMMA TarEndsKeeps ==
  ASSUME WindowInv, TarEnds, WindowStays
  PROVE  WindowInv'
<1>1. /\ worker.pc = "writing" /\ UNCHANGED <<op, cancelled, machine, whole, bridge, posted>>
      /\ Goes("finishing")
  BY DEF TarEnds, WorkerOnly
<1>2. /\ worker' \in WorkerRecords /\ worker'.item = worker.item
      /\ worker'.pc = "finishing" /\ worker'.result = worker.result
  BY <1>1, GoesGives
<1>3. WorkerInOrder'
  BY <1>1, <1>2, WorkerIs DEF WorkerInOrder, Folder, After, Before
<1> QED
  BY <1>1, <1>2, <1>3, WorkerSilent, WorkerIs DEF WorkerInOrder

\* A folder fails.
LEMMA FolderFailsKeeps ==
  ASSUME WindowInv, FolderFails, WindowStays
  PROVE  WindowInv'
<1>1. /\ worker.pc \in {"writing", "finishing"} /\ UNCHANGED <<op, cancelled, machine, whole>>
      /\ Ends("failed") /\ Reports(Report(Phase, worker.item, FALSE))
  BY DEF FolderFails, WorkerOnly
<1>2. /\ worker' \in WorkerRecords /\ worker'.pc = "ended" /\ worker'.item = worker.item
      /\ worker'.result \notin {"ok", "none"}
  BY <1>1, EndsGives
<1>3. WorkerInOrder'
  BY <1>1, <1>2, WorkerIs DEF WorkerInOrder, Folder, After, Before
<1>4. worker.item <= worker'.item /\ worker.item \in Folder
  BY <1>1, <1>2, WorkerIs DEF WorkerInOrder
<1> QED
  BY <1>1, <1>2, <1>3, <1>4, OwnReporting

\* A folder is there.
LEMMA FolderWrittenKeeps ==
  ASSUME WindowInv, FolderWritten, WindowStays
  PROVE  WindowInv'
<1>1. /\ worker.pc \in {"writing", "finishing"} /\ UNCHANGED <<op, cancelled, machine, bridge, posted>>
      /\ Goes("written") /\ whole' = whole \cup {worker.item}
  BY DEF FolderWritten, WorkerOnly
<1>2. /\ worker' \in WorkerRecords /\ worker'.pc = "written" /\ worker'.item = worker.item
      /\ worker'.result = worker.result
  BY <1>1, GoesGives
<1>3. worker.item \in Folder /\ whole \subseteq Folder
  BY <1>1, WorkerIs DEF WorkerInOrder
<1>4. WorkerInOrder'
  BY <1>1, <1>2, <1>3, WorkerIs DEF WorkerInOrder, Folder, After, Before
<1>5. whole \subseteq whole' /\ whole' \subseteq Folder
  BY <1>1, <1>3
<1>6. worker.item <= worker'.item
  BY <1>2, WorkerIs
<1> QED
  BY <1>1, <1>2, <1>4, <1>5, <1>6, WorkerSilent

\* The last report of a folder.
LEMMA LastReportKeeps ==
  ASSUME WindowInv, LastReport, WindowStays
  PROVE  WindowInv'
<1> DEFINE written == op.kind = "backup"
<1>1. /\ worker.pc = "written" /\ UNCHANGED <<op, cancelled, machine, whole>>
      /\ Reports(Report(Phase, worker.item, written))
      /\ worker' = [worker EXCEPT !.pc = "between", !.item = worker.item + 1]
  BY DEF LastReport, WorkerOnly
<1>2. written \in BOOLEAN
  OBVIOUS
<1> HIDE DEF written
<1>3. worker.item + 1 \in Nat \ {0} /\ worker.item <= worker.item + 1 /\ worker.item \in Nat
  BY WorkerIs
<1>4. /\ worker' \in WorkerRecords /\ worker'.pc = "between" /\ worker'.item = worker.item + 1
      /\ worker'.result = worker.result
  BY <1>1, <1>3, WorkerIs DEF WorkerRecords
<1>5. worker.item \in Folder /\ worker.item \in whole /\ worker.result # "ok"
  BY <1>1, WorkerIs DEF WorkerInOrder, After
<1>6. worker'.item <= op'.folders + 1
  BY <1>1, <1>4, <1>5, WorkerIs DEF Folder
<1>7. Folder' = Folder /\ whole' = whole
  BY <1>1 DEF Folder
<1>8. \A f \in Folder : f < worker.item + 1 => f \in whole
  <2>1. \A f \in Folder : f < worker.item + 1 => f < worker.item \/ f = worker.item
    BY <1>3 DEF Folder
  <2> QED
    BY <2>1, <1>5, WorkerIs DEF WorkerInOrder
<1>9. WorkerInOrder'
  BY <1>1, <1>4, <1>5, <1>6, <1>7, <1>8, WorkerIs DEF WorkerInOrder, After, Before
<1> QED
  BY <1>1, <1>2, <1>3, <1>4, <1>5, <1>9, OwnReporting

\* A report of what comes after the folders.
LEMMA LateReporting ==
  ASSUME WindowInv, WindowStays, UNCHANGED <<op, cancelled, machine, whole>>,
         worker.pc \notin {"none", "over"}, worker' \in WorkerRecords,
         worker.item <= worker'.item, WorkerInOrder', whole = Folder,
         NEW phase \in {"verifying", "cleaning up"}, NEW item \in Nat,
         Reports(Report(phase, item, FALSE))
  PROVE  WindowInv'
<1>1. PICK r : r = Report(phase, item, FALSE)
  OBVIOUS
<1>2. r \in ReportRecords /\ r.phase \in {"verifying", "cleaning up"}
  BY <1>1 DEF Report, ReportRecords, Phases
<1>3. whole' = Folder'
  BY DEF Folder
<1>4. ReportInOrder(r)'
  BY <1>2, <1>3 DEF ReportInOrder
<1>5. r.phase # Phase
  BY <1>2, PhaseIs
<1> QED
  BY <1>1, <1>2, <1>4, <1>5, WorkerReporting

\* A set is verified.
LEMMA VerifySetKeeps ==
  ASSUME WindowInv, NEW k \in Folder, VerifySet(k), WindowStays
  PROVE  WindowInv'
<1>1. /\ worker.item = op.folders + k /\ worker.pc \in {"between", "verifying"}
      /\ worker' = [worker EXCEPT !.pc = "verifying", !.item = worker.item + 1]
      /\ UNCHANGED <<op, cancelled, machine, whole>>
      /\ Reports(Report("verifying", k, FALSE)) \/ UNCHANGED <<bridge, posted>>
  BY DEF VerifySet, WorkerOnly
<1>2. worker.item + 1 \in Nat \ {0} /\ worker.item <= worker.item + 1 /\ k \in Nat
  BY WorkerIs DEF Folder
<1>3. /\ worker' \in WorkerRecords /\ worker'.pc = "verifying" /\ worker'.item = worker.item + 1
      /\ worker'.result = worker.result
  BY <1>1, <1>2, WorkerIs DEF WorkerRecords
<1>4. \A f \in Folder : f < worker.item
  BY <1>1, <1>2, WorkerIs DEF Folder
<1>5. whole = Folder /\ whole' = Folder' /\ worker.result # "ok"
  BY <1>1, <1>4, WorkerIs DEF WorkerInOrder, Folder, After
<1>6. WorkerInOrder'
  <2>1. worker'.item > op'.folders
    BY <1>1, <1>2, <1>3, WorkerIs
  <2>2. \A f \in Folder' : f \in whole'
    BY <1>5
  <2> QED
    BY <1>1, <1>3, <1>5, <2>1, <2>2, WorkerIs DEF WorkerInOrder, After, Before
<1>7. CASE Reports(Report("verifying", k, FALSE))
  BY <1>1, <1>2, <1>3, <1>5, <1>6, <1>7, LateReporting
<1>8. CASE UNCHANGED <<bridge, posted>>
  BY <1>1, <1>2, <1>3, <1>5, <1>6, <1>8, WorkerSilent
<1> QED
  BY <1>1, <1>7, <1>8

\* A verification is cancelled.
LEMMA VerifyCancelledKeeps ==
  ASSUME WindowInv, VerifyCancelled, WindowStays
  PROVE  WindowInv'
<1> DEFINE item == worker.item - op.folders - 1
<1>1. /\ worker.pc = "verifying" /\ UNCHANGED <<op, cancelled, machine, whole>>
      /\ Ends("cancelled") /\ Reports(Report("verifying", item, FALSE))
  BY DEF VerifyCancelled, WorkerOnly
<1>2. /\ worker' \in WorkerRecords /\ worker'.pc = "ended" /\ worker'.item = worker.item
      /\ worker'.result \notin {"ok", "none"}
  BY <1>1, EndsGives
<1>3. WorkerInOrder'
  BY <1>1, <1>2, WorkerIs DEF WorkerInOrder, Folder, After, Before
<1>4. whole = Folder /\ worker.item > op.folders
  BY <1>1, WorkerIs DEF WorkerInOrder
<1>5. item \in Nat /\ worker.item <= worker'.item
  BY <1>2, <1>4, WorkerIs
<1> HIDE DEF item
<1> QED
  BY <1>1, <1>2, <1>3, <1>4, <1>5, LateReporting

\* After the last folder and the last verification.
LEMMA AllWrittenKeeps ==
  ASSUME WindowInv, AllWritten, WindowStays
  PROVE  WindowInv'
<1>1. /\ worker.item \in {2 * op.folders + 1, op.folders + 1}
      /\ worker.pc \in {"between", "verifying"} /\ UNCHANGED <<op, cancelled, machine, whole>>
      /\ \/ Goes("cleaning") /\ Reports(Report("cleaning up", 0, FALSE))
         \/ (Ends("ok") \/ Ends("cancelled")) /\ UNCHANGED <<bridge, posted>>
  BY DEF AllWritten, WorkerOnly
<1>2. \A f \in Folder : f < worker.item
  <2>1. CASE worker.item = op.folders + 1
    BY <2>1, WorkerIs DEF Folder
  <2>2. CASE worker.item = 2 * op.folders + 1
    BY <2>2, WorkerIs DEF Folder
  <2> QED
    BY <1>1, <2>1, <2>2
<1>3. whole = Folder /\ whole' = Folder' /\ worker.result = "none"
  BY <1>1, <1>2, WorkerIs DEF WorkerInOrder, Folder, After
<1>4. CASE Goes("cleaning") /\ Reports(Report("cleaning up", 0, FALSE))
  <2>1. /\ worker' \in WorkerRecords /\ worker'.pc = "cleaning" /\ worker'.item = worker.item
        /\ worker'.result = worker.result
    BY <1>4, GoesGives
  <2>2. WorkerInOrder'
    BY <1>1, <1>3, <2>1 DEF WorkerInOrder, After, Before
  <2>3. worker.item <= worker'.item /\ 0 \in Nat
    BY <2>1, WorkerIs
  <2> QED
    BY <1>1, <1>3, <1>4, <2>1, <2>2, <2>3, LateReporting
<1>5. CASE (Ends("ok") \/ Ends("cancelled")) /\ UNCHANGED <<bridge, posted>>
  <2>1. /\ worker' \in WorkerRecords /\ worker'.pc = "ended" /\ worker'.item = worker.item
    BY <1>5, EndsGives
  <2>2. WorkerInOrder'
    BY <1>1, <1>3, <2>1 DEF WorkerInOrder, After, Before
  <2>3. worker.item <= worker'.item
    BY <2>1, WorkerIs
  <2>4. whole \subseteq whole' /\ whole' \subseteq Folder
    BY <1>1, <1>3
  <2> QED
    BY <1>1, <1>5, <2>1, <2>2, <2>3, <2>4, WorkerSilent
<1> QED
  BY <1>1, <1>4, <1>5

\* The clean-up ends.
LEMMA CleanedUpKeeps ==
  ASSUME WindowInv, CleanedUp, WindowStays
  PROVE  WindowInv'
<1>1. /\ worker.pc = "cleaning" /\ UNCHANGED <<op, cancelled, machine, whole, bridge, posted>>
      /\ Ends("ok")
  BY DEF CleanedUp, WorkerOnly
<1>2. /\ worker' \in WorkerRecords /\ worker'.pc = "ended" /\ worker'.item = worker.item
  BY <1>1, EndsGives
<1>3. whole = Folder /\ whole' = Folder'
  BY <1>1, WorkerIs DEF WorkerInOrder, Folder
<1>4. WorkerInOrder'
  BY <1>1, <1>2, <1>3 DEF WorkerInOrder, After, Before
<1> QED
  BY <1>1, <1>2, <1>3, <1>4, WorkerSilent, WorkerIs

\* The last message of a worker.
LEMMA PostDoneKeeps ==
  ASSUME WindowInv, PostDone, WindowStays
  PROVE  WindowInv'
<1>1. /\ worker.pc = "ended" /\ UNCHANGED <<op, cancelled, machine, whole, bridge>>
      /\ Goes("over") /\ posted' = Append(posted, "done")
  BY DEF PostDone, WorkerOnly
<1>2. /\ worker' \in WorkerRecords /\ worker'.pc = "over" /\ worker'.item = worker.item
      /\ worker'.result = worker.result
  BY <1>1, GoesGives
<1>3. WorkerInOrder'
  BY <1>1, <1>2, WorkerIs DEF WorkerInOrder, Folder, After, Before
<1>4. ProgressInv'
  BY <1>1, <1>2, <1>3, SilentStep, WorkerIs DEF WindowInv, WorkerInOrder
<1>5. Busy /\ Busy' = Busy /\ \A i \in DOMAIN posted : posted[i] # "done"
  BY <1>1 DEF WindowInv, QueueInOrder, Busy
<1>6. posted \in Seq(Messages) /\ "done" \in Messages /\ "progress" \in Messages
  BY DEF WindowInv, QueueInOrder, Messages
<1>7. posted' \in Seq(Messages)
  BY <1>1, <1>6, Appended
<1>8. bridge'.announced => \E i \in DOMAIN posted' : posted'[i] = "progress"
  BY <1>1, <1>6, Appended DEF WindowInv, QueueInOrder
<1>9. \A i \in DOMAIN posted' : posted'[i] = "done" => i = Len(posted) + 1
  BY <1>1, <1>5, <1>6, Appended
<1>10. QueueInOrder'
  BY <1>2, <1>5, <1>7, <1>8, <1>9 DEF QueueInOrder, Messages
<1> QED
  BY <1>4, <1>10, WindowPart DEF WindowInv, WindowStays

\* Any step of the worker from its start on.
LEMMA WorksKeeps ==
  ASSUME WindowInv, Works, WindowStays
  PROVE  WindowInv'
BY UnlockKeeps, BeginFolderKeeps, TickerReportsKeeps, TarEndsKeeps, FolderFailsKeeps,
   FolderWrittenKeeps, LastReportKeeps, VerifyCancelledKeeps, AllWrittenKeeps, CleanedUpKeeps,
   PostDoneKeeps, VerifySetKeeps DEF Works

-----------------------------------------------------------------------------
(* The window *)

\* The operation stays.
LEMMA ProgressPart ==
  ASSUME ProgressInv, UNCHANGED <<op, worker, cancelled, whole, bridge, machine>>
  PROVE  ProgressInv'
<1>1. ProgressTypes'
  BY DEF ProgressInv, ProgressTypes
<1>2. Folder' = Folder /\ Phase' = Phase /\ Finished' = Finished
  BY DEF Folder, Phase, Finished
<1>3. WorkerInOrder' /\ MachineInOrder'
  BY <1>2 DEF ProgressInv, WorkerInOrder, MachineInOrder
<1>4. ReportInOrder(bridge.report)' /\ ReportInOrder(machine.progress)'
  BY <1>2 DEF ProgressInv, ReportInOrder
<1> QED
  BY <1>1, <1>3, <1>4 DEF ProgressInv

\* The operation and the queue stay.
LEMMA OperationPart ==
  ASSUME WindowInv, UNCHANGED vars
  PROVE  ProgressInv' /\ QueueInOrder'
<1>1. UNCHANGED <<op, worker, cancelled, whole, bridge, posted, machine>>
  BY DEF vars
<1>2. ProgressInv'
  BY <1>1, ProgressPart DEF WindowInv
<1>3. QueueInOrder'
  BY <1>1 DEF WindowInv, QueueInOrder, Busy
<1> QED
  BY <1>2, <1>3

\* What a window has chosen.
LEMMA ChoicesAre ==
  ASSUME NEW w \in Windows
  PROVE  Choices(w) \in ChoiceRecords /\ Choices(w).window = w.id
BY DEF Windows, Choices, Chosen, Enabled, ChoiceRecords

\* The open window changes: other choices have a number of their own, and a
\* check that starts is of the choices.
LEMMA OpenWindowChanges ==
  ASSUME WindowInv, win.open, win' \in Windows, win'.id = win.id,
         win'.seq = win.seq + 1 \/ (win'.seq = win.seq /\ Choices(win') = Choices(win)),
         NEW n \in Nat,
         checks' \subseteq checks \cup {[n |-> n, seq |-> win'.seq, of |-> Choices(win')]},
         pending' \in {pending, NoPlan}, lastDest' \in Dest \cup {NoPath},
         counts' \in [windows : Nat, checks : Nat, runs : Nat], counts'.windows = counts.windows,
         CheckIsOfChoices'
  PROVE  WindowTypes' /\ ChecksInOrder' /\ CheckIsOfChoices'
<1> DEFINE c == [n |-> n, seq |-> win'.seq, of |-> Choices(win')]
<1>1. Choices(win') \in ChoiceRecords /\ Choices(win').window = win'.id
  BY ChoicesAre
<1>2. /\ win \in Windows /\ win.seq \in Nat /\ win'.seq \in Nat /\ win.id \in Nat
      /\ win'.open = TRUE /\ win.id <= counts.windows
  <2>1. win \in Windows
    BY DEF WindowInv, WindowTypes, NoWindow
  <2>2. win.id <= counts.windows
    BY DEF WindowInv, ChecksInOrder
  <2> QED
    BY <2>1, <2>2 DEF Windows
<1>3. c \in [n : Nat, seq : Nat, of : ChoiceRecords] /\ c.seq = win'.seq /\ c.of = Choices(win')
  BY <1>1, <1>2
<1> HIDE DEF c
<1>4. WindowTypes'
  <2>1. checks \subseteq [n : Nat, seq : Nat, of : ChoiceRecords]
    BY DEF WindowInv, WindowTypes
  <2>2. checks' \subseteq [n : Nat, seq : Nat, of : ChoiceRecords]
    BY <1>3, <2>1 DEF c
  <2> QED
    BY <2>2 DEF WindowInv, WindowTypes
<1>5. ASSUME NEW seq \in Nat, NEW of \in ChoiceRecords, OfWindow(seq, of) PROVE OfWindow(seq, of)'
  <2>1. of.window <= counts'.windows
    BY <1>5 DEF OfWindow
  <2>2. ASSUME of.window = win'.id
        PROVE  seq <= win'.seq /\ (seq = win'.seq => of = Choices(win'))
    <3>1. seq <= win.seq /\ (seq = win.seq => of = Choices(win))
      BY <1>5, <2>2 DEF OfWindow
    <3>2. CASE win'.seq = win.seq + 1
      BY <1>2, <3>1, <3>2
    <3>3. CASE win'.seq = win.seq /\ Choices(win') = Choices(win)
      BY <3>1, <3>3
    <3> QED
      BY <3>2, <3>3
  <2> QED
    BY <2>1, <2>2 DEF OfWindow, Choices, Chosen
<1>6. ASSUME NEW seq, NEW of, seq = c.seq, of = c.of PROVE OfWindow(seq, of)'
  <2>1. seq = win'.seq /\ of = Choices(win') /\ seq <= win'.seq /\ of.window <= counts'.windows
    BY <1>1, <1>2, <1>3, <1>6
  <2> QED
    BY <2>1 DEF OfWindow, Choices, Chosen
<1>7. ASSUME NEW x \in checks' PROVE OfWindow(x.seq, x.of)'
  <2>1. CASE x \in checks
    <3>1. x.seq \in Nat /\ x.of \in ChoiceRecords /\ OfWindow(x.seq, x.of)
      BY <2>1 DEF WindowInv, WindowTypes, ChecksInOrder
    <3> QED
      BY <1>5, <3>1
  <2>2. CASE x = c
    BY <1>6, <2>2
  <2> QED
    BY <2>1, <2>2 DEF c
<1>8. ASSUME pending' # NoPlan PROVE OfWindow(pending.seq, pending.of)'
  <2>1. pending' = pending /\ pending # NoPlan
    BY <1>8
  <2>2. pending.seq \in Nat /\ pending.of \in ChoiceRecords /\ OfWindow(pending.seq, pending.of)
    BY <2>1 DEF WindowInv, WindowTypes, ChecksInOrder
  <2>3. \A seq \in Nat, of \in ChoiceRecords : OfWindow(seq, of) => OfWindow(seq, of)'
    BY <1>5
  <2> QED
    BY <2>1, <2>2, <2>3 DEF OfWindow, Choices, Chosen
<1>9. ChecksInOrder'
  BY <1>2, <1>7, <1>8 DEF ChecksInOrder
<1> QED
  BY <1>4, <1>9

\* The window stays as it is: checks end, and their results wait.
LEMMA WindowWaits ==
  ASSUME WindowInv, win' = win, checks' \subseteq checks, UNCHANGED lastDest,
         pending' \in [result : {"ok", "blocked"}, seq : Nat, of : ChoiceRecords] \cup {NoPlan},
         \/ pending' \in {pending, NoPlan}
         \/ \E c \in checks : pending'.seq = c.seq /\ pending'.of = c.of,
         counts' \in [windows : Nat, checks : Nat, runs : Nat], counts'.windows = counts.windows
  PROVE  WindowTypes' /\ ChecksInOrder' /\ CheckIsOfChoices'
<1>1. WindowTypes'
  BY DEF WindowInv, WindowTypes
<1>2. CheckIsOfChoices'
  BY DEF WindowInv, CheckIsOfChoices, Choices, Chosen
<1>3. \A seq, of : OfWindow(seq, of) => OfWindow(seq, of)'
  BY DEF OfWindow, Choices, Chosen
<1>4. \A x \in checks' : OfWindow(x.seq, x.of)'
  BY <1>3 DEF WindowInv, ChecksInOrder
<1>5. ASSUME NEW seq, NEW of, pending' # NoPlan, seq = pending'.seq, of = pending'.of
      PROVE  OfWindow(seq, of)
  BY <1>5 DEF WindowInv, ChecksInOrder
<1>6. pending' # NoPlan => OfWindow(pending.seq, pending.of)'
  BY <1>3, <1>5 DEF OfWindow, Choices, Chosen
<1>7. win'.open => win'.id <= counts'.windows
  BY DEF WindowInv, ChecksInOrder
<1>8. ChecksInOrder'
  BY <1>4, <1>6, <1>7 DEF ChecksInOrder
<1> QED
  BY <1>1, <1>2, <1>8

\* The window closes.
LEMMA WindowCloses ==
  ASSUME WindowInv, win' = NoWindow, UNCHANGED <<checks, pending, lastDest, counts>>
  PROVE  WindowTypes' /\ ChecksInOrder' /\ CheckIsOfChoices'
<1>1. win'.open = FALSE
  BY DEF NoWindow
<1>2. WindowTypes'
  BY DEF WindowInv, WindowTypes
<1>3. CheckIsOfChoices'
  BY <1>1 DEF CheckIsOfChoices
<1>4. ChecksInOrder'
  BY <1>1 DEF WindowInv, ChecksInOrder, OfWindow
<1> QED
  BY <1>2, <1>3, <1>4

\* The open window.
LEMMA WindowIs ==
  ASSUME WindowInv, win.open
  PROVE  /\ win \in Windows /\ win.seq \in Nat /\ win.id \in Nat /\ win.plan \in Plans \cup {NoPlan}
         /\ win.checked \in SUBSET SetNo /\ win.dest \in Dest \cup {NoPath}
<1>1. win \in Windows
  BY DEF WindowInv, WindowTypes, NoWindow
<1> QED
  BY <1>1 DEF Windows

\* The numbers of the bounds.
LEMMA CountsAre ==
  ASSUME WindowInv
  PROVE  /\ counts \in [windows : Nat, checks : Nat, runs : Nat]
         /\ counts.windows \in Nat /\ counts.checks \in Nat /\ counts.runs \in Nat
         /\ lastDest \in Dest \cup {NoPath}
BY DEF WindowInv, WindowTypes

\* A check of the choices ends.
LEMMA CheckDoneKeeps ==
  ASSUME WindowInv, CheckDone
  PROVE  WindowInv'
<1>1. PICK c \in checks, result \in {"ok", "blocked"} :
        /\ checks' = checks \ {c}
        /\ pending' = [result |-> result, seq |-> c.seq, of |-> c.of]
        /\ posted' = Append(posted, "dest")
        /\ UNCHANGED <<op, worker, cancelled, whole, bridge, machine, win, lastDest, counts>>
  BY DEF CheckDone
<1>2. c.seq \in Nat /\ c.of \in ChoiceRecords
  BY DEF WindowInv, WindowTypes
<1>3. /\ pending' \in [result : {"ok", "blocked"}, seq : Nat, of : ChoiceRecords] \cup {NoPlan}
      /\ pending'.seq = c.seq /\ pending'.of = c.of
  BY <1>1, <1>2
<1>4. WindowTypes' /\ ChecksInOrder' /\ CheckIsOfChoices'
  BY <1>1, <1>3, CountsAre, WindowWaits
<1>5. ProgressInv'
  BY <1>1, ProgressPart DEF WindowInv
<1>6. Busy' = Busy
  BY <1>1 DEF Busy
<1>7. QueueInOrder'
  BY <1>1, <1>6, QueueGrows DEF WindowInv, QueueInOrder, Messages
<1> QED
  BY <1>4, <1>5, <1>7 DEF WindowInv

\* The result of a check is shown, unless the choices are others by now.
LEMMA OnDestCheckedKeeps ==
  ASSUME WindowInv, OnDestChecked
  PROVE  WindowInv'
<1>1. /\ posted # <<>> /\ Head(posted) = "dest" /\ posted' = Tail(posted) /\ pending' = NoPlan
      /\ win' = DestChecked(win, pending)
      /\ UNCHANGED <<op, worker, cancelled, whole, bridge, machine, checks, lastDest, counts>>
  BY DEF OnDestChecked
<1>2. WindowTypes' /\ ChecksInOrder' /\ CheckIsOfChoices'
  <2>1. CASE win' = win
    BY <1>1, <2>1, CountsAre, WindowWaits
  <2>2. CASE win' # win
    <3> DEFINE plan == [result |-> pending.result, of |-> pending.of]
    <3>1. /\ win.open /\ pending # NoPlan /\ pending.seq = win.seq
          /\ win' = [win EXCEPT !.checking = FALSE, !.plan = plan]
      BY <1>1, <2>2, WindowIs DEF DestChecked
    <3>2. plan \in Plans /\ plan.of = pending.of /\ OfWindow(pending.seq, pending.of)
      BY <3>1 DEF WindowInv, WindowTypes, ChecksInOrder, Plans
    <3> HIDE DEF plan
    <3>3. /\ win' \in Windows /\ win'.id = win.id /\ win'.seq = win.seq /\ win'.plan = plan
          /\ win'.checked = win.checked /\ win'.dest = win.dest
      BY <3>1, <3>2, WindowIs DEF Windows
    <3>4. Choices(win') = Choices(win)
      BY <3>3 DEF Choices, Chosen
    <3>5. plan.of.window # win.id \/ plan.of = Choices(win)
      BY <3>1, <3>2 DEF OfWindow
    <3>6. CheckIsOfChoices'
      <4>1. win'.plan.of.window # win'.id \/ win'.plan.of = Choices(win')
        BY <3>3, <3>4, <3>5
      <4> QED
        BY <4>1 DEF CheckIsOfChoices, Choices, Chosen
    <3> QED
      BY <1>1, <3>1, <3>3, <3>4, <3>6, CountsAre, OpenWindowChanges
  <2> QED
    BY <2>1, <2>2
<1>3. ProgressInv'
  BY <1>1, ProgressPart DEF WindowInv
<1>4. Busy' = Busy
  BY <1>1 DEF Busy
<1>5. QueueInOrder'
  BY <1>1, <1>4, QueueShrinks DEF WindowInv, QueueInOrder
<1> QED
  BY <1>2, <1>3, <1>5 DEF WindowInv

\* What startCheck resets.
LEMMA RestartedIs ==
  ASSUME NEW w \in Windows
  PROVE  /\ Restarted(w) \in Windows /\ Restarted(w).id = w.id
         /\ Restarted(w).seq = w.seq + 1 /\ Restarted(w).plan = NoPlan
         /\ Restarted(w).checked = w.checked /\ Restarted(w).dest = w.dest
<1> DEFINE n == w.seq + 1
<1>1. n \in Nat
  BY DEF Windows
<1> HIDE DEF n
<1>2. Restarted(w) = [w EXCEPT !.plan = NoPlan, !.planErr = FALSE, !.checking = TRUE, !.seq = n]
  BY DEF Restarted, n
<1>3. /\ Restarted(w) \in Windows /\ Restarted(w).id = w.id
      /\ Restarted(w).seq = n /\ Restarted(w).plan = NoPlan
      /\ Restarted(w).checked = w.checked /\ Restarted(w).dest = w.dest
  BY <1>1, <1>2 DEF Windows
<1> QED
  BY <1>3 DEF n

\* The window opens, with a check of its own: no result of another window is of it.
LEMMA OpenRestoreKeeps ==
  ASSUME WindowInv, OpenRestore
  PROVE  WindowInv'
<1> DEFINE W(sets) == [open |-> TRUE, id |-> counts.windows + 1, checked |-> Preselected(sets),
                       dest |-> lastDest, plan |-> NoPlan, planErr |-> FALSE,
                       checking |-> FALSE, seq |-> 0, starting |-> FALSE, timer |-> FALSE]
<1>1. PICK sets \in SUBSET SetNo :
        /\ win' = Restarted(W(sets))
        /\ checks' = checks \cup {[n |-> counts.checks, seq |-> 1, of |-> Choices(W(sets))]}
        /\ counts' = [counts EXCEPT !.windows = counts.windows + 1, !.checks = counts.checks + 1]
        /\ UNCHANGED <<vars, pending, lastDest>>
  BY DEF OpenRestore
<1>2. PICK w : w = W(sets)
  OBVIOUS
<1>3. Preselected(sets) \in SUBSET SetNo
  BY DEF Preselected
<1>4. /\ w \in Windows /\ w.id = counts.windows + 1 /\ w.seq = 0 /\ w.dest = lastDest
      /\ w.checked = Preselected(sets)
  BY <1>2, <1>3, CountsAre DEF Windows
<1>5. /\ win' \in Windows /\ win'.id = w.id /\ win'.seq = 1 /\ win'.plan = NoPlan
      /\ win'.checked = w.checked /\ win'.dest = w.dest
  BY <1>1, <1>2, <1>4, RestartedIs
<1>6. Choices(win') = Choices(w) /\ Choices(w) \in ChoiceRecords /\ Choices(w).window = w.id
  BY <1>4, <1>5, ChoicesAre DEF Choices, Chosen
<1>7. /\ counts' \in [windows : Nat, checks : Nat, runs : Nat]
      /\ counts'.windows = counts.windows + 1
  <2>1. counts.windows + 1 \in Nat /\ counts.checks + 1 \in Nat
    BY CountsAre
  <2> QED
    BY <1>1, <2>1, CountsAre
<1> DEFINE c == [n |-> counts.checks, seq |-> 1, of |-> Choices(w)]
<1>8. /\ c \in [n : Nat, seq : Nat, of : ChoiceRecords] /\ c.seq = 1 /\ c.of = Choices(w)
      /\ checks' = checks \cup {c}
  BY <1>1, <1>2, <1>6, CountsAre
<1> HIDE DEF c
<1>9. WindowTypes'
  BY <1>1, <1>5, <1>7, <1>8 DEF WindowInv, WindowTypes
<1>10. ASSUME NEW seq, NEW of \in ChoiceRecords, OfWindow(seq, of) PROVE OfWindow(seq, of)'
  <2>1. of.window \in Nat /\ of.window <= counts.windows
    BY <1>10 DEF OfWindow, ChoiceRecords
  <2>2. of.window <= counts'.windows /\ of.window # win'.id
    BY <1>4, <1>5, <1>7, <2>1, CountsAre
  <2> QED
    BY <2>2 DEF OfWindow
<1>11. ASSUME NEW seq, NEW of, seq = 1, of = Choices(w) PROVE OfWindow(seq, of)'
  <2>1. of = Choices(win') /\ seq = win'.seq /\ of.window <= counts'.windows /\ seq <= win'.seq
    BY <1>4, <1>5, <1>6, <1>7, <1>11, CountsAre
  <2> QED
    BY <2>1 DEF OfWindow, Choices, Chosen
<1>12. ASSUME NEW x \in checks' PROVE OfWindow(x.seq, x.of)'
  <2>1. CASE x \in checks
    BY <1>10, <2>1 DEF WindowInv, WindowTypes, ChecksInOrder
  <2>2. CASE x = c
    BY <1>8, <1>11, <2>2
  <2> QED
    BY <1>8, <2>1, <2>2
<1>13. pending' # NoPlan => OfWindow(pending.seq, pending.of)'
  <2> SUFFICES ASSUME pending # NoPlan PROVE OfWindow(pending.seq, pending.of)'
    BY <1>1
  <2>1. pending.of \in ChoiceRecords /\ OfWindow(pending.seq, pending.of)
    BY DEF WindowInv, WindowTypes, ChecksInOrder
  <2>2. \A seq, of : of \in ChoiceRecords /\ OfWindow(seq, of) => OfWindow(seq, of)'
    BY <1>10
  <2> QED
    BY <1>1, <2>1, <2>2 DEF OfWindow, Choices, Chosen
<1>14. ChecksInOrder'
  <2>1. win'.id <= counts'.windows
    BY <1>4, <1>5, <1>7, CountsAre
  <2> QED
    BY <1>12, <1>13, <2>1 DEF ChecksInOrder
<1>15. CheckIsOfChoices'
  BY <1>5 DEF CheckIsOfChoices
<1> QED
  BY <1>1, <1>9, <1>14, <1>15, OperationPart DEF WindowInv

\* The destination is edited.
LEMMA EditDestKeeps ==
  ASSUME WindowInv, EditDest
  PROVE  WindowInv'
<1>1. PICK d \in Dest \cup {NoPath} :
        /\ win.open /\ win' = [Restarted(win) EXCEPT !.dest = d, !.timer = TRUE]
        /\ UNCHANGED <<vars, checks, pending, lastDest, counts>>
  BY DEF EditDest
<1>2. win' \in Windows /\ win'.id = win.id /\ win'.seq = win.seq + 1 /\ win'.plan = NoPlan
  BY <1>1, WindowIs, RestartedIs DEF Windows
<1>3. CheckIsOfChoices'
  BY <1>2 DEF CheckIsOfChoices
<1>4. WindowTypes' /\ ChecksInOrder' /\ CheckIsOfChoices'
  BY <1>1, <1>2, <1>3, CountsAre, OpenWindowChanges
<1> QED
  BY <1>1, <1>4, OperationPart DEF WindowInv

\* A check starts, or there is nothing to check.
LEMMA RunCheckKeeps ==
  ASSUME WindowInv, win.open, NEW w \in Windows, w.id = win.id,
         \/ w.seq = win.seq + 1 /\ w.plan = NoPlan
         \/ w.seq = win.seq /\ Choices(w) = Choices(win) /\ w.plan = win.plan,
         RunCheck(w), UNCHANGED <<vars, pending, lastDest>>
  PROVE  WindowInv'
<1>1. /\ win' \in Windows /\ win'.id = w.id /\ win'.seq = w.seq /\ win'.plan = w.plan
      /\ win'.checked = w.checked /\ win'.dest = w.dest
  BY DEF RunCheck, Windows
<1>2. Choices(win') = Choices(w)
  BY <1>1 DEF Choices, Chosen
<1>3. /\ checks' \subseteq checks \cup {[n |-> counts.checks, seq |-> win'.seq, of |-> Choices(win')]}
      /\ counts' = counts \/ counts' = [counts EXCEPT !.checks = counts.checks + 1]
  <2>1. checks' = checks \/ checks' = checks \cup {[n |-> counts.checks, seq |-> w.seq, of |-> Choices(w)]}
    BY DEF RunCheck
  <2>2. counts' = counts \/ counts' = [counts EXCEPT !.checks = counts.checks + 1]
    BY DEF RunCheck
  <2> QED
    BY <1>1, <1>2, <2>1, <2>2
<1>4. counts' \in [windows : Nat, checks : Nat, runs : Nat] /\ counts'.windows = counts.windows
  BY <1>3, CountsAre
<1>5. CheckIsOfChoices'
  <2>1. CASE w.plan = NoPlan
    BY <1>1, <2>1 DEF CheckIsOfChoices
  <2>2. CASE Choices(w) = Choices(win) /\ w.plan = win.plan
    <3>1. Choices(win') = Choices(win) /\ win'.plan = win.plan /\ win'.id = win.id
      BY <1>1, <1>2, <2>2
    <3>2. \/ win.plan = NoPlan \/ win.plan.of = OfRestore \/ win.plan.of.window # win.id
          \/ win.plan.of = Choices(win)
      BY DEF WindowInv, CheckIsOfChoices
    <3>3. \/ win'.plan = NoPlan \/ win'.plan.of = OfRestore \/ win'.plan.of.window # win'.id
          \/ win'.plan.of = Choices(win')
      BY <3>1, <3>2, Zenon
    <3> QED
      BY <3>3 DEF CheckIsOfChoices, Choices, Chosen
  <2> QED
    BY <2>1, <2>2
<1>6. WindowTypes' /\ ChecksInOrder' /\ CheckIsOfChoices'
  BY <1>1, <1>2, <1>3, <1>4, <1>5, CountsAre, OpenWindowChanges
<1> QED
  BY <1>6, OperationPart DEF WindowInv

\* A folder is checked or unchecked.
LEMMA ToggleSetKeeps ==
  ASSUME WindowInv, ToggleSet
  PROVE  WindowInv'
<1>1. PICK f \in Enabled :
        /\ win.open /\ UNCHANGED <<vars, pending, lastDest>>
        /\ RunCheck([Restarted(win) EXCEPT !.checked = IF f \in Restarted(win).checked
                                                       THEN Restarted(win).checked \ {f}
                                                       ELSE Restarted(win).checked \cup {f}])
  BY DEF ToggleSet
<1> DEFINE checked == IF f \in Restarted(win).checked THEN Restarted(win).checked \ {f}
                                                      ELSE Restarted(win).checked \cup {f}
<1>2. checked \in SUBSET SetNo
  BY <1>1, WindowIs, RestartedIs DEF Enabled
<1> HIDE DEF checked
<1>3. PICK w : w = [Restarted(win) EXCEPT !.checked = checked]
  OBVIOUS
<1>4. w \in Windows /\ w.id = win.id /\ w.seq = win.seq + 1 /\ w.plan = NoPlan
  BY <1>1, <1>2, <1>3, WindowIs, RestartedIs DEF Windows
<1>5. RunCheck(w)
  BY <1>1, <1>3 DEF checked
<1> QED
  BY <1>1, <1>4, <1>5, RunCheckKeeps

\* The timer, and the window without it.
LEMMA WithoutTimer ==
  ASSUME WindowInv, win.open
  PROVE  LET w == [win EXCEPT !.timer = FALSE]
         IN /\ w \in Windows /\ w.id = win.id /\ w.seq = win.seq /\ w.plan = win.plan
            /\ Choices(w) = Choices(win)
BY WindowIs DEF Windows, Choices, Chosen

\* The timer fires.
LEMMA TimerFiresKeeps ==
  ASSUME WindowInv, TimerFires
  PROVE  WindowInv'
<1>1. win.open /\ RunCheck([win EXCEPT !.timer = FALSE]) /\ UNCHANGED <<vars, pending, lastDest>>
  BY DEF TimerFires
<1>2. PICK w : w = [win EXCEPT !.timer = FALSE]
  OBVIOUS
<1>3. /\ w \in Windows /\ w.id = win.id /\ w.seq = win.seq /\ w.plan = win.plan
      /\ Choices(w) = Choices(win)
  BY <1>1, <1>2, WithoutTimer
<1> QED
  BY <1>1, <1>2, <1>3, RunCheckKeeps

\* The controls are made again.
LEMMA RebuildKeeps ==
  ASSUME WindowInv, Rebuild
  PROVE  WindowInv'
<1>1. /\ win.open /\ win' = [win EXCEPT !.timer = FALSE]
      /\ UNCHANGED <<vars, checks, pending, lastDest, counts>>
  BY DEF Rebuild
<1>2. /\ win' \in Windows /\ win'.id = win.id /\ win'.seq = win.seq /\ win'.plan = win.plan
      /\ Choices(win') = Choices(win)
  BY <1>1, WithoutTimer
<1>3. CheckIsOfChoices'
  <2>1. \/ win.plan = NoPlan \/ win.plan.of = OfRestore \/ win.plan.of.window # win.id
        \/ win.plan.of = Choices(win)
    BY <1>1 DEF WindowInv, CheckIsOfChoices
  <2>2. \/ win'.plan = NoPlan \/ win'.plan.of = OfRestore \/ win'.plan.of.window # win'.id
        \/ win'.plan.of = Choices(win')
    BY <1>2, <2>1, Zenon
  <2> QED
    BY <2>2 DEF CheckIsOfChoices, Choices, Chosen
<1>4. WindowTypes' /\ ChecksInOrder' /\ CheckIsOfChoices'
  BY <1>1, <1>2, <1>3, CountsAre, OpenWindowChanges
<1> QED
  BY <1>1, <1>4, OperationPart DEF WindowInv
-----------------------------------------------------------------------------
(* An operation starts, and its machine *)

\* Nothing is reported yet.
LEMMA NoReportIs ==
  /\ NoReport \in ReportRecords /\ NoReport.phase = "none"
  /\ Report("unlocking", 0, FALSE) \in ReportRecords
  /\ Report("unlocking", 0, FALSE).phase = "unlocking"
BY DEF NoReport, Report, ReportRecords, Phases

\* An operation starts: everything is as new.
LEMMA OperationStarts ==
  ASSUME op' \in [kind : {"none", "backup", "restore"}, verify : BOOLEAN, folders : Nat],
         NEW pc \in {"planning", "unlocking"}, worker' = [NoWorker EXCEPT !.pc = pc],
         cancelled' = FALSE, whole' = {},
         NEW r, bridge' = [report |-> r, announced |-> pc = "unlocking"],
         r = IF pc = "planning" THEN NoReport ELSE Report("unlocking", 0, FALSE),
         NEW stage \in {"planning", "running"}, machine' = [Idle EXCEPT !.stage = stage],
         stage = "running" => pc = "unlocking"
  PROVE  ProgressInv'
<1>1. /\ worker' \in WorkerRecords /\ worker'.pc = pc /\ worker'.item = 1 /\ worker'.result = "none"
  BY DEF NoWorker, WorkerRecords, Before
<1>2. /\ machine' \in [stage : {"idle", "planning", "running", "cancelling", "finished"},
                    progress : ReportRecords, finished : SUBSET [item : Nat, written : BOOLEAN],
                    result : {"none", "ok", "failed", "cancelled"}]
      /\ machine'.progress = NoReport /\ machine'.finished = {} /\ machine'.stage = stage
  BY NoReportIs DEF Idle
<1>3. /\ r \in ReportRecords /\ r.phase \in {"none", "unlocking"} /\ (pc = "planning" => r = NoReport)
  BY NoReportIs
<1>4. /\ bridge' \in [report : ReportRecords, announced : BOOLEAN] /\ bridge'.report = r
      /\ bridge'.announced = (pc = "unlocking")
  BY <1>3
<1>5. ProgressTypes'
  BY <1>1, <1>2, <1>4 DEF ProgressTypes
<1>6. WorkerInOrder'
  <2>1. \A f \in Folder' : ~(f < worker'.item)
    BY <1>1 DEF Folder
  <2>2. whole' \subseteq Folder'
    OBVIOUS
  <2> QED
    BY <1>1, <1>2, <1>3, <1>4, <2>1, <2>2 DEF WorkerInOrder, Before, After
<1>7. \A f \in machine'.finished : FALSE
  BY <1>2
<1>8. MachineInOrder'
  BY <1>2, <1>4, <1>7, NoReportIs DEF MachineInOrder, Finished, Phase
<1>9. ReportInOrder(bridge.report)' /\ ReportInOrder(machine.progress)'
  BY <1>2, <1>3, <1>4, NoReportIs DEF ReportInOrder
<1> QED
  BY <1>5, <1>6, <1>8, <1>9 DEF ProgressInv

\* While nothing is busy, no worker ends.
LEMMA NotBusy ==
  ASSUME WindowInv, ~Busy
  PROVE  worker.pc \in {"none", "over"} /\ \A i \in DOMAIN posted : posted[i] # "done"
BY DEF WindowInv, QueueInOrder

\* Start.
LEMMA StartRestoreKeeps ==
  ASSUME WindowInv, StartRestore
  PROVE  WindowInv'
<1>1. /\ win.open /\ ~Busy
      /\ win' = [win EXCEPT !.starting = TRUE, !.planErr = FALSE]
      /\ lastDest' = win.dest
      /\ counts' = [counts EXCEPT !.runs = counts.runs + 1]
      /\ op' = [kind |-> "restore", verify |-> FALSE, folders |-> Cardinality(Chosen(win))]
      /\ worker' = [NoWorker EXCEPT !.pc = "planning"]
      /\ cancelled' = FALSE /\ whole' = {}
      /\ bridge' = [report |-> NoReport, announced |-> FALSE]
      /\ machine' = [Idle EXCEPT !.stage = "planning"]
      /\ UNCHANGED <<posted, checks, pending>>
  BY DEF StartRestore
<1>2. Cardinality(Chosen(win)) \in Nat
  <2>1. Chosen(win) \subseteq SetNo /\ IsFiniteSet(SetNo)
    BY WindowAssumption DEF Chosen, Enabled
  <2> QED
    BY <2>1, FS_Subset, FS_CardinalityType
<1>3. op' \in [kind : {"none", "backup", "restore"}, verify : BOOLEAN, folders : Nat]
  BY <1>1, <1>2
<1>4. ProgressInv'
  <2>1. ("planning" = "unlocking") = FALSE
    OBVIOUS
  <2>2. bridge' = [report |-> NoReport, announced |-> "planning" = "unlocking"]
    BY <1>1, <2>1
  <2> QED
    BY <1>1, <1>3, <2>2, OperationStarts
<1>5. worker'.pc = "planning" /\ machine'.stage = "planning" /\ ~bridge'.announced
  BY <1>1 DEF NoWorker, Idle
<1>6. QueueInOrder'
  BY <1>1, <1>5, NotBusy, QueueWaits DEF WindowInv, Busy
<1>7. /\ win' \in Windows /\ win'.id = win.id /\ win'.seq = win.seq /\ win'.plan = win.plan
      /\ win'.checked = win.checked /\ win'.dest = win.dest
  BY <1>1, WindowIs DEF Windows
<1>8. Choices(win') = Choices(win)
  BY <1>7 DEF Choices, Chosen
<1>9. CheckIsOfChoices'
  <2>1. \/ win.plan = NoPlan \/ win.plan.of = OfRestore \/ win.plan.of.window # win.id
        \/ win.plan.of = Choices(win)
    BY <1>1 DEF WindowInv, CheckIsOfChoices
  <2>2. \/ win'.plan = NoPlan \/ win'.plan.of = OfRestore \/ win'.plan.of.window # win'.id
        \/ win'.plan.of = Choices(win')
    BY <1>7, <1>8, <2>1, Zenon
  <2> QED
    BY <2>2 DEF CheckIsOfChoices, Choices, Chosen
<1>10. /\ counts' \in [windows : Nat, checks : Nat, runs : Nat] /\ counts'.windows = counts.windows
       /\ lastDest' \in Dest \cup {NoPath}
  <2>1. counts.runs + 1 \in Nat
    BY CountsAre
  <2> QED
    BY <1>1, <2>1, CountsAre, WindowIs
<1>11. WindowTypes' /\ ChecksInOrder' /\ CheckIsOfChoices'
  BY <1>1, <1>7, <1>8, <1>9, <1>10, CountsAre, OpenWindowChanges
<1> QED
  BY <1>4, <1>6, <1>11 DEF WindowInv

\* A backup starts.
LEMMA StartBackupKeeps ==
  ASSUME WindowInv, StartBackup
  PROVE  WindowInv'
<1>1. /\ ~Busy /\ counts' = [counts EXCEPT !.runs = counts.runs + 1]
      /\ op' \in Operation
      /\ worker' = [NoWorker EXCEPT !.pc = "unlocking"]
      /\ cancelled' = FALSE /\ whole' = {}
      /\ bridge' = [report |-> Report("unlocking", 0, FALSE), announced |-> TRUE]
      /\ posted' = Append(posted, "progress")
      /\ machine' = [Idle EXCEPT !.stage = "running"]
      /\ UNCHANGED <<win, checks, pending, lastDest>>
  BY DEF StartBackup
<1>2. op' \in [kind : {"none", "backup", "restore"}, verify : BOOLEAN, folders : Nat]
  BY <1>1, ProgressAssumption DEF Operation
<1>3. ProgressInv'
  <2>1. ("unlocking" = "unlocking") = TRUE
    OBVIOUS
  <2>2. bridge' = [report |-> Report("unlocking", 0, FALSE), announced |-> "unlocking" = "unlocking"]
    BY <1>1, <2>1
  <2> QED
    BY <1>1, <1>2, <2>2, OperationStarts
<1>4. worker'.pc = "unlocking" /\ machine'.stage = "running" /\ Busy'
  BY <1>1 DEF NoWorker, Idle, Busy
<1>5. posted \in Seq(Messages) /\ "progress" \in Messages
  BY DEF WindowInv, QueueInOrder, Messages
<1>6. /\ posted' \in Seq(Messages) /\ \E i \in DOMAIN posted' : posted'[i] = "progress"
  BY <1>1, <1>5, Appended
<1>7. \A i \in DOMAIN posted' : posted'[i] # "done"
  BY <1>1, <1>5, Appended, NotBusy
<1>8. QueueInOrder'
  BY <1>4, <1>6, <1>7 DEF QueueInOrder, Messages
<1>9. counts' \in [windows : Nat, checks : Nat, runs : Nat] /\ counts'.windows = counts.windows
  <2>1. counts.runs + 1 \in Nat
    BY CountsAre
  <2> QED
    BY <1>1, <2>1, CountsAre
<1>10. WindowTypes' /\ ChecksInOrder' /\ CheckIsOfChoices'
  BY <1>1, <1>9, WindowWaits DEF WindowInv, WindowTypes
<1> QED
  BY <1>3, <1>8, <1>10 DEF WindowInv

MachineRecords ==
  [stage : {"idle", "planning", "running", "cancelling", "finished"},
   progress : ReportRecords, finished : SUBSET [item : Nat, written : BOOLEAN],
   result : {"none", "ok", "failed", "cancelled"}]

\* The machine goes to another stage, and keeps what it knows of the folders.
LEMMA StageChanges ==
  ASSUME ProgressInv, UNCHANGED <<op, worker, whole, bridge>>, cancelled' \in BOOLEAN,
         machine' \in MachineRecords,
         machine'.progress \in {machine.progress, NoReport}, Finished' \subseteq whole,
         machine'.stage # "running"
  PROVE  ProgressInv'
<1>1. ProgressTypes'
  BY DEF ProgressInv, ProgressTypes, MachineRecords
<1>2. Folder' = Folder /\ Phase' = Phase
  BY DEF Folder, Phase
<1>3. WorkerInOrder'
  BY <1>2 DEF ProgressInv, WorkerInOrder
<1>4. ReportInOrder(bridge.report)' /\ ReportInOrder(machine.progress)'
  BY <1>2, NoReportIs DEF ProgressInv, ReportInOrder
<1>5. MachineInOrder'
  BY <1>2, PhaseIs, NoReportIs DEF ProgressInv, MachineInOrder
<1> QED
  BY <1>1, <1>3, <1>4, <1>5 DEF ProgressInv

\* The machine as it is.
LEMMA MachineIs ==
  ASSUME WindowInv
  PROVE  /\ machine \in MachineRecords /\ machine.progress \in ReportRecords
         /\ Finished \subseteq whole /\ ProgressInv /\ bridge.announced \in BOOLEAN
BY DEF WindowInv, ProgressInv, ProgressTypes, MachineInOrder, MachineRecords

\* The operation is cancelled.
LEMMA CancelsKeeps ==
  ASSUME WindowInv, UNCHANGED <<op, worker, whole, bridge, posted>>, cancelled' \in BOOLEAN,
         \/ machine' = [machine EXCEPT !.stage = "cancelling"]
         \/ machine' = machine /\ cancelled' = cancelled
  PROVE  ProgressInv' /\ QueueInOrder'
<1>1. CASE machine' = [machine EXCEPT !.stage = "cancelling"]
  <2>1. /\ machine' \in MachineRecords /\ machine'.progress = machine.progress
        /\ machine'.finished = machine.finished /\ machine'.stage = "cancelling"
    BY <1>1, MachineIs DEF MachineRecords
  <2>2. Finished' \subseteq whole
    BY <2>1, MachineIs DEF Finished
  <2>3. ProgressInv'
    BY <2>1, <2>2, MachineIs, StageChanges
  <2>4. QueueInOrder'
    BY <2>1, QueueWaits DEF WindowInv, Busy
  <2> QED
    BY <2>3, <2>4
<1>2. CASE machine' = machine /\ cancelled' = cancelled
  BY <1>2, ProgressPart, QueueWaits DEF WindowInv, QueueInOrder, Busy
<1> QED
  BY <1>1, <1>2

\* Cancel run.
LEMMA CancelRunKeeps ==
  ASSUME WindowInv, CancelRun, WindowStays
  PROVE  WindowInv'
BY CancelsKeeps, WindowPart DEF CancelRun, WindowInv, WindowStays

\* Cancel in the window.
LEMMA CancelPressedKeeps ==
  ASSUME WindowInv, CancelPressed
  PROVE  WindowInv'
<1>1. /\ win' = NoWindow
      /\ UNCHANGED <<op, worker, whole, bridge, posted, checks, pending, lastDest, counts>>
      /\ \/ cancelled' = TRUE /\ machine' = [machine EXCEPT !.stage = "cancelling"]
         \/ UNCHANGED <<cancelled, machine>>
  BY DEF CancelPressed
<1>2. cancelled' \in BOOLEAN
  BY <1>1 DEF WindowInv, ProgressInv, ProgressTypes
<1>3. ProgressInv' /\ QueueInOrder'
  BY <1>1, <1>2, CancelsKeeps
<1> QED
  BY <1>1, <1>3, WindowCloses DEF WindowInv

\* The result is dismissed.
LEMMA DismissKeeps ==
  ASSUME WindowInv, Dismiss
  PROVE  WindowInv'
<1>1. /\ machine.stage = "finished" /\ machine' = Idle
      /\ UNCHANGED <<op, worker, cancelled, whole, bridge, posted, windowVars>>
  BY DEF Dismiss
<1>2. /\ machine' \in MachineRecords /\ machine'.progress = NoReport /\ machine'.finished = {}
      /\ machine'.stage = "idle"
  BY <1>1, NoReportIs DEF Idle, MachineRecords
<1>3. Finished' \subseteq whole
  BY <1>2 DEF Finished
<1>4. ProgressInv'
  BY <1>1, <1>2, <1>3, MachineIs, StageChanges DEF ProgressInv, ProgressTypes
<1>5. ~Busy /\ ~Busy'
  BY <1>1, <1>2 DEF Busy
<1>6. QueueInOrder'
  BY <1>1, <1>5, NotBusy, QueueWaits DEF WindowInv
<1> QED
  BY <1>1, <1>4, <1>6, WindowPart DEF WindowInv

-----------------------------------------------------------------------------
(* The UI thread *)

\* The step of the machine is recorded as done: its folder is there.
LEMMA StepFinished ==
  ASSUME WindowInv,
         machine.progress.phase \in {"backing up", "restoring"} => machine.progress.item \in whole
  PROVE  /\ FinishStep(machine) \in MachineRecords
         /\ FinishStep(machine).progress = machine.progress
         /\ FinishStep(machine).stage = machine.stage
         /\ {f.item : f \in FinishStep(machine).finished} \subseteq whole
<1> DEFINE d == [item |-> machine.progress.item, written |-> machine.progress.written]
<1>1. d \in [item : Nat, written : BOOLEAN] /\ d.item = machine.progress.item
  BY MachineIs DEF ReportRecords
<1> HIDE DEF d
<1>2. CASE machine.progress.phase \in {"backing up", "restoring"}
  <2>1. FinishStep(machine) = [machine EXCEPT !.finished = machine.finished \cup {d}]
    BY <1>2 DEF FinishStep, d
  <2>2. machine.finished \cup {d} \in SUBSET [item : Nat, written : BOOLEAN]
    BY <1>1, MachineIs DEF MachineRecords
  <2> DEFINE fin == machine.finished \cup {d}
  <2>3. \A f \in fin : f.item \in whole
    BY <1>1, <1>2, MachineIs DEF Finished
  <2> HIDE DEF fin
  <2>4. /\ FinishStep(machine) \in MachineRecords
        /\ FinishStep(machine).progress = machine.progress
        /\ FinishStep(machine).stage = machine.stage
        /\ FinishStep(machine).finished = fin
    BY <2>1, <2>2, MachineIs DEF MachineRecords, fin
  <2> QED
    BY <2>3, <2>4
<1>3. CASE machine.progress.phase \notin {"backing up", "restoring"}
  <2>1. FinishStep(machine) = machine
    BY <1>3 DEF FinishStep
  <2> QED
    BY <2>1, MachineIs DEF Finished
<1> QED
  BY <1>2, <1>3

\* The machine takes the latest report.
LEMMA OnProgressKeeps ==
  ASSUME WindowInv, OnProgress, WindowStays
  PROVE  WindowInv'
<1>1. /\ posted # <<>> /\ Head(posted) = "progress" /\ posted' = Tail(posted)
      /\ bridge' = [bridge EXCEPT !.announced = FALSE]
      /\ machine' = Progressed(machine, bridge.report)
      /\ UNCHANGED <<op, worker, cancelled, whole>>
  BY DEF OnProgress, TakeProgress
<1>2. /\ bridge \in [report : ReportRecords, announced : BOOLEAN] /\ bridge.report \in ReportRecords
  BY DEF WindowInv, ProgressInv, ProgressTypes
<1>3. /\ bridge' \in [report : ReportRecords, announced : BOOLEAN]
      /\ bridge'.report = bridge.report /\ bridge'.announced = FALSE
  BY <1>1, <1>2
<1>4. Folder' = Folder /\ Phase' = Phase
  BY <1>1 DEF Folder, Phase
<1>5. /\ machine' \in MachineRecords /\ Finished' \subseteq whole /\ machine'.stage = machine.stage
      /\ machine'.progress = IF machine.stage = "running" THEN bridge.report ELSE machine.progress
  <2>1. CASE machine.stage # "running"
    <3>1. machine' = machine
      BY <1>1, <2>1 DEF Progressed
    <3> QED
      BY <2>1, <3>1, MachineIs DEF Finished
  <2>2. CASE machine.stage = "running" /\ bridge.report.phase = machine.progress.phase
             /\ bridge.report.item = machine.progress.item
    <3>1. machine' = [machine EXCEPT !.progress = bridge.report]
      BY <1>1, <2>2 DEF Progressed
    <3>2. /\ machine' \in MachineRecords /\ machine'.finished = machine.finished
          /\ machine'.stage = machine.stage /\ machine'.progress = bridge.report
      BY <1>2, <3>1, MachineIs DEF MachineRecords
    <3> QED
      BY <2>2, <3>2, MachineIs DEF Finished
  <2>3. CASE machine.stage = "running" /\ ~(bridge.report.phase = machine.progress.phase
                                            /\ bridge.report.item = machine.progress.item)
    <3>1. machine.progress.phase \in {"backing up", "restoring"} => machine.progress.phase = Phase
      BY DEF WindowInv, ProgressInv, ReportInOrder
    <3>2. machine.progress.phase \in {"backing up", "restoring"} => machine.progress.item \in whole
      BY <2>3, <3>1 DEF WindowInv, ProgressInv, MachineInOrder
    <3>3. /\ FinishStep(machine) \in MachineRecords
          /\ FinishStep(machine).stage = machine.stage
          /\ {f.item : f \in FinishStep(machine).finished} \subseteq whole
      BY <3>2, StepFinished
    <3>4. machine' = [FinishStep(machine) EXCEPT !.progress = bridge.report]
      BY <1>1, <2>3 DEF Progressed
    <3>5. /\ machine' \in MachineRecords /\ machine'.finished = FinishStep(machine).finished
          /\ machine'.stage = machine.stage /\ machine'.progress = bridge.report
      BY <1>2, <3>3, <3>4 DEF MachineRecords
    <3> QED
      BY <2>3, <3>3, <3>5 DEF Finished
  <2> QED
    BY <2>1, <2>2, <2>3
<1>6. ProgressTypes'
  BY <1>1, <1>3, <1>5 DEF WindowInv, ProgressInv, ProgressTypes, MachineRecords
<1>7. WorkerInOrder'
  BY <1>1, <1>3, <1>4, <1>5 DEF WindowInv, ProgressInv, WorkerInOrder
<1>8. ReportInOrder(bridge.report)' /\ ReportInOrder(machine.progress)'
  BY <1>1, <1>3, <1>4, <1>5 DEF WindowInv, ProgressInv, ReportInOrder
<1>9. MachineInOrder'
  BY <1>1, <1>3, <1>4, <1>5 DEF WindowInv, ProgressInv, MachineInOrder
<1>10. ProgressInv'
  BY <1>6, <1>7, <1>8, <1>9 DEF ProgressInv
<1>11. Busy' = Busy
  BY <1>5 DEF Busy
<1>12. QueueInOrder'
  BY <1>1, <1>3, <1>11, QueueShrinks DEF WindowInv, QueueInOrder
<1> QED
  BY <1>10, <1>12, WindowPart DEF WindowInv, WindowStays

\* The last message of a worker is handled: nothing is busy any more.
LEMMA DoneTaken ==
  ASSUME WindowInv, posted # <<>>, Head(posted) = "done", posted' = Tail(posted),
         UNCHANGED <<worker, bridge>>, machine'.stage \in {"idle", "finished"}
  PROVE  QueueInOrder' /\ worker.pc = "over"
<1>1. posted \in Seq(Messages)
  BY DEF WindowInv, QueueInOrder, Messages
<1>2. 1 \in DOMAIN posted /\ posted[1] = "done"
  BY <1>1, Taken
<1>3. worker.pc = "over"
  BY <1>2 DEF WindowInv, QueueInOrder
<1>4. QueueInOrder'
  BY <1>3, QueueShrinks DEF WindowInv
<1> QED
  BY <1>3, <1>4

\* An operation has ended, and its window is closed.
LEMMA OnWorkerDoneKeeps ==
  ASSUME WindowInv, OnWorkerDone, WindowStays
  PROVE  WindowInv'
<1>1. /\ posted # <<>> /\ Head(posted) = "done" /\ posted' = Tail(posted)
      /\ machine' = Done(machine, worker.result)
      /\ UNCHANGED <<op, worker, cancelled, whole, bridge>>
  BY DEF OnWorkerDone
<1> DEFINE m == IF worker.result = "ok" THEN FinishStep(machine) ELSE machine
           result == worker.result
<1>2. /\ m \in MachineRecords /\ m.progress = machine.progress
      /\ {f.item : f \in m.finished} \subseteq whole
  <2>1. CASE worker.result = "ok"
    <3>1. machine.progress.phase \in {"backing up", "restoring"} => machine.progress.item \in Folder
      BY DEF WindowInv, ProgressInv, ReportInOrder
    <3>2. machine.progress.phase \in {"backing up", "restoring"} => whole = Folder
      BY <2>1, NoReportIs DEF WindowInv, ProgressInv, WorkerInOrder
    <3> QED
      BY <2>1, <3>1, <3>2, StepFinished
  <2>2. CASE worker.result # "ok"
    BY <2>2, MachineIs DEF Finished
  <2> QED
    BY <2>1, <2>2
<1>3. result \in {"none", "ok", "failed", "cancelled"}
  BY WorkerIs
<1>4. machine' = [m EXCEPT !.stage = "finished", !.result = result]
  BY <1>1 DEF Done
<1> HIDE DEF m, result
<1>5. /\ machine' \in MachineRecords /\ machine'.progress = machine.progress
      /\ machine'.finished = m.finished /\ machine'.stage = "finished"
  BY <1>2, <1>3, <1>4 DEF MachineRecords
<1>6. Finished' \subseteq whole
  BY <1>2, <1>5 DEF Finished
<1>7. ProgressInv'
  BY <1>1, <1>5, <1>6, MachineIs, StageChanges DEF ProgressInv, ProgressTypes
<1>8. QueueInOrder'
  BY <1>1, <1>5, DoneTaken
<1> QED
  BY <1>7, <1>8, WindowPart DEF WindowInv, WindowStays

\* A restore has ended before it started.
LEMMA OnRestoreDoneKeeps ==
  ASSUME WindowInv, OnRestoreDone
  PROVE  WindowInv'
<1>1. /\ posted # <<>> /\ Head(posted) = "done" /\ win.open /\ posted' = Tail(posted)
      /\ machine' = Idle /\ win' = [win EXCEPT !.starting = FALSE, !.planErr = TRUE]
      /\ UNCHANGED <<op, worker, cancelled, whole, bridge, checks, pending, lastDest, counts>>
  BY DEF OnRestoreDone, Settled
<1>2. /\ machine' \in MachineRecords /\ machine'.progress = NoReport /\ machine'.finished = {}
      /\ machine'.stage = "idle"
  BY <1>1, NoReportIs DEF Idle, MachineRecords
<1>3. Finished' \subseteq whole
  BY <1>2 DEF Finished
<1>4. ProgressInv'
  BY <1>1, <1>2, <1>3, MachineIs, StageChanges DEF ProgressInv, ProgressTypes
<1>5. QueueInOrder'
  BY <1>1, <1>2, DoneTaken
<1>6. /\ win' \in Windows /\ win'.id = win.id /\ win'.seq = win.seq /\ win'.plan = win.plan
      /\ win'.checked = win.checked /\ win'.dest = win.dest
  BY <1>1, WindowIs DEF Windows
<1>7. Choices(win') = Choices(win)
  BY <1>6 DEF Choices, Chosen
<1>8. CheckIsOfChoices'
  <2>1. \/ win.plan = NoPlan \/ win.plan.of = OfRestore \/ win.plan.of.window # win.id
        \/ win.plan.of = Choices(win)
    BY <1>1 DEF WindowInv, CheckIsOfChoices
  <2>2. \/ win'.plan = NoPlan \/ win'.plan.of = OfRestore \/ win'.plan.of.window # win'.id
        \/ win'.plan.of = Choices(win')
    BY <1>6, <1>7, <2>1, Zenon
  <2> QED
    BY <2>2 DEF CheckIsOfChoices, Choices, Chosen
<1>9. WindowTypes' /\ ChecksInOrder' /\ CheckIsOfChoices'
  BY <1>1, <1>6, <1>7, <1>8, CountsAre, OpenWindowChanges
<1> QED
  BY <1>4, <1>5, <1>9 DEF WindowInv

-----------------------------------------------------------------------------
(* The restore until it starts *)

\* A message is handled, and the answer makes the worker post the next one.
LEMMA QueueTurns ==
  ASSUME QueueInOrder, posted # <<>>, NEW m \in {"start", "progress"},
         Head(posted) \notin {"done", "progress"},
         posted' = Append(Tail(posted), m),
         bridge'.announced => bridge.announced \/ m = "progress",
         worker.pc # "over", worker'.pc \notin {"none", "over"} => Busy'
  PROVE  QueueInOrder'
<1>1. posted \in Seq(Messages) /\ m \in Messages
  BY DEF QueueInOrder, Messages
<1>2. /\ Tail(posted) \in Seq(Messages)
      /\ \A i \in DOMAIN Tail(posted) : i + 1 \in DOMAIN posted /\ Tail(posted)[i] = posted[i + 1]
      /\ \A x : x # Head(posted) /\ (\E i \in DOMAIN posted : posted[i] = x) =>
                  \E i \in DOMAIN Tail(posted) : Tail(posted)[i] = x
  BY <1>1, Taken
<1>3. \A i \in DOMAIN posted : posted[i] # "done"
  BY DEF QueueInOrder
<1>4. \A i \in DOMAIN Tail(posted) : Tail(posted)[i] # "done"
  BY <1>2, <1>3
<1> DEFINE t == Tail(posted)
<1>5. bridge.announced => \E i \in DOMAIN t : t[i] = "progress"
  <2>1. bridge.announced => \E i \in DOMAIN posted : posted[i] = "progress"
    BY DEF QueueInOrder
  <2>2. "progress" # Head(posted)
    OBVIOUS
  <2> QED
    BY <1>2, <2>1, <2>2, Zenon
<1> HIDE DEF t
<1>6. t \in Seq(Messages) /\ posted' = Append(t, m) /\ \A i \in DOMAIN t : t[i] # "done"
  BY <1>2, <1>4 DEF t
<1>7. posted' \in Seq(Messages)
  BY <1>1, <1>6, Appended
<1>8. bridge'.announced => \E i \in DOMAIN posted' : posted'[i] = "progress"
  BY <1>1, <1>5, <1>6, Appended
<1>9. \A i \in DOMAIN posted' : posted'[i] # "done"
  BY <1>1, <1>6, Appended
<1> QED
  BY <1>7, <1>8, <1>9 DEF QueueInOrder, Messages, Busy

\* The restore plans.
LEMMA WorkerPlansKeeps ==
  ASSUME WindowInv, WorkerPlans
  PROVE  WindowInv'
<1>1. /\ worker.pc = "planning" /\ UNCHANGED <<op, cancelled, whole, bridge, machine>> /\ WindowStays
      /\ \/ Ends("failed") /\ UNCHANGED posted
         \/ (Goes("planned") \/ Goes("blocked")) /\ posted' = Append(posted, "plan")
  BY DEF WorkerPlans
<1>2. /\ worker' \in WorkerRecords /\ worker'.item = worker.item
      /\ \/ worker'.pc \in {"planned", "blocked"} /\ worker'.result = worker.result
         \/ worker'.pc = "ended" /\ worker'.result \notin {"ok", "none"}
  BY <1>1, EndsGives, GoesGives
<1>3. WorkerInOrder'
  BY <1>1, <1>2, WorkerIs DEF WorkerInOrder, Folder, After, Before
<1>4. worker.item <= worker'.item /\ whole' \subseteq Folder /\ whole \subseteq whole'
  BY <1>1, <1>2, WorkerIs DEF WorkerInOrder
<1>5. ProgressInv'
  BY <1>1, <1>2, <1>3, <1>4, SilentStep DEF WindowInv
<1>6. Busy /\ Busy' = Busy
  BY <1>1 DEF WindowInv, QueueInOrder, Busy
<1>7. QueueInOrder'
  <2>1. CASE UNCHANGED posted
    BY <1>1, <1>6, <2>1, QueueWaits DEF WindowInv
  <2>2. CASE posted' = Append(posted, "plan")
    BY <1>1, <1>6, <2>2, QueueGrows DEF WindowInv, Messages
  <2> QED
    BY <1>1, <2>1, <2>2
<1> QED
  BY <1>1, <1>5, <1>7, WindowPart DEF WindowInv, WindowStays

\* The question of a cancelled restore is answered.
LEMMA QuestionCancelledKeeps ==
  ASSUME WindowInv, QuestionCancelled
  PROVE  WindowInv'
<1>1. /\ worker.pc \in {"planned", "blocked", "asking"} /\ Ends("cancelled")
      /\ UNCHANGED <<op, cancelled, whole, bridge, posted, machine>> /\ WindowStays
  BY DEF QuestionCancelled
<1>2. /\ worker' \in WorkerRecords /\ worker'.item = worker.item /\ worker'.pc = "ended"
      /\ worker'.result \notin {"ok", "none"}
  BY <1>1, EndsGives
<1>3. WorkerInOrder'
  BY <1>1, <1>2, WorkerIs DEF WorkerInOrder, Folder, After, Before
<1>4. worker.item <= worker'.item /\ whole' \subseteq Folder /\ whole \subseteq whole'
  BY <1>1, <1>2, WorkerIs DEF WorkerInOrder
<1> QED
  BY <1>1, <1>2, <1>3, <1>4, WorkerSilent

\* The plan of the restore is shown.
LEMMA OnPlanKeeps ==
  ASSUME WindowInv, OnPlan
  PROVE  WindowInv'
<1>1. /\ posted # <<>> /\ Head(posted) = "plan"
      /\ UNCHANGED <<op, cancelled, whole, bridge, machine, checks, pending, lastDest, counts>>
  BY DEF OnPlan
<1>2. Busy' = Busy
  BY <1>1 DEF Busy
<1>3. CASE worker.pc \in {"planned", "blocked"} /\ ~cancelled
  <2> DEFINE plan == [result |-> IF worker.pc = "blocked" THEN "blocked" ELSE "ok",
                      of |-> OfRestore]
             n == win.seq + 1
  <2>1. /\ win' = IF ~win.open THEN win
                  ELSE [win EXCEPT !.checking = FALSE, !.seq = n, !.plan = plan]
        /\ \/ Ends("failed") /\ posted' = Tail(posted)
           \/ Goes("asking") /\ posted' = Append(Tail(posted), "start")
    BY <1>3 DEF OnPlan
  <2>2. plan \in Plans /\ plan.of = OfRestore
    BY DEF Plans, OfRestore, ChoiceRecords
  <2> HIDE DEF plan
  <2>3. /\ worker' \in WorkerRecords /\ worker'.item = worker.item
        /\ \/ worker'.pc = "asking" /\ worker'.result = worker.result
           \/ worker'.pc = "ended" /\ worker'.result \notin {"ok", "none"}
    BY <2>1, EndsGives, GoesGives
  <2>4. WorkerInOrder'
    BY <1>1, <1>3, <2>3, WorkerIs DEF WorkerInOrder, Folder, After, Before
  <2>5. worker.item <= worker'.item /\ whole' \subseteq Folder /\ whole \subseteq whole'
    BY <1>1, <2>3, WorkerIs DEF WorkerInOrder
  <2>6. ProgressInv'
    BY <1>1, <2>3, <2>4, <2>5, SilentStep DEF WindowInv
  <2>7. Busy
    BY <1>3 DEF WindowInv, QueueInOrder
  <2>8. QueueInOrder'
    <3>1. CASE posted' = Tail(posted)
      BY <1>1, <1>2, <1>3, <2>3, <2>7, <3>1, QueueShrinks DEF WindowInv
    <3>2. CASE posted' = Append(Tail(posted), "start")
      BY <1>1, <1>2, <1>3, <2>3, <2>7, <3>2, QueueTurns DEF WindowInv
    <3> QED
      BY <2>1, <3>1, <3>2
  <2>9. WindowTypes' /\ ChecksInOrder' /\ CheckIsOfChoices'
    <3>1. CASE ~win.open
      BY <1>1, <2>1, <3>1, WindowWaits, CountsAre DEF WindowInv, WindowTypes
    <3>2. CASE win.open
      <4>1. n \in Nat
        BY <3>2, WindowIs
      <4>2. win' = [win EXCEPT !.checking = FALSE, !.seq = n, !.plan = plan]
        BY <2>1, <3>2
      <4> HIDE DEF n
      <4>3. win' \in Windows /\ win'.id = win.id /\ win'.seq = n /\ win'.plan = plan
        BY <2>2, <3>2, <4>1, <4>2, WindowIs DEF Windows
      <4>4. CheckIsOfChoices'
        BY <2>2, <4>3 DEF CheckIsOfChoices, OfRestore
      <4>5. win'.seq = win.seq + 1
        BY <4>3 DEF n
      <4> QED
        BY <1>1, <3>2, <4>3, <4>4, <4>5, CountsAre, OpenWindowChanges
    <3> QED
      BY <3>1, <3>2
  <2> QED
    BY <2>6, <2>8, <2>9 DEF WindowInv
<1>4. CASE ~(worker.pc \in {"planned", "blocked"} /\ ~cancelled)
  <2>1. posted' = Tail(posted) /\ UNCHANGED <<win, worker>>
    BY <1>4 DEF OnPlan
  <2>2. ProgressInv'
    BY <1>1, <2>1, ProgressPart DEF WindowInv
  <2>3. QueueInOrder'
    BY <1>1, <1>2, <2>1, QueueShrinks DEF WindowInv, QueueInOrder
  <2>4. WindowTypes' /\ ChecksInOrder' /\ CheckIsOfChoices'
    BY <1>1, <2>1, WindowPart DEF WindowInv, windowVars
  <2> QED
    BY <2>2, <2>3, <2>4 DEF WindowInv
<1> QED
  BY <1>3, <1>4

\* The start question is answered.
LEMMA OnConfirmStartKeeps ==
  ASSUME WindowInv, OnConfirmStart
  PROVE  WindowInv'
<1>1. /\ posted # <<>> /\ Head(posted) = "start"
      /\ UNCHANGED <<op, cancelled, whole, checks, pending, lastDest, counts>>
  BY DEF OnConfirmStart
<1>2. CASE worker.pc # "asking" \/ cancelled
  <2>1. posted' = Tail(posted) /\ UNCHANGED <<win, worker, bridge, machine>>
    BY <1>2 DEF OnConfirmStart
  <2>2. ProgressInv'
    BY <1>1, <2>1, ProgressPart DEF WindowInv
  <2>3. Busy' = Busy
    BY <2>1 DEF Busy
  <2>4. QueueInOrder'
    BY <1>1, <2>1, <2>3, QueueShrinks DEF WindowInv, QueueInOrder
  <2>5. WindowTypes' /\ ChecksInOrder' /\ CheckIsOfChoices'
    BY <1>1, <2>1, WindowPart DEF WindowInv, windowVars
  <2> QED
    BY <2>2, <2>4, <2>5 DEF WindowInv
<1>3. CASE worker.pc = "asking" /\ ~cancelled /\ (~win.open \/ ~win.starting)
  <2>1. posted' = Tail(posted) /\ Ends("ok") /\ UNCHANGED <<win, bridge, machine>>
    BY <1>3 DEF OnConfirmStart
  <2>2. worker' \in WorkerRecords /\ worker'.item = worker.item /\ worker'.pc = "ended"
    BY <2>1, EndsGives
  <2>3. bridge'.report = NoReport /\ machine'.progress = NoReport
    BY <1>3, <2>1, WorkerIs DEF WorkerInOrder, Before
  <2>4. WorkerInOrder'
    BY <1>1, <1>3, <2>2, <2>3, WorkerIs DEF WorkerInOrder, Folder, After, Before
  <2>5. worker.item <= worker'.item /\ whole' \subseteq Folder /\ whole \subseteq whole'
    BY <1>1, <2>2, WorkerIs DEF WorkerInOrder
  <2>6. ProgressInv'
    BY <1>1, <2>1, <2>2, <2>4, <2>5, SilentStep DEF WindowInv
  <2>7. Busy /\ Busy' = Busy
    BY <1>3, <2>1 DEF WindowInv, QueueInOrder, Busy
  <2>8. QueueInOrder'
    BY <1>1, <1>3, <2>1, <2>2, <2>7, QueueShrinks DEF WindowInv
  <2>9. WindowTypes' /\ ChecksInOrder' /\ CheckIsOfChoices'
    BY <1>1, <2>1, WindowPart DEF WindowInv, windowVars
  <2> QED
    BY <2>6, <2>8, <2>9 DEF WindowInv
<1>4. CASE worker.pc = "asking" /\ ~cancelled /\ win.open /\ win.starting
  <2>1. /\ win' = NoWindow /\ machine' = [machine EXCEPT !.stage = "running"] /\ Goes("unlocking")
        /\ bridge' = [report |-> Report("unlocking", 0, FALSE), announced |-> TRUE]
        /\ posted' = Append(Tail(posted), "progress")
    BY <1>4 DEF OnConfirmStart
  <2>2. /\ worker' \in WorkerRecords /\ worker'.pc = "unlocking" /\ worker'.item = worker.item
        /\ worker'.result = worker.result
    BY <2>1, GoesGives
  <2>3. /\ machine' \in MachineRecords /\ machine'.progress = machine.progress
        /\ machine'.finished = machine.finished /\ machine'.stage = "running"
    BY <2>1, MachineIs DEF MachineRecords
  <2>4. /\ bridge' \in [report : ReportRecords, announced : BOOLEAN] /\ bridge'.announced
        /\ bridge'.report.phase = "unlocking"
    BY <2>1, NoReportIs
  <2>5. Folder' = Folder /\ Phase' = Phase /\ Finished' = Finished
    BY <1>1, <2>3 DEF Folder, Phase, Finished
  <2>6. machine.progress = NoReport /\ worker.item = 1 /\ worker.result = "none"
    BY <1>4, WorkerIs DEF WorkerInOrder, Before, After
  <2>7. ProgressTypes'
    BY <1>1, <2>2, <2>3, <2>4 DEF WindowInv, ProgressInv, ProgressTypes, MachineRecords
  <2>8. WorkerInOrder'
    BY <1>1, <2>2, <2>5, <2>6, WorkerIs DEF WorkerInOrder, Before, After
  <2>9. ReportInOrder(bridge.report)' /\ ReportInOrder(machine.progress)'
    BY <2>3, <2>4, <2>6, NoReportIs DEF ReportInOrder
  <2>10. MachineInOrder'
    BY <1>1, <2>3, <2>4, <2>5, <2>6, NoReportIs, PhaseIs, MachineIs DEF MachineInOrder
  <2>11. ProgressInv'
    BY <2>7, <2>8, <2>9, <2>10 DEF ProgressInv
  <2>12. Busy'
    BY <2>3 DEF Busy
  <2>13. QueueInOrder'
    BY <1>1, <1>4, <2>1, <2>12, QueueTurns DEF WindowInv
  <2>14. WindowTypes' /\ ChecksInOrder' /\ CheckIsOfChoices'
    BY <1>1, <2>1, WindowCloses
  <2> QED
    BY <2>11, <2>13, <2>14 DEF WindowInv
<1> QED
  BY <1>2, <1>3, <1>4

-----------------------------------------------------------------------------
(* The theorems *)

\* No window, no operation.
LEMMA WindowInvInit == WindowInit => WindowInv
<1> SUFFICES ASSUME WindowInit PROVE WindowInv
  OBVIOUS
<1>1. /\ op = NoOperation /\ worker = NoWorker /\ cancelled = FALSE /\ whole = {}
      /\ bridge = [report |-> NoReport, announced |-> FALSE] /\ posted = <<>> /\ machine = Idle
      /\ win = NoWindow /\ checks = {} /\ pending = NoPlan /\ lastDest \in Dest
      /\ counts = [windows |-> 0, checks |-> 0, runs |-> 0]
  BY DEF WindowInit, Init
<1>2. /\ worker \in WorkerRecords /\ worker.pc = "none" /\ worker.item = 1 /\ worker.result = "none"
  BY <1>1 DEF NoWorker, WorkerRecords, Before
<1>3. /\ machine \in MachineRecords /\ machine.progress = NoReport /\ machine.finished = {}
      /\ machine.stage = "idle" /\ bridge.report = NoReport /\ bridge.announced = FALSE
      /\ bridge \in [report : ReportRecords, announced : BOOLEAN]
  BY <1>1, NoReportIs DEF Idle, MachineRecords
<1>4. op \in [kind : {"none", "backup", "restore"}, verify : BOOLEAN, folders : Nat] /\ op.folders = 0
  BY <1>1 DEF NoOperation
<1>5. ProgressTypes
  BY <1>1, <1>2, <1>3, <1>4 DEF ProgressTypes, MachineRecords
<1>6. WorkerInOrder
  <2>1. \A f \in Folder : ~(f < worker.item)
    BY <1>2, <1>4 DEF Folder
  <2> QED
    BY <1>1, <1>2, <1>3, <2>1 DEF WorkerInOrder, After, Before
<1>7. MachineInOrder /\ ReportInOrder(bridge.report) /\ ReportInOrder(machine.progress)
  BY <1>1, <1>3, NoReportIs, PhaseIs DEF MachineInOrder, ReportInOrder, Finished
<1>8. QueueInOrder
  BY <1>1, <1>2, <1>3 DEF QueueInOrder
<1>9. WindowTypes
  BY <1>1 DEF WindowTypes
<1>10. ChecksInOrder /\ CheckIsOfChoices
  BY <1>1 DEF ChecksInOrder, CheckIsOfChoices, NoWindow
<1> QED
  BY <1>5, <1>6, <1>7, <1>8, <1>9, <1>10 DEF WindowInv, ProgressInv

\* Every step keeps the invariant.
LEMMA WindowInvNext == WindowInv /\ [WindowNext]_allVars => WindowInv'
<1> SUFFICES ASSUME WindowInv, [WindowNext]_allVars PROVE WindowInv'
  OBVIOUS
<1>1. ASSUME Worker PROVE WindowInv'
  BY <1>1, WorkerPlansKeeps, QuestionCancelledKeeps, WorksKeeps DEF Worker
<1>2. ASSUME UIThread PROVE WindowInv'
  BY <1>2, OnDestCheckedKeeps, OnPlanKeeps, OnConfirmStartKeeps, OnRestoreDoneKeeps,
     OnProgressKeeps, OnWorkerDoneKeeps DEF UIThread
<1>3. ASSUME UNCHANGED <<vars, windowVars>> PROVE WindowInv'
  BY <1>3, OperationPart, WindowPart DEF WindowInv
<1> QED
  BY <1>1, <1>2, <1>3, CheckDoneKeeps, OpenRestoreKeeps, EditDestKeeps, ToggleSetKeeps,
     TimerFiresKeeps, RebuildKeeps, StartRestoreKeeps, CancelPressedKeeps, StartBackupKeeps,
     DismissKeeps, CancelRunKeeps DEF WindowNext, AtRest, allVars

\* The inductive invariant of the window.
LEMMA WindowInvariant == WindowSpec => []WindowInv
BY WindowInvInit, WindowInvNext, PTL DEF WindowSpec

\* A sequence of one step, and of none.
LEMMA ShortSeqs ==
  ASSUME NEW S, NEW a \in S
  PROVE  <<a>> \in Seq(S) /\ <<>> \in Seq(S)
OBVIOUS

\* The steps after the one that works on the folders.
LEMMA TrailIs ==
  \A a \in DOMAIN Trail : a \in Nat /\ (a = 1 => Trail[a] = "unlocking") /\ a >= 1
                          /\ (a > 2 => Trail[a] \in {"verifying", "cleaning up"})
<1> DEFINE Late == {"verifying", "cleaning up"}
           hd == <<"unlocking", Phase>>
           v == IF op.verify THEN <<"verifying">> ELSE <<>>
           c == IF op.kind = "backup" THEN <<"cleaning up">> ELSE <<>>
           S == Late \cup {"unlocking", Phase}
<1>1. v \in Seq(Late) /\ c \in Seq(Late) /\ hd \in Seq(S) /\ v \in Seq(S) /\ c \in Seq(S)
  <2>1. "verifying" \in Late /\ "cleaning up" \in Late /\ Late \subseteq S
    OBVIOUS
  <2>2. "unlocking" \in S /\ Phase \in S
    OBVIOUS
  <2> HIDE DEF Late, S
  <2>3. hd \in Seq(S)
    BY <2>2
  <2>4. v \in Seq(Late) /\ v \in Seq(S)
    <3>1. <<"verifying">> \in Seq(Late) /\ <<>> \in Seq(Late)
      BY <2>1, ShortSeqs
    <3>2. v = <<"verifying">> \/ v = <<>>
      OBVIOUS
    <3> HIDE DEF v
    <3>3. v \in Seq(Late)
      BY <3>1, <3>2
    <3> QED
      BY <2>1, <3>3, SeqMonotonic
  <2>5. c \in Seq(Late) /\ c \in Seq(S)
    <3>1. <<"cleaning up">> \in Seq(Late) /\ <<>> \in Seq(Late)
      BY <2>1, ShortSeqs
    <3>2. c = <<"cleaning up">> \/ c = <<>>
      OBVIOUS
    <3> HIDE DEF c
    <3>3. c \in Seq(Late)
      BY <3>1, <3>2
    <3> QED
      BY <2>1, <3>3, SeqMonotonic
  <2> QED
    BY <2>3, <2>4, <2>5
<1>2. Len(hd) = 2 /\ hd[1] = "unlocking"
  OBVIOUS
<1>3. Trail = (hd \o v) \o c
  BY DEF Trail
<1> HIDE DEF hd, v, c, S, Late
<1> DEFINE t == hd \o v
<1>4. /\ t \in Seq(S) /\ Len(t) = Len(hd) + Len(v) /\ Len(v) \in Nat /\ Len(c) \in Nat
      /\ \A i \in 1 .. Len(hd) + Len(v) : t[i] = IF i <= Len(hd) THEN hd[i] ELSE v[i - Len(hd)]
  BY <1>1, ConcatProperties
<1>5. /\ \A i \in 1 .. Len(v) : v[i] \in Late
      /\ \A i \in 1 .. Len(c) : c[i] \in Late
  BY <1>1
<1> HIDE DEF t
<1>6. /\ Trail \in Seq(S) /\ Len(Trail) = Len(t) + Len(c)
      /\ \A i \in 1 .. Len(t) + Len(c) : Trail[i] = IF i <= Len(t) THEN t[i] ELSE c[i - Len(t)]
  BY <1>1, <1>3, <1>4, ConcatProperties DEF t
<1>7. \A i \in 1 .. Len(t) : (i = 1 => t[i] = "unlocking") /\ (i > 2 => t[i] \in Late)
  BY <1>2, <1>4, <1>5
<1>8. \A i \in 1 .. Len(t) + Len(c) : /\ i = 1 => Trail[i] = "unlocking"
                                      /\ i > 2 => Trail[i] \in Late
  <2> SUFFICES ASSUME NEW i \in 1 .. Len(t) + Len(c)
               PROVE  (i = 1 => Trail[i] = "unlocking") /\ (i > 2 => Trail[i] \in Late)
    OBVIOUS
  <2>1. CASE i <= Len(t)
    BY <1>2, <1>4, <1>6, <1>7, <2>1
  <2>2. CASE ~(i <= Len(t))
    <3>1. i - Len(t) \in 1 .. Len(c) /\ i > 2
      BY <1>2, <1>4, <2>2
    <3> QED
      BY <1>5, <1>6, <2>2, <3>1
  <2> QED
    BY <2>1, <2>2
<1>9. DOMAIN Trail = 1 .. Len(t) + Len(c)
  BY <1>6
<1>10. \A a \in 1 .. Len(t) + Len(c) : a \in Nat /\ a >= 1
  BY <1>2, <1>4
<1> QED
  BY <1>8, <1>9, <1>10 DEF Late

\* What the Folders card shows as done, what the result card says was kept, and
\* what the trail shows as done is on disk (Machine.Progressed, Done, stepsOf).
THEOREM TheWindowIsHonest == WindowSpec => []ClaimsAreTrue
<1>1. WindowInv => ClaimsAreTrue
  <2> SUFFICES ASSUME WindowInv PROVE ClaimsAreTrue
    OBVIOUS
  <2>1. Finished \subseteq whole
    BY MachineIs
  <2>2. \A f \in Folder : FolderStatus(f) = "done" => f \in whole
    <3>1. \A f \in Folder : FolderStatus(f) = "done" => f \in Finished
      BY DEF FolderStatus
    <3> QED
      BY <2>1, <3>1
  <2>3. KeptLine \subseteq whole
    BY <2>1 DEF KeptLine
  <2>4. ASSUME Phase \in DoneSteps PROVE whole = Folder
    <3>1. PICK j \in DOMAIN Trail, k \in DOMAIN Trail :
            Trail[j] = Phase /\ j < k /\ Trail[k] = machine.progress.phase
      BY <2>4 DEF DoneSteps
    <3>2. \A a \in DOMAIN Trail : a \in Nat /\ (a = 1 => Trail[a] = "unlocking") /\ a >= 1
                                  /\ (a > 2 => Trail[a] \in {"verifying", "cleaning up"})
      BY TrailIs
    <3>3. k > 2
      <4>1. j # 1
        BY <3>1, <3>2, PhaseIs
      <4>2. j \in Nat /\ k \in Nat /\ j >= 1
        BY <3>1, <3>2
      <4> QED
        BY <3>1, <4>1, <4>2
    <3>4. machine.progress.phase \in {"verifying", "cleaning up"}
      BY <3>1, <3>2, <3>3
    <3> QED
      BY <3>4 DEF WindowInv, ProgressInv, ReportInOrder
  <2> QED
    BY <2>2, <2>3, <2>4 DEF ClaimsAreTrue
<1> QED
  BY <1>1, WindowInvariant, PTL

\* Bridge.Progress and TakeProgress lose no notification.
THEOREM TheLatestIsShown == WindowSpec => []LatestIsShown
<1>1. WindowInv => LatestIsShown
  BY DEF WindowInv, ProgressInv, MachineInOrder, QueueInOrder, LatestIsShown
<1> QED
  BY <1>1, WindowInvariant, PTL

\* A check that is shown is of what is chosen now, when this window started it
\* (startCheck, destChecked).
THEOREM ChecksAreOfTheChoices == WindowSpec => []CheckIsOfChoices
<1>1. WindowInv => CheckIsOfChoices
  BY DEF WindowInv
<1> QED
  BY <1>1, WindowInvariant, PTL
=============================================================================
