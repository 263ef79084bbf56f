------------------------------- MODULE Window -------------------------------
(***************************************************************************)
(* What the main window knows, and how it can be out of date: the          *)
(* configuration read again while an operation runs (gui/reload.go), the   *)
(* snapshot of the backups taken in the background by health.Checker, which *)
(* gives up waiting for a drive that does not answer and lets later        *)
(* callers wait for the same attempt (gui/app.go, health/checker.go), and  *)
(* the result of the YubiKey test, which belongs to the keys it was made   *)
(* with (gui/yubikey.go).                                                  *)
(*                                                                         *)
(* The window's handlers run one at a time on the UI thread; the reader of *)
(* the configuration, the caller of the checker, the attempt it waits for, *)
(* the YubiKey test and the operation are goroutines.  A goroutine stores  *)
(* its answer under app.mu and posts a message; the two are one step here, *)
(* as the handler of the message is the only reader of the answer.         *)
(*                                                                         *)
(* Left out: what the pages draw (reloadErr, the message of a file that did *)
(* not load, among it), the dialog that offers to update the file (its     *)
(* answer is Reload, which the user may choose whenever the guards hold),  *)
(* and the diagnosis of the YubiKey, which shares no state with the rest.  *)
(* A directory is told by its keys: it holds backups when it has some.     *)
(***************************************************************************)
EXTENDS Naturals

CONSTANTS
    Config,     \* the configurations the file may hold, each with a backup
                \* directory of its own
    FirstKeys,  \* the keys each directory has at the start: 0 for none, else
                \* a number that stands for their creation time
    MaxKeys     \* bound: the largest such number

ASSUME FirstKeysAssumption == FirstKeys \in [Config -> Nat]
ASSUME MaxKeysAssumption == MaxKeys \in Nat

NoConfig == "no configuration"
ASSUME NoConfigAssumption == NoConfig \notin Config

NoSnapshot == [none |-> "snapshot"]
NoFlight == [none |-> "flight"]
NoTest == [none |-> "test"]

VARIABLES
    onDisk,     \* per configuration: the current keys of its directory
    config,     \* app.opts.Config
    deferred,   \* app.deferredConfig
    reload,     \* the goroutine of reloadWith and its answer (pendingReload)
    op,         \* app.run and its worker
    caller,     \* the goroutine of startCheck and its answer (pendingSn)
    recheck,    \* app.recheck
    flight,     \* Checker.running
    snapshot,   \* app.snapshot
    yk          \* app.yk: testing, test, keysCreated

vars == <<onDisk, config, deferred, reload, op, caller,
          recheck, flight, snapshot, yk>>

-----------------------------------------------------------------------------
(* The states of the goroutines.                                           *)

Idle == [pc |-> "off"]

\* app.checking: startCheck sets it, snapshotDone clears it.
checking == caller.pc # "off"

\* app.reloading: reloadWith sets it, reloadDone clears it.
reloading == reload.pc # "off"

\* Machine.Busy: the operation plans, runs or is cancelling.
Busy == op.pc # "off"

testing == yk.tester.pc # "off"

\* A snapshot: the configuration it is of, the current keys it found, and
\* whether its own caller started the attempt that took it.
SnapshotOf(c, found, own) ==
    [cfg |-> c, ok |-> TRUE, keys |-> found, own |-> own]

\* The snapshot when the check does not finish in time: no sets, no keys, and
\* an error that blocks backups.
unresponsive(c) ==
    [cfg |-> c, ok |-> FALSE, keys |-> 0, own |-> TRUE]

\* startCheck: nothing while a check runs (busy tells), else a goroutine that
\* takes the configuration of this moment.
StartCheck(busy, c) ==
    caller' = IF busy THEN caller ELSE [pc |-> "started", cfg |-> c]

\* clearYubiKeyTest: forget the test result, unless a test is running.
Cleared(y) == IF y.tester.pc = "off" THEN [y EXCEPT !.test = NoTest] ELSE y

\* Faulty variant: only notes the keys.
KeysCheckedOnly(y, s) == [y EXCEPT !.created = s.keys]

\* keysChecked: a snapshot with other keys than the last one clears the test
\* result; the zero time of no keys does not count as a last one.  A test that
\* is running notes that a snapshot came in between.
KeysChecked(y, s) ==
    LET other   == y.created # 0 /\ s.keys # y.created
        cleared == IF other THEN Cleared(y) ELSE y
        noted   == IF y.tester.pc = "off" THEN cleared
                   ELSE [cleared EXCEPT !.tester.alone = FALSE]
    IN  [noted EXCEPT !.created = s.keys]

-----------------------------------------------------------------------------
Init ==
    /\ config \in Config
    /\ onDisk = FirstKeys
    /\ deferred = NoConfig
    /\ reload = Idle
    /\ op = Idle
    /\ caller = [pc |-> "started", cfg |-> config]   \* Run calls startCheck
    /\ recheck = FALSE
    /\ flight = NoFlight
    /\ snapshot = NoSnapshot
    /\ yk = [tester |-> Idle, test |-> NoTest, created |-> 0]

-----------------------------------------------------------------------------
(* The configuration.                                                      *)

\* reloadWith: Reload, Check again, F5, or the answer Update config.yaml.
Reload ==
    /\ ~reloading /\ ~Busy /\ ~testing
    /\ reload' = [pc |-> "reading"]
    /\ UNCHANGED <<onDisk, config, deferred, op, caller, recheck, flight,
                   snapshot, yk>>

\* The goroutine of reloadWith reads whatever the user has written into the
\* file by then; the file may not load, or not be brought up to date.
ReadConfig ==
    /\ reload.pc = "reading"
    /\ \E read \in Config \cup {NoConfig} :
           reload' = [pc |-> "read", cfg |-> read]
    /\ UNCHANGED <<onDisk, config, deferred, op, caller, recheck, flight,
                   snapshot, yk>>

\* Faulty variant: relies on the check that runs.
UseConfigUnchecked(c) ==
    /\ config' = c
    /\ deferred' = NoConfig
    /\ recheck' = FALSE
    /\ StartCheck(checking, c)
    /\ yk' = Cleared(yk)

\* useConfig: swap the configuration and check the backups with it; a check
\* that runs used the previous one, so another follows it.
UseConfig(c) ==
    /\ config' = c
    /\ deferred' = NoConfig
    /\ recheck' = checking
    /\ StartCheck(checking, c)
    /\ yk' = Cleared(yk)

\* Faulty variant: swaps the configuration under a running operation.
ReloadDoneAtOnce ==
    /\ reload.pc = "read"
    /\ reload' = Idle
    /\ IF reload.cfg = NoConfig
       THEN UNCHANGED <<config, deferred, recheck, caller, yk>>
       ELSE UseConfig(reload.cfg)
    /\ UNCHANGED <<onDisk, op, flight, snapshot>>

\* reloadDone.  A file that did not load keeps the configuration; one that
\* arrives while an operation runs waits for its end.
ReloadDone ==
    /\ reload.pc = "read"
    /\ reload' = Idle
    /\ \/ /\ reload.cfg = NoConfig
          /\ UNCHANGED <<config, deferred, recheck, caller, yk>>
       \/ /\ reload.cfg # NoConfig /\ Busy
          /\ deferred' = reload.cfg
          /\ UNCHANGED <<config, recheck, caller, yk>>
       \/ /\ reload.cfg # NoConfig /\ ~Busy
          /\ UseConfig(reload.cfg)
    /\ UNCHANGED <<onDisk, op, flight, snapshot>>

-----------------------------------------------------------------------------
(* Operations.                                                             *)

\* startOperation, from a button that the snapshot enables: a backup unless
\* the check found an error, a verification or a restore of sets it lists.
\* It does not wait for a reload or a check.
StartOperation(kind) ==
    /\ snapshot # NoSnapshot
    /\ IF kind = "backup" THEN snapshot.ok ELSE snapshot.keys > 0
    /\ ~testing /\ ~Busy
    /\ op' = [pc |-> "running", kind |-> kind, cfg |-> config]
    /\ UNCHANGED <<onDisk, config, deferred, reload, caller,
                   recheck, flight, snapshot, yk>>

\* The worker ends.  A backup may have made new keys, or used the current
\* ones, or have been cancelled, refused or failed.
WorkerEnds ==
    /\ op.pc = "running"
    /\ op' = [op EXCEPT !.pc = "ended"]
    /\ \/ UNCHANGED onDisk
       \/ /\ op.kind = "backup"
          /\ \E new \in 1 .. MaxKeys :
                 /\ \A c \in Config : onDisk[c] < new
                 /\ onDisk' = [onDisk EXCEPT ![op.cfg] = new]
    /\ UNCHANGED <<config, deferred, reload, caller, recheck, flight,
                   snapshot, yk>>

\* onWorkerDone: use the configuration that waited, then check the backups; a
\* restore or verification that ended before it started is shown in its own
\* window and checks nothing.
OnWorkerDone ==
    /\ op.pc = "ended"
    /\ op' = Idle
    /\ \/ deferred # NoConfig /\ UseConfig(deferred)
       \/ /\ deferred = NoConfig
          /\ \/ StartCheck(checking, config)
             \/ op.kind = "read" /\ UNCHANGED caller
          /\ UNCHANGED <<config, deferred, recheck, yk>>
    /\ UNCHANGED <<onDisk, reload, flight, snapshot>>

-----------------------------------------------------------------------------
(* The check of the backups.                                               *)

\* The window is activated and its snapshot is older than recheckAfter.
ActivateApp ==
    /\ ~Busy /\ snapshot # NoSnapshot
    /\ StartCheck(checking, config)
    /\ UNCHANGED <<onDisk, config, deferred, reload, op,
                   recheck, flight, snapshot, yk>>

\* devicesSettled: a YubiKey was plugged in or pulled out.
DevicesSettled ==
    /\ yk' = Cleared(yk)
    /\ IF Busy THEN UNCHANGED caller ELSE StartCheck(checking, config)
    /\ UNCHANGED <<onDisk, config, deferred, reload, op,
                   recheck, flight, snapshot>>

\* Checker.Snapshot: wait for the running attempt, or start one.
CheckerSnapshot ==
    /\ caller.pc = "started"
    /\ caller' = [caller EXCEPT !.pc = "waiting"]
    /\ flight' = IF flight = NoFlight
                 THEN [cfg |-> caller.cfg, found |-> {}, own |-> TRUE]
                 ELSE [flight EXCEPT !.own = FALSE]
    /\ UNCHANGED <<onDisk, config, deferred, reload, op,
                   recheck, snapshot, yk>>

\* The attempt reads the backup directory of the configuration it was started
\* for (TakeSnapshot).
FlightReads ==
    /\ flight # NoFlight /\ flight.found = {}
    /\ flight' = [flight EXCEPT !.found = {onDisk[flight.cfg]}]
    /\ UNCHANGED <<onDisk, config, deferred, reload, op,
                   caller, recheck, snapshot, yk>>

\* The attempt ends: running is nil, and its waiting caller has its snapshot.
FlightEnds ==
    /\ flight # NoFlight
    /\ \E found \in flight.found :
           caller' = IF caller.pc # "waiting" THEN caller
                     ELSE [pc   |-> "answered",
                           snap |-> SnapshotOf(flight.cfg, found, flight.own)]
    /\ flight' = NoFlight
    /\ UNCHANGED <<onDisk, config, deferred, reload, op, recheck, snapshot, yk>>

\* Faulty variant: the caller waits for the drive.
CallerWaits == FALSE /\ UNCHANGED vars

\* SnapshotTimeout passes first; the attempt keeps running.
CallerTimesOut ==
    /\ caller.pc = "waiting"
    /\ caller' = [pc |-> "answered", snap |-> unresponsive(caller.cfg)]
    /\ UNCHANGED <<onDisk, config, deferred, reload, op,
                   recheck, flight, snapshot, yk>>

\* snapshotDone.
SnapshotDone ==
    /\ caller.pc = "answered"
    /\ snapshot' = caller.snap
    /\ yk' = KeysChecked(yk, caller.snap)
    /\ recheck' = FALSE
    /\ caller' = IF recheck THEN [pc |-> "started", cfg |-> config] ELSE Idle
    /\ UNCHANGED <<onDisk, config, deferred, reload, op, flight>>

-----------------------------------------------------------------------------
(* The YubiKey test.                                                       *)

\* testYubiKey: tests against the current keys of the snapshot shown.
TestYubiKey ==
    /\ ~testing /\ ~Busy /\ ~reloading
    /\ yk' = [yk EXCEPT !.tester =
                  [pc    |-> "running",
                   keys  |-> IF snapshot = NoSnapshot THEN 0 ELSE snapshot.keys,
                   alone |-> ~checking]]
    /\ UNCHANGED <<onDisk, config, deferred, reload, op,
                   caller, recheck, flight, snapshot>>

\* yubiKeyTested: the test has ended; its result is shown.
YubiKeyTested ==
    /\ testing
    /\ yk' = [yk EXCEPT !.tester = Idle,
                        !.test = [keys  |-> yk.tester.keys,
                                  alone |-> yk.tester.alone]]
    /\ UNCHANGED <<onDisk, config, deferred, reload, op,
                   caller, recheck, flight, snapshot>>

-----------------------------------------------------------------------------
Next ==
    \/ Reload
    \/ ReadConfig
    \/ ReloadDone
    \/ \E kind \in {"backup", "read"} : StartOperation(kind)
    \/ WorkerEnds
    \/ OnWorkerDone
    \/ ActivateApp
    \/ DevicesSettled
    \/ CheckerSnapshot
    \/ FlightReads
    \/ FlightEnds
    \/ CallerTimesOut
    \/ SnapshotDone
    \/ TestYubiKey
    \/ YubiKeyTested

\* The goroutine of a check is scheduled, its context ends after five seconds
\* and its message is handled.  The attempt on the drive may never end, nor
\* need the user do anything.
Fairness ==
    /\ WF_vars(CheckerSnapshot)
    /\ WF_vars(CallerTimesOut)
    /\ WF_vars(SnapshotDone)

Spec == Init /\ [][Next]_vars /\ Fairness

-----------------------------------------------------------------------------
(* Properties.                                                             *)

Snapshots ==
    [cfg : Config, ok : BOOLEAN, keys : Nat, own : BOOLEAN]

Callers ==
    {Idle} \cup [pc : {"started", "waiting"}, cfg : Config]
           \cup [pc : {"answered"}, snap : Snapshots]

YubiKeyStates ==
    [tester : {Idle} \cup [pc : {"running"}, keys : Nat, alone : BOOLEAN],
     test : {NoTest} \cup [keys : Nat, alone : BOOLEAN],
     created : Nat]

\* The variables have the values the comments above give them (the fields of
\* app in gui/app.go and of yubiKeyState in gui/yubikey.go).
TypeOK ==
    /\ onDisk \in [Config -> Nat]
    /\ config \in Config
    /\ deferred \in Config \cup {NoConfig}
    /\ reload \in {Idle} \cup [pc : {"reading"}]
                  \cup [pc : {"read"}, cfg : Config \cup {NoConfig}]
    /\ op \in {Idle} \cup [pc : {"running", "ended"},
                           kind : {"backup", "read"}, cfg : Config]
    /\ caller \in Callers
    /\ recheck \in BOOLEAN
    /\ flight \in {NoFlight} \cup [cfg : Config, own : BOOLEAN,
                                   found : SUBSET Nat]
    /\ snapshot \in {NoSnapshot} \cup Snapshots
    /\ yk \in YubiKeyStates

\* An operation runs under the configuration the window shows from its start
\* to its end: reloadDone defers a file read meanwhile, although startOperation
\* does not wait for a reload (operation.go, reload.go).
ConfigHeld == Busy => op.cfg = config

\* A configuration that waits for an operation is never forgotten: it waits
\* only while one runs, and never while a newer one is in use
\* (reloadDone, onWorkerDone).
DeferredIsUsed == deferred # NoConfig => Busy /\ ~reloading

\* The YubiKey test and an operation share one worker slot, and the
\* configuration is not read again under a test (startOperation, testYubiKey
\* and reloadWith each check the others' flags).
OneWorker == testing => ~Busy /\ ~reloading

\* Once no check runs, the snapshot shown is of the configuration in use, if
\* its caller started the attempt itself (useConfig's recheck).  A caller that
\* found an attempt running gets what that attempt finds.
SnapshotOfConfig ==
    ~checking => \/ snapshot.cfg = config
                 \/ ~snapshot.own

\* While no test runs, a YubiKey test result is of the keys the snapshot
\* shows, if no check overlapped the test (keysChecked): a backup that made new
\* keys, another directory or a drive that went away clears it.  A result
\* without keys tells of the YubiKey alone.
TestOfShownKeys ==
    (/\ ~testing /\ yk.test # NoTest
     /\ yk.test.keys # 0 /\ yk.test.alone)
        => snapshot # NoSnapshot /\ yk.test.keys = snapshot.keys

\* A check that runs, unless another is due, is of the configuration in use; a
\* caller that started its attempt gets an answer for its own configuration.
CheckOfConfig ==
    /\ caller.pc \in {"started", "waiting"} /\ ~recheck => caller.cfg = config
    /\ caller.pc = "waiting" =>
           flight # NoFlight /\ (flight.own => flight.cfg = caller.cfg)
    /\ caller.pc = "answered" /\ ~recheck /\ caller.snap.own =>
           caller.snap.cfg = config
    /\ ~checking => ~recheck /\ snapshot # NoSnapshot

\* The keys noted at the last snapshot are the ones it shows, and a test that
\* no check overlapped is of these keys.
KeysNoted ==
    /\ snapshot = NoSnapshot => yk.created = 0
    /\ snapshot # NoSnapshot => yk.created = snapshot.keys
    /\ testing /\ yk.tester.alone => yk.tester.keys = yk.created

\* The inductive invariant: what the window's handlers keep true between them
\* about the configuration, the checks and the YubiKey test.
WindowInv ==
    /\ TypeOK
    /\ ConfigHeld
    /\ DeferredIsUsed
    /\ OneWorker
    /\ CheckOfConfig
    /\ SnapshotOfConfig
    /\ KeysNoted
    /\ TestOfShownKeys

\* A check ends even if the drive never answers, so Refresh is not disabled
\* for ever: either the window stops checking or another check is due, and
\* that one starts (startCheck's timeout, snapshotDone).
CheckEnds ==
    /\ checking ~> (~checking \/ recheck)
    /\ recheck ~> ~recheck

\* What the comment of Checker.Snapshot says: a caller gets the snapshot for
\* its own configuration.
SnapshotForCaller == ~checking => snapshot.cfg = config
=============================================================================
