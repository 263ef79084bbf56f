---------------------------- MODULE WindowProofs ----------------------------
(***************************************************************************)
(* What the main window knows (module Window) and what its pages show and  *)
(* offer (module Pages).                                                   *)
(*                                                                         *)
(* Window, for any set of configurations and any keys: an operation keeps  *)
(* its configuration, a check of one's own shows the configuration in use, *)
(* and a YubiKey test result does not outlive its keys.                    *)
(*                                                                         *)
(* Pages, for any folders, runs, keys and configurations: what the hero,   *)
(* the list and the result card claim of the backup directory is true, and *)
(* config.yaml is replaced only after its copy is saved.  What they claim  *)
(* of one state follows from four facts on the steps before it (PagesInv): *)
(* a chain has one key set, no two runs have the same time, what a run has *)
(* planned fits the directory until it is written, and a finished run's    *)
(* card is about the directory the run left.                               *)
(***************************************************************************)
EXTENDS Window, Pages, FiniteSetTheorems, WellFoundedInduction, TLAPS

-----------------------------------------------------------------------------
(* The window's state.                                                     *)

\* The window starts with one check of the configuration it was given.
LEMMA WindowInvInit == Init => WindowInv
<1> SUFFICES ASSUME Init PROVE WindowInv
  OBVIOUS
<1> USE FirstKeysAssumption, NoConfigAssumption
    DEF Init, Idle, NoSnapshot, NoFlight, NoTest, checking, testing, Busy,
        reloading
<1>1. TypeOK
  BY DEF TypeOK, Callers, YubiKeyStates
<1>2. ConfigHeld /\ DeferredIsUsed /\ OneWorker
  BY DEF ConfigHeld, DeferredIsUsed, OneWorker
<1>3. CheckOfConfig /\ SnapshotOfConfig
  BY DEF CheckOfConfig, SnapshotOfConfig
<1>4. KeysNoted /\ TestOfShownKeys
  BY DEF KeysNoted, TestOfShownKeys
<1> QED
  BY <1>1, <1>2, <1>3, <1>4 DEF WindowInv

\* clearYubiKeyTest touches only the result, and only while no test runs.
LEMMA ClearedKeeps ==
  ASSUME NEW y \in YubiKeyStates
  PROVE  /\ Cleared(y) \in YubiKeyStates
         /\ Cleared(y).tester = y.tester
         /\ Cleared(y).created = y.created
         /\ y.tester.pc = "off" => Cleared(y).test = NoTest
  BY DEF Cleared, YubiKeyStates

\* keysChecked notes the keys shown; a running test remembers that it was
\* overlapped, and otherwise other keys than the last ones leave no result.
LEMMA KeysCheckedKeeps ==
  ASSUME NEW y \in YubiKeyStates, NEW s \in Snapshots
  PROVE  LET k == KeysChecked(y, s)
         IN  /\ k \in YubiKeyStates
             /\ k.created = s.keys
             /\ k.tester.pc = y.tester.pc
             /\ y.tester.pc # "off" => ~k.tester.alone
             /\ y.tester.pc = "off" /\ y.created # 0 /\ s.keys # y.created
                  => k.test = NoTest
             /\ k.test \in {NoTest, y.test}
<1>1. Cleared(y) \in YubiKeyStates /\ Cleared(y).tester = y.tester
      /\ (y.tester.pc = "off" => Cleared(y).test = NoTest)
      /\ Cleared(y).test \in {NoTest, y.test}
  BY DEF Cleared, YubiKeyStates
<1>2. y.tester.pc # "off" => y.tester \in [pc : {"running"}, keys : Nat, alone : BOOLEAN]
  BY DEF YubiKeyStates, Idle
<1>3. s.keys \in Nat
  BY DEF Snapshots
<1> QED
  BY <1>1, <1>2, <1>3 DEF KeysChecked, YubiKeyStates

\* startCheck leaves a running check alone, or starts one of configuration c.
LEMMA StartCheckKeeps ==
  ASSUME NEW c \in Config, caller \in Callers, StartCheck(checking, c)
  PROVE  /\ caller' \in Callers
         /\ caller'.pc # "off"
         /\ checking => caller' = caller
         /\ ~checking => caller'.pc = "started" /\ caller'.cfg = c
  BY DEF StartCheck, checking, Callers

\* Every handler of the window and every step of a goroutine keeps the
\* invariant.
LEMMA WindowInvNext == WindowInv /\ [Next]_vars => WindowInv'
<1> SUFFICES ASSUME WindowInv, [Next]_vars PROVE WindowInv'
  OBVIOUS
<1> USE NoConfigAssumption DEF WindowInv, checking, testing, Busy, reloading, Idle
<1>0. /\ caller \in Callers /\ yk \in YubiKeyStates /\ config \in Config
      /\ snapshot \in {NoSnapshot} \cup Snapshots
  BY DEF TypeOK
<1>a. caller.pc \in {"off", "started", "waiting", "answered"}
      /\ (caller.pc = "answered" => caller.snap \in Snapshots)
      /\ (caller.pc \in {"started", "waiting"} => caller.cfg \in Config)
  BY <1>0 DEF Callers
<1>b. NoSnapshot \notin Snapshots /\ NoTest \notin [keys : Nat, alone : BOOLEAN]
      /\ NoFlight \notin [cfg : Config, own : BOOLEAN, found : SUBSET Nat]
  BY DEF NoSnapshot, NoTest, NoFlight, Snapshots
<1>1. ASSUME Reload PROVE WindowInv'
  <2> USE <1>1 DEF Reload
  <2>1. TypeOK'
    BY <1>0, <1>a DEF TypeOK
  <2>2. ConfigHeld' /\ DeferredIsUsed' /\ OneWorker'
    BY <1>0 DEF TypeOK, ConfigHeld, DeferredIsUsed, OneWorker
  <2>3. CheckOfConfig' /\ SnapshotOfConfig'
    BY <1>0, <1>a, <1>b DEF CheckOfConfig, SnapshotOfConfig
  <2>4. KeysNoted' /\ TestOfShownKeys'
    BY <1>0, <1>a, <1>b DEF KeysNoted, TestOfShownKeys
  <2> QED
    BY <2>1, <2>2, <2>3, <2>4
<1>2. ASSUME ReadConfig PROVE WindowInv'
  <2> USE <1>2 DEF ReadConfig
  <2>1. TypeOK'
    BY <1>0, <1>a DEF TypeOK
  <2>2. ConfigHeld' /\ DeferredIsUsed' /\ OneWorker'
    BY <1>0 DEF TypeOK, ConfigHeld, DeferredIsUsed, OneWorker
  <2>3. CheckOfConfig' /\ SnapshotOfConfig'
    BY <1>0, <1>a, <1>b DEF CheckOfConfig, SnapshotOfConfig
  <2>4. KeysNoted' /\ TestOfShownKeys'
    BY <1>0, <1>a, <1>b DEF KeysNoted, TestOfShownKeys
  <2> QED
    BY <2>1, <2>2, <2>3, <2>4
<1>3. ASSUME ReloadDone PROVE WindowInv'
  <2> USE <1>3 DEF ReloadDone
  <2>a. reload.cfg \in Config \cup {NoConfig}
    BY DEF TypeOK
  <2>b. ~testing /\ Cleared(yk) \in YubiKeyStates /\ Cleared(yk).tester = yk.tester
        /\ Cleared(yk).created = yk.created /\ Cleared(yk).test = NoTest
    BY <1>0, ClearedKeeps DEF OneWorker
  <2>c. UseConfig(reload.cfg) /\ reload.cfg \in Config =>
          /\ caller' \in Callers /\ caller'.pc # "off"
          /\ checking => caller' = caller
          /\ ~checking => caller'.pc = "started" /\ caller'.cfg = reload.cfg
    BY <1>0, StartCheckKeeps DEF UseConfig
  <2>1. TypeOK'
    BY <2>a, <2>b, <2>c, <1>0, <1>a DEF TypeOK, UseConfig
  <2>2. ConfigHeld' /\ DeferredIsUsed' /\ OneWorker'
    BY <2>a, <2>b, <2>c, <1>0 DEF TypeOK, ConfigHeld, DeferredIsUsed, OneWorker, UseConfig
  <2>3. CheckOfConfig' /\ SnapshotOfConfig'
    <3>1. CASE UseConfig(reload.cfg) /\ reload.cfg \in Config
      <4>1. CASE checking
        <5>1. recheck' /\ caller' = caller /\ flight' = flight
          BY <2>c, <3>1, <4>1 DEF UseConfig
        <5> QED
          BY <4>1, <5>1 DEF CheckOfConfig, SnapshotOfConfig
      <4>2. CASE ~checking
        <5>1. caller'.pc = "started" /\ caller'.cfg = config'
          BY <2>c, <3>1, <4>2 DEF UseConfig
        <5> QED
          BY <5>1 DEF CheckOfConfig, SnapshotOfConfig
      <4> QED
        BY <4>1, <4>2
    <3>2. CASE UNCHANGED <<config, recheck, caller, flight, snapshot>>
      BY <3>2, <1>0, <1>a DEF CheckOfConfig, SnapshotOfConfig
    <3> QED
      BY <2>a, <3>1, <3>2 DEF DeferredIsUsed
  <2>4. KeysNoted' /\ TestOfShownKeys'
    BY <2>a, <2>b, <2>c, <1>0, <1>a, <1>b DEF KeysNoted, TestOfShownKeys, UseConfig
  <2> QED
    BY <2>1, <2>2, <2>3, <2>4
<1>4. ASSUME NEW kind \in {"backup", "read"}, StartOperation(kind) PROVE WindowInv'
  <2> USE <1>4 DEF StartOperation
  <2>1. TypeOK'
    BY <1>0, <1>a DEF TypeOK
  <2>2. ConfigHeld' /\ DeferredIsUsed' /\ OneWorker'
    BY <1>0 DEF TypeOK, ConfigHeld, DeferredIsUsed, OneWorker
  <2>3. CheckOfConfig' /\ SnapshotOfConfig'
    BY <1>0, <1>a, <1>b DEF CheckOfConfig, SnapshotOfConfig
  <2>4. KeysNoted' /\ TestOfShownKeys'
    BY <1>0, <1>a, <1>b DEF KeysNoted, TestOfShownKeys
  <2> QED
    BY <2>1, <2>2, <2>3, <2>4
<1>5. ASSUME WorkerEnds PROVE WindowInv'
  <2> USE <1>5 DEF WorkerEnds
  <2>1. TypeOK'
    BY <1>0, <1>a DEF TypeOK
  <2>2. ConfigHeld' /\ DeferredIsUsed' /\ OneWorker'
    BY <1>0 DEF TypeOK, ConfigHeld, DeferredIsUsed, OneWorker
  <2>3. CheckOfConfig' /\ SnapshotOfConfig'
    BY <1>0, <1>a, <1>b DEF CheckOfConfig, SnapshotOfConfig
  <2>4. KeysNoted' /\ TestOfShownKeys'
    BY <1>0, <1>a, <1>b DEF KeysNoted, TestOfShownKeys
  <2> QED
    BY <2>1, <2>2, <2>3, <2>4
<1>6. ASSUME OnWorkerDone PROVE WindowInv'
  <2> USE DEF OnWorkerDone
  <2>a. deferred \in Config \cup {NoConfig}
    BY DEF TypeOK
  <2>b. ~testing /\ Cleared(yk) \in YubiKeyStates /\ Cleared(yk).tester = yk.tester
        /\ Cleared(yk).created = yk.created /\ Cleared(yk).test = NoTest
    BY <1>0, <1>6, ClearedKeeps DEF OneWorker, OnWorkerDone
  <2>c. UseConfig(deferred) /\ deferred \in Config =>
          /\ caller' \in Callers /\ caller'.pc # "off"
          /\ checking => caller' = caller
          /\ ~checking => caller'.pc = "started" /\ caller'.cfg = deferred
    BY <1>0, StartCheckKeeps DEF UseConfig
  <2>d. StartCheck(checking, config) =>
          /\ caller' \in Callers /\ caller'.pc # "off"
          /\ checking => caller' = caller
          /\ ~checking => caller'.pc = "started" /\ caller'.cfg = config
    BY <1>0, StartCheckKeeps
  <2>1. TypeOK'
    BY <1>6, <2>a, <2>b, <2>c, <2>d, <1>0, <1>a DEF TypeOK, UseConfig
  <2>2. ConfigHeld' /\ DeferredIsUsed' /\ OneWorker'
    BY <1>6, <2>a, <2>b, <2>c, <2>d, <1>0 DEF TypeOK, ConfigHeld, DeferredIsUsed, OneWorker, UseConfig
  <2>3. CheckOfConfig' /\ SnapshotOfConfig'
    <3>1. CASE UseConfig(deferred) /\ deferred \in Config
      <4>1. CASE checking
        <5>1. recheck' /\ caller' = caller /\ flight' = flight
          BY <1>6, <2>c, <3>1, <4>1 DEF UseConfig
        <5> QED
          BY <4>1, <5>1 DEF CheckOfConfig, SnapshotOfConfig
      <4>2. CASE ~checking
        <5>1. caller'.pc = "started" /\ caller'.cfg = config'
          BY <2>c, <3>1, <4>2 DEF UseConfig
        <5> QED
          BY <5>1 DEF CheckOfConfig, SnapshotOfConfig
      <4> QED
        BY <4>1, <4>2
    <3>2. CASE /\ UNCHANGED <<config, recheck, flight, snapshot>>
              /\ \/ caller' = caller
                 \/ caller'.pc = "started" /\ caller'.cfg = config
      <4>1. CASE caller' = caller
        BY <3>2, <4>1 DEF CheckOfConfig, SnapshotOfConfig
      <4>2. CASE caller'.pc = "started" /\ caller'.cfg = config
        BY <3>2, <4>2 DEF CheckOfConfig, SnapshotOfConfig
      <4> QED
        BY <3>2, <4>1, <4>2
    <3> QED
      BY <1>6, <2>a, <2>d, <3>1, <3>2
  <2>4. KeysNoted' /\ TestOfShownKeys'
    BY <1>6, <2>a, <2>b, <2>c, <2>d, <1>0, <1>a, <1>b DEF KeysNoted, TestOfShownKeys, UseConfig
  <2> QED
    BY <2>1, <2>2, <2>3, <2>4
<1>7. ASSUME ActivateApp PROVE WindowInv'
  <2> USE <1>7 DEF ActivateApp
  <2>a. /\ caller' \in Callers /\ caller'.pc # "off"
        /\ checking => caller' = caller
        /\ ~checking => caller'.pc = "started" /\ caller'.cfg = config
    BY <1>0, StartCheckKeeps
  <2>1. TypeOK'
    BY <2>a, <1>0, <1>a DEF TypeOK
  <2>2. ConfigHeld' /\ DeferredIsUsed' /\ OneWorker'
    BY <2>a, <1>0 DEF TypeOK, ConfigHeld, DeferredIsUsed, OneWorker
  <2>3. CheckOfConfig' /\ SnapshotOfConfig'
    BY <2>a, <1>0, <1>a, <1>b DEF CheckOfConfig, SnapshotOfConfig
  <2>4. KeysNoted' /\ TestOfShownKeys'
    BY <2>a, <1>0, <1>a, <1>b DEF KeysNoted, TestOfShownKeys
  <2> QED
    BY <2>1, <2>2, <2>3, <2>4
<1>8. ASSUME DevicesSettled PROVE WindowInv'
  <2> USE <1>8 DEF DevicesSettled
  <2>a. /\ caller' \in Callers
        /\ checking => caller' = caller
        /\ ~checking => caller' = caller
                        \/ (caller'.pc = "started" /\ caller'.cfg = config)
    BY <1>0, StartCheckKeeps
  <2>b. /\ yk' \in YubiKeyStates /\ yk'.tester = yk.tester
        /\ yk'.created = yk.created
        /\ yk.tester.pc = "off" => yk'.test = NoTest
    BY <1>0, ClearedKeeps
  <2>1. TypeOK'
    BY <2>a, <2>b, <1>0, <1>a DEF TypeOK
  <2>2. ConfigHeld' /\ DeferredIsUsed' /\ OneWorker'
    BY <2>a, <2>b, <1>0 DEF TypeOK, ConfigHeld, DeferredIsUsed, OneWorker
  <2>3. CheckOfConfig' /\ SnapshotOfConfig'
    BY <2>a, <2>b, <1>0, <1>a, <1>b DEF CheckOfConfig, SnapshotOfConfig
  <2>4. KeysNoted' /\ TestOfShownKeys'
    BY <2>a, <2>b, <1>0, <1>a, <1>b DEF KeysNoted, TestOfShownKeys
  <2> QED
    BY <2>1, <2>2, <2>3, <2>4
<1>9. ASSUME CheckerSnapshot PROVE WindowInv'
  <2> USE <1>9 DEF CheckerSnapshot
  <2>a. caller' \in Callers /\ caller'.pc = "waiting" /\ caller'.cfg = caller.cfg
    BY <1>0 DEF Callers
  <2>b. /\ flight' \in [cfg : Config, own : BOOLEAN, found : SUBSET Nat]
        /\ flight'.own => flight'.cfg = caller.cfg
    BY <1>a DEF TypeOK
  <2>1. TypeOK'
    BY <2>a, <2>b, <1>0, <1>a DEF TypeOK
  <2>2. ConfigHeld' /\ DeferredIsUsed' /\ OneWorker'
    BY <2>a, <2>b, <1>0 DEF TypeOK, ConfigHeld, DeferredIsUsed, OneWorker
  <2>3. CheckOfConfig' /\ SnapshotOfConfig'
    BY <2>a, <2>b, <1>0, <1>a, <1>b DEF CheckOfConfig, SnapshotOfConfig
  <2>4. KeysNoted' /\ TestOfShownKeys'
    BY <2>a, <2>b, <1>0, <1>a, <1>b DEF KeysNoted, TestOfShownKeys
  <2> QED
    BY <2>1, <2>2, <2>3, <2>4
<1>10. ASSUME FlightReads PROVE WindowInv'
  <2> USE <1>10 DEF FlightReads
  <2>a. /\ flight' \in [cfg : Config, own : BOOLEAN, found : SUBSET Nat]
        /\ flight'.own = flight.own /\ flight'.cfg = flight.cfg
    BY DEF TypeOK
  <2>1. TypeOK'
    BY <2>a, <1>0, <1>a DEF TypeOK
  <2>2. ConfigHeld' /\ DeferredIsUsed' /\ OneWorker'
    BY <2>a, <1>0 DEF TypeOK, ConfigHeld, DeferredIsUsed, OneWorker
  <2>3. CheckOfConfig' /\ SnapshotOfConfig'
    BY <2>a, <1>0, <1>a, <1>b DEF CheckOfConfig, SnapshotOfConfig
  <2>4. KeysNoted' /\ TestOfShownKeys'
    BY <2>a, <1>0, <1>a, <1>b DEF KeysNoted, TestOfShownKeys
  <2> QED
    BY <2>1, <2>2, <2>3, <2>4
<1>11. ASSUME FlightEnds PROVE WindowInv'
  <2> USE <1>11 DEF FlightEnds
  <2>a. PICK found \in Nat :
          caller' = IF caller.pc # "waiting" THEN caller
                    ELSE [pc   |-> "answered",
                          snap |-> SnapshotOf(flight.cfg, found, flight.own)]
    BY DEF TypeOK
  <2>b. /\ SnapshotOf(flight.cfg, found, flight.own) \in Snapshots
        /\ SnapshotOf(flight.cfg, found, flight.own).cfg = flight.cfg
        /\ SnapshotOf(flight.cfg, found, flight.own).own = flight.own
    BY DEF TypeOK, SnapshotOf, Snapshots
  <2>c. /\ caller' \in Callers
        /\ caller.pc # "waiting" => caller' = caller
        /\ caller.pc = "waiting" => /\ caller'.pc = "answered"
                                    /\ caller'.snap.cfg = flight.cfg
                                    /\ caller'.snap.own = flight.own
    BY <1>0, <2>a, <2>b DEF Callers
  <2>1. TypeOK'
    BY <2>c, <1>0, <1>a DEF TypeOK
  <2>2. ConfigHeld' /\ DeferredIsUsed' /\ OneWorker'
    BY <2>c, <1>0 DEF TypeOK, ConfigHeld, DeferredIsUsed, OneWorker
  <2>3. CheckOfConfig' /\ SnapshotOfConfig'
    BY <2>c, <1>0, <1>a, <1>b DEF CheckOfConfig, SnapshotOfConfig
  <2>4. KeysNoted' /\ TestOfShownKeys'
    BY <2>c, <1>0, <1>a, <1>b DEF KeysNoted, TestOfShownKeys
  <2> QED
    BY <2>1, <2>2, <2>3, <2>4
<1>12. ASSUME CallerTimesOut PROVE WindowInv'
  <2> USE <1>12 DEF CallerTimesOut
  <2>a. /\ unresponsive(caller.cfg) \in Snapshots
        /\ unresponsive(caller.cfg).cfg = caller.cfg
    BY <1>a DEF unresponsive, Snapshots
  <2>b. /\ caller' \in Callers /\ caller'.pc = "answered"
        /\ caller'.snap.cfg = caller.cfg
    BY <2>a DEF Callers
  <2>1. TypeOK'
    BY <2>b, <1>0, <1>a DEF TypeOK
  <2>2. ConfigHeld' /\ DeferredIsUsed' /\ OneWorker'
    BY <2>b, <1>0 DEF TypeOK, ConfigHeld, DeferredIsUsed, OneWorker
  <2>3. CheckOfConfig' /\ SnapshotOfConfig'
    BY <2>b, <1>0, <1>a, <1>b DEF CheckOfConfig, SnapshotOfConfig
  <2>4. KeysNoted' /\ TestOfShownKeys'
    BY <2>b, <1>0, <1>a, <1>b DEF KeysNoted, TestOfShownKeys
  <2> QED
    BY <2>1, <2>2, <2>3, <2>4
<1>13. ASSUME SnapshotDone PROVE WindowInv'
  <2> USE <1>13 DEF SnapshotDone
  <2>a. /\ caller' \in Callers
        /\ recheck => caller'.pc = "started" /\ caller'.cfg = config
        /\ ~recheck => caller'.pc = "off"
    BY <1>0 DEF TypeOK, Callers
  <2>b. /\ yk' \in YubiKeyStates
        /\ yk'.created = caller.snap.keys
        /\ yk'.tester.pc = yk.tester.pc
        /\ yk.tester.pc # "off" => ~yk'.tester.alone
        /\ yk.tester.pc = "off" /\ yk.created # 0 /\ caller.snap.keys # yk.created
             => yk'.test = NoTest
        /\ yk'.test \in {NoTest, yk.test}
    BY <1>0, <1>a, KeysCheckedKeeps
  <2>1. TypeOK'
    BY <2>a, <2>b, <1>0, <1>a DEF TypeOK
  <2>2. ConfigHeld' /\ DeferredIsUsed' /\ OneWorker'
    BY <2>a, <2>b, <1>0 DEF TypeOK, ConfigHeld, DeferredIsUsed, OneWorker
  <2>3. CheckOfConfig' /\ SnapshotOfConfig'
    BY <2>a, <2>b, <1>0, <1>a, <1>b DEF CheckOfConfig, SnapshotOfConfig
  <2>4. KeysNoted' /\ TestOfShownKeys'
    BY <2>a, <2>b, <1>0, <1>a, <1>b DEF KeysNoted, TestOfShownKeys
  <2> QED
    BY <2>1, <2>2, <2>3, <2>4
<1>14. ASSUME TestYubiKey PROVE WindowInv'
  <2> USE <1>14 DEF TestYubiKey
  <2>a. snapshot # NoSnapshot => snapshot.keys \in Nat
    BY <1>0 DEF Snapshots
  <2>b. /\ yk' \in YubiKeyStates
        /\ yk'.tester.pc = "running" /\ yk'.created = yk.created
        /\ yk'.tester.keys = IF snapshot = NoSnapshot THEN 0 ELSE snapshot.keys
    BY <1>0, <2>a DEF YubiKeyStates
  <2>1. TypeOK'
    BY <2>b, <1>0, <1>a DEF TypeOK
  <2>2. ConfigHeld' /\ DeferredIsUsed' /\ OneWorker'
    BY <2>b, <1>0 DEF TypeOK, ConfigHeld, DeferredIsUsed, OneWorker
  <2>3. CheckOfConfig' /\ SnapshotOfConfig'
    BY <2>b, <1>0, <1>a, <1>b DEF CheckOfConfig, SnapshotOfConfig
  <2>4. KeysNoted' /\ TestOfShownKeys'
    BY <2>b, <1>0, <1>a, <1>b DEF KeysNoted, TestOfShownKeys
  <2> QED
    BY <2>1, <2>2, <2>3, <2>4
<1>15. ASSUME YubiKeyTested PROVE WindowInv'
  <2> USE <1>15 DEF YubiKeyTested
  <2>0. yk.tester \in [pc : {"running"}, keys : Nat, alone : BOOLEAN]
    BY <1>0 DEF YubiKeyStates
  <2>a. /\ yk' \in YubiKeyStates
        /\ yk'.tester.pc = "off" /\ yk'.created = yk.created
        /\ yk'.test.keys = yk.tester.keys /\ yk'.test.alone = yk.tester.alone
    BY <1>0, <2>0 DEF YubiKeyStates
  <2>1. TypeOK'
    BY <2>a, <1>0, <1>a DEF TypeOK
  <2>2. ConfigHeld' /\ DeferredIsUsed' /\ OneWorker'
    BY <2>a, <1>0 DEF TypeOK, ConfigHeld, DeferredIsUsed, OneWorker
  <2>3. CheckOfConfig' /\ SnapshotOfConfig'
    BY <2>a, <1>0, <1>a, <1>b DEF CheckOfConfig, SnapshotOfConfig
  <2>4. KeysNoted' /\ TestOfShownKeys'
    BY <2>a, <1>0, <1>a, <1>b DEF KeysNoted, TestOfShownKeys
  <2> QED
    BY <2>1, <2>2, <2>3, <2>4
<1>16. CASE UNCHANGED vars
  BY <1>16 DEF vars, TypeOK, ConfigHeld, DeferredIsUsed, OneWorker,
     CheckOfConfig, SnapshotOfConfig, KeysNoted, TestOfShownKeys
<1> QED
  BY <1>1, <1>2, <1>3, <1>4, <1>5, <1>6, <1>7, <1>8, <1>9, <1>10, <1>11, <1>12,
     <1>13, <1>14, <1>15, <1>16 DEF Next

\* The invariant holds in every run of the window.
THEOREM WindowInvariant == Spec => []WindowInv
  BY WindowInvInit, WindowInvNext, PTL DEF Spec

\* No operation ever sees its configuration change under it.
THEOREM OperationKeepsConfig == Spec => []ConfigHeld
<1>1. WindowInv => ConfigHeld
  BY DEF WindowInv
<1> QED
  BY <1>1, WindowInvariant, PTL

\* Whatever is reloaded and times out meanwhile, a check that started its own
\* attempt on the drive shows the configuration in use.
THEOREM OwnCheckShowsConfig == Spec => []SnapshotOfConfig
<1>1. WindowInv => SnapshotOfConfig
  BY DEF WindowInv
<1> QED
  BY <1>1, WindowInvariant, PTL

\* A YubiKey test that no check overlapped is forgotten with its keys.
THEOREM TestFitsKeys == Spec => []TestOfShownKeys
<1>1. WindowInv => TestOfShownKeys
  BY DEF WindowInv
<1> QED
  BY <1>1, WindowInvariant, PTL

-----------------------------------------------------------------------------
(* Numbers.                                                                *)

\* The least of a set of numbers.
LEMMA LeastExists ==
    ASSUME NEW S \in SUBSET Nat, S # {}
    PROVE  \E i \in S : \A j \in S : i <= j
<1>1. PICK i \in S : \A j \in S : ~ (<<j, i>> \in OpToRel(<, Nat))
  BY WFMin, NatLessThanWellFounded, Zenon
<1>2. ASSUME NEW j \in S PROVE i <= j
  <2>1. ~ (j < i)
    BY <1>1 DEF OpToRel
  <2> QED
    BY <2>1
<1> QED
  BY <1>2

-----------------------------------------------------------------------------
(* config.yaml.                                                            *)

\* The program starts with a file that loads and that the user wrote.
LEMMA ConfigInvInit == ConfigInit => ConfigInv
<1> SUFFICES ASSUME ConfigInit PROVE ConfigInv
  OBVIOUS
<1>1. file \in Text /\ ~file.updated /\ cfg \in Values
  BY ConfigAssumption DEF ConfigInit, Text
<1> QED
  BY <1>1 DEF ConfigInit, ConfigInv, UpdaterStates, NotUpdating, UpdateHasCopy

\* The copy of a text is saved before its update replaces the file.
LEMMA ConfigInvNext == ConfigInv /\ [ConfigNext]_configVars => ConfigInv'
<1> SUFFICES ASSUME ConfigInv, [ConfigNext]_configVars PROVE ConfigInv'
  OBVIOUS
<1> USE DEF ConfigInv
<1>0. file.values \in Values
  BY DEF Text
<1>1. CASE ReloadWith \/ UpdateLoads \/ ProgramRestarts
  <2>1. cfg' \in Values /\ updater' \in {updater, NotUpdating} /\ UNCHANGED <<file, copies>>
    BY <1>0, <1>1 DEF ReloadWith, UpdateLoads, ProgramRestarts, UseFile
  <2> QED
    BY <2>1 DEF UpdaterStates, NotUpdating, UpdateHasCopy
<1>2. CASE UserEdits
  <2>1. file' \in Text /\ ~file'.updated
    BY <1>2, ConfigAssumption DEF UserEdits, Text
  <2> QED
    BY <1>2, <2>1 DEF UserEdits, UpdateHasCopy
<1>3. CASE UpdateReads
  <2>1. updater' = [stage |-> "read", data |-> file] /\ UNCHANGED <<file, copies, cfg>>
    BY <1>3 DEF UpdateReads
  <2>2. updater' \in UpdaterStates
    BY <2>1 DEF UpdaterStates
  <2> QED
    BY <1>3, <2>1, <2>2 DEF UpdateReads, UpdateHasCopy
<1>4. CASE UpdateSavesCopy
  <2>1. updater \in [stage : {"read", "copied"}, data : Text] /\ updater.stage = "read"
    BY <1>4 DEF UpdateSavesCopy, UpdaterStates, NotUpdating
  <2>2. /\ updater' \in [stage : {"read", "copied"}, data : Text]
        /\ updater'.data = updater.data /\ updater.data \in Text
    BY <1>4, <2>1 DEF UpdateSavesCopy
  <2> QED
    BY <1>4, <2>1, <2>2 DEF UpdateSavesCopy, UpdaterStates, UpdateHasCopy
<1>5. CASE UpdateReplaces
  <2>1. updater \in [stage : {"read", "copied"}, data : Text]
    BY <1>5 DEF UpdateReplaces, UpdaterStates, NotUpdating
  <2> DEFINE t == updater.data
  <2>2. t \in Text /\ t \in copies /\ t.loads
    BY <1>5, <2>1 DEF UpdateReplaces
  <2>3. /\ file' = UpdatedText(t) /\ UpdatedText(t) \in Text
        /\ UpdatedText(t).loads /\ ~UpdatedText(t).outdated /\ UpdatedText(t).values = t.values
    BY <1>5, <2>2 DEF UpdateReplaces, UpdatedText, Text
  <2>4. UpdateHasCopy'
    BY <1>5, <2>2, <2>3 DEF UpdateReplaces, UpdateHasCopy
  <2> QED
    BY <1>5, <2>3, <2>4 DEF UpdateReplaces, UpdaterStates
<1>6. CASE UpdateFails
  BY <1>6 DEF UpdateFails, UpdaterStates, NotUpdating, UpdateHasCopy
<1>7. CASE UNCHANGED configVars
  BY <1>7 DEF configVars, UpdateHasCopy
<1> QED
  BY <1>1, <1>2, <1>3, <1>4, <1>5, <1>6, <1>7 DEF ConfigNext

-----------------------------------------------------------------------------
(* What the window claims of one state.                                    *)

\* An error of the sources, the backup directory or the YubiKeys blocks a backup.
LEMMA ErrorBlocks ==
  ASSUME NEW items, NEW i \in items, i.error,
         i.scope \in {"Config", "Source", "BackupDir", "YubiKey", "YubiKeys"}
  PROVE  BlocksBackup(items)
  BY DEF BlocksBackup, ErrorScopes

\* When nothing blocks a backup: every folder can be backed up, the directory is
\* there, and there is one YubiKey at most where one is needed.
LEMMA Unblocked ==
  ASSUME ~Snapshot.blocksBackup
  PROVE  /\ \A i \in DOMAIN Folders : ~Folders[i].err
         /\ drive \notin {"away", "hung", "readonly"}
         /\ cfg.yubikey => ~ (yubikeys > 1)
<1> DEFINE folders == Folders
           items == Items(folders)
<1>1. ~BlocksBackup(items)
  BY DEF Snapshot
<1>2. \A i \in DOMAIN folders : ~folders[i].err
  <2> SUFFICES ASSUME NEW i \in DOMAIN folders, folders[i].err PROVE FALSE
    OBVIOUS
  <2>1. Item(TRUE, "SOURCE_INVALID", "Source") \in items
    BY DEF Items, SourceItems
  <2> QED
    BY <1>1, <2>1, ErrorBlocks DEF Item
<1>3. drive \notin {"away", "hung", "readonly"}
  <2> SUFFICES ASSUME drive \in {"away", "hung", "readonly"} PROVE FALSE
    OBVIOUS
  <2>1. \/ Item(TRUE, "BACKUP_DIR_UNREACHABLE", "BackupDir") \in items
        \/ Item(TRUE, "BACKUP_DIR_NOT_WRITABLE", "BackupDir") \in items
    BY DEF Items, DirectoryItems
  <2> QED
    BY <1>1, <2>1, ErrorBlocks DEF Item
<1>4. cfg.yubikey => ~ (yubikeys > 1)
  <2> SUFFICES ASSUME cfg.yubikey, yubikeys > 1 PROVE FALSE
    OBVIOUS
  <2>1. yubikeys # 0
    OBVIOUS
  <2>2. Item(TRUE, "YUBIKEYS_CONNECTED", "YubiKeys") \in items
    BY <1>3, <2>1 DEF Items, YubiKeyItems
  <2> QED
    BY <1>1, <2>2, ErrorBlocks DEF Item
<1> QED
  BY <1>2, <1>3, <1>4

\* "Back up now" is enabled only when the preflight of the run has nothing
\* against it.
LEMMA HonestButton ==
  ASSUME DirectoryType
  PROVE  ButtonIsHonest
<1> SUFFICES ASSUME HeroOf(Snapshot).primary = "backUp", HeroOf(Snapshot).enabled
             PROVE  ~PreflightBlocks /\ drive \in {"ok", "low", "new", "sticky"}
  BY DEF ButtonIsHonest
<1>1. PICK title, primary : HeroOf(Snapshot) = HeroWith(title, primary, Snapshot)
  BY DEF HeroOf
<1>2. ~Snapshot.blocksBackup
  <2>1. /\ HeroWith(title, primary, Snapshot).primary = primary
        /\ HeroWith(title, primary, Snapshot).enabled = (primary = "backUp" => ~Snapshot.blocksBackup)
    BY DEF HeroWith
  <2> QED
    BY <1>1, <2>1, Zenon
<1>3. /\ \A i \in DOMAIN Folders : ~Folders[i].err
      /\ drive \notin {"away", "hung", "readonly"}
      /\ cfg.yubikey => ~ (yubikeys > 1)
  BY <1>2, Unblocked
<1>4. ExistingKeys # None => NeedsYubiKey[ExistingKeys] = cfg.yubikey
  BY DEF ExistingKeys
<1>5. ~PreflightBlocks
  BY <1>3, <1>4 DEF PreflightBlocks
<1> QED
  BY <1>3, <1>5 DEF DirectoryType, Drive

\* There is a newest one of some backup sets.
LEMMA NewestExists ==
  ASSUME DirectoryType, NEW S \in SUBSET Entry, S # {}
  PROVE  NewestOf(S) \in S /\ \A f \in S : Created(f) <= Created(NewestOf(S))
<1> DEFINE T == {MaxTime - Created(e) : e \in S}
<1>1. \A e \in S : Created(e) \in 0 .. MaxTime
  BY DEF DirectoryType, SetFiles, Created
<1>2. MaxTime \in Nat
  BY CatalogAssumption
<1>3. T \in SUBSET Nat /\ T # {}
  BY <1>1, <1>2
<1>4. PICK t \in T : \A u \in T : t <= u
  BY <1>3, LeastExists
<1>5. PICK e \in S : t = MaxTime - Created(e)
  BY <1>4
<1>6. \A f \in S : Created(f) <= Created(e)
  <2> SUFFICES ASSUME NEW f \in S PROVE Created(f) <= Created(e)
    OBVIOUS
  <2>1. MaxTime - Created(e) <= MaxTime - Created(f)
    BY <1>4, <1>5
  <2> QED
    BY <1>1, <1>2, <2>1
<1> QED
  BY <1>6 DEF NewestOf

\* A set with a gap is there, and neither complete nor merely incomplete.
LEMMA PresentKinds ==
  ASSUME NEW e
  PROVE  /\ Unreadable(e) => Present(e)
         /\ Complete(e) => Present(e) /\ ~Unreadable(e)
         /\ Present(e) => Complete(e) \/ Incomplete(e) \/ Unreadable(e)
  BY DEF Unreadable, HasGap, Present, Complete, Incomplete

\* When no problem is reported, there is none of the ones a backup can have.
LEMMA NoProblem ==
  ASSUME Snapshot.problems = {}
  PROVE  /\ drive \notin {"away", "hung", "readonly", "sticky"}
         /\ \A i \in DOMAIN Folders : ~Folders[i].err
         /\ \A e \in CompleteSeen : ~BaseLost(e)
         /\ \A e \in Sets : ~Unreadable(e) /\ e \notin failed
         /\ Runs # {} => \A i \in Runnable(Folders) : Backups(Folders[i].name) # {}
         /\ \A i \in DOMAIN Folders : ~Folders[i].skip /\ Backups(Folders[i].name) # {} =>
               Newest(Folders[i].name) \notin unread
         /\ \A e \in Sets : Incomplete(e) /\ (\E i \in DOMAIN Folders : Folders[i].name = e.dir) =>
               \E g \in Backups(e.dir) : ~ (Created(g) < Created(e))
<1> DEFINE folders == Folders
           items == Items(folders)
<1>1. /\ DirectoryProblems(items) = {} /\ FolderProblems(folders) = {} /\ BaseProblems = {}
      /\ InvalidSets = {} /\ FailedSets = {} /\ NotBackedUp(folders) = {}
      /\ SkippedFiles(folders) = {} /\ IncompleteNewest(folders) = {}
  BY DEF Snapshot, ProblemsOf
<1>2. drive \notin {"away", "hung", "readonly", "sticky"}
  <2> SUFFICES ASSUME drive \in {"away", "hung", "readonly", "sticky"} PROVE FALSE
    OBVIOUS
  <2>1. PICK i \in DirectoryItems : i.code \in {"BACKUP_DIR_UNREACHABLE", "BACKUP_DIR_NOT_WRITABLE"}
    BY DEF DirectoryItems, Item
  <2>2. i \in items
    BY DEF Items
  <2> QED
    BY <1>1, <2>1, <2>2 DEF DirectoryProblems
<1>3. \A i \in DOMAIN folders : ~folders[i].err
  BY <1>1 DEF FolderProblems
<1>4. \A e \in CompleteSeen : ~BaseLost(e)
  BY <1>1 DEF BaseProblems
<1>5. \A e \in Sets : ~Unreadable(e) /\ e \notin failed
  BY <1>1 DEF InvalidSets, FailedSets
<1>6. Runs # {} => \A i \in Runnable(folders) : Backups(folders[i].name) # {}
  BY <1>1 DEF NotBackedUp
<1>7. \A i \in DOMAIN folders : ~folders[i].skip /\ Backups(folders[i].name) # {} =>
         Newest(folders[i].name) \notin unread
  BY <1>1 DEF SkippedFiles
<1>8. \A e \in Sets : Incomplete(e) /\ (\E i \in DOMAIN folders : folders[i].name = e.dir) =>
         \E g \in Backups(e.dir) : ~ (Created(g) < Created(e))
  BY <1>1 DEF IncompleteNewest
<1> QED
  BY <1>2, <1>3, <1>4, <1>5, <1>6, <1>7, <1>8

\* A folder without an error can be read.
LEMMA ReadableFolders ==
  ASSUME drive # "hung", NEW i \in DOMAIN cfg.sources, ~Folders[i].err
  PROVE  cfg.sources[i] \in readable
  BY DEF Folders, ResolveSources

\* A green hero is true.
LEMMA ProtectedRestores ==
  ASSUME DirectoryType, ChainKeys
  PROVE  ProtectedIsRestorable
<1> SUFFICES ASSUME HeroOf(Snapshot).title = "protected" PROVE ProtectedIsRestorable
  BY DEF ProtectedIsRestorable
<1>1. Snapshot.problems = {} /\ Snapshot.state # "empty"
  BY DEF HeroOf, HeroWith, HeroProblems
<1>2. /\ drive \notin {"away", "hung", "readonly", "sticky"}
      /\ \A i \in DOMAIN Folders : ~Folders[i].err
      /\ \A e \in CompleteSeen : ~BaseLost(e)
      /\ \A e \in Sets : ~Unreadable(e) /\ e \notin failed
      /\ Runs # {} => \A i \in Runnable(Folders) : Backups(Folders[i].name) # {}
      /\ \A i \in DOMAIN Folders : ~Folders[i].skip /\ Backups(Folders[i].name) # {} =>
            Newest(Folders[i].name) \notin unread
      /\ \A e \in Sets : Incomplete(e) /\ (\E i \in DOMAIN Folders : Folders[i].name = e.dir) =>
            \E g \in Backups(e.dir) : ~ (Created(g) < Created(e))
  BY <1>1, NoProblem
<1>3. Runs # {}
  BY <1>1 DEF Snapshot, StateOf
<1>4. Listed /\ drive \in {"ok", "low"}
  BY <1>2, <1>3 DEF Runs, CompleteSeen, Sets, Listed, DirectoryType, Drive
<1>5. Sets = {e \in Entry : Present(e)} /\ CompleteSeen = {e \in Entry : Complete(e)}
  BY <1>4 DEF Sets, CompleteSeen, Complete
<1>6. \A i \in DOMAIN cfg.sources : cfg.sources[i] \in readable
  <2> SUFFICES ASSUME NEW i \in DOMAIN cfg.sources PROVE cfg.sources[i] \in readable
    OBVIOUS
  <2>1. i \in DOMAIN Folders
    BY <1>2 DEF Folders, ResolveSources
  <2> QED
    BY <1>2, <2>1, ReadableFolders
<1>7. ASSUME NEW i \in Runnable(Folders)
      PROVE  \E e \in Backups(Folders[i].name) :
               /\ IsDiff(e) => Complete(FullOf(e)) /\ disk[FullOf(e)].key = disk[e].key
               /\ e \notin unread /\ e \notin failed
               /\ \A f \in Entry : f.dir = e.dir /\ Present(f) => Created(f) <= Created(e)
  <2> DEFINE name == Folders[i].name
             e == Newest(name)
  <2>1. i \in DOMAIN Folders /\ ~Folders[i].skip /\ Backups(name) # {}
    BY <1>2, <1>3 DEF Runnable
  <2>2. Backups(name) \in SUBSET Entry
    BY <1>5 DEF Backups
  <2>3. e \in Backups(name) /\ \A f \in Backups(name) : Created(f) <= Created(e)
    BY <2>1, <2>2, NewestExists DEF Newest
  <2> HIDE DEF e
  <2>4. e \in Entry /\ e.dir = name /\ Complete(e) /\ e \in Sets /\ e \in CompleteSeen
    BY <1>5, <2>3, PresentKinds DEF Backups
  <2>5. IsDiff(e) => Complete(FullOf(e)) /\ disk[FullOf(e)].key = disk[e].key
    <3>1. IsDiff(e) => Complete(FullOf(e))
      BY <1>2, <2>4 DEF BaseLost
    <3> QED
      BY <2>4, <3>1, PresentKinds DEF ChainKeys
  <2>6. e \notin unread /\ e \notin failed
    BY <1>2, <2>1, <2>4 DEF e
  <2>7. ASSUME NEW f \in Entry, f.dir = name, Present(f) PROVE Created(f) <= Created(e)
    <3>1. f \in Sets
      BY <1>5, <2>7
    <3>2. CASE Complete(f)
      BY <1>5, <2>3, <2>7, <3>2 DEF Backups
    <3>3. CASE Incomplete(f)
      <4>1. PICK g \in Backups(name) : ~ (Created(g) < Created(f))
        BY <1>2, <2>1, <2>7, <3>1, <3>3
      <4>2. g \in Entry /\ Created(g) <= Created(e)
        BY <2>2, <2>3
      <4>3. Created(f) \in Nat /\ Created(g) \in Nat /\ Created(e) \in Nat
        BY <2>4, <2>7, <4>2 DEF DirectoryType, SetFiles, Created
      <4> QED
        BY <4>1, <4>2, <4>3
    <3> QED
      BY <1>2, <2>7, <3>1, <3>2, <3>3, PresentKinds
  <2> QED
    BY <2>3, <2>4, <2>5, <2>6, <2>7
<1>8. \A e \in Entry : ~Unreadable(e) /\ (Complete(e) /\ IsDiff(e) => Complete(FullOf(e)))
  BY <1>2, <1>5, PresentKinds DEF BaseLost
<1> QED
  BY <1>4, <1>6, <1>7, <1>8 DEF ProtectedIsRestorable

\* Every set is in one group of the list, and a selection offers what can be
\* restored.
LEMMA ListMatches ==
  ASSUME ChainKeys
  PROVE  ListMatchesDisk
<1>1. ASSUME NEW e \in Sets PROVE Cardinality({g \in Groups : e \in g}) = 1
  <2> DEFINE day == {f \in Sets \ CompleteSeen : Created(f) = Created(e)}
  <2>1. CASE e \in CompleteSeen
    <3>1. disk[e].run \in Runs /\ e \in SetsOfRun(disk[e].run)
      BY <2>1 DEF Runs, SetsOfRun
    <3>2. {g \in Groups : e \in g} = {SetsOfRun(disk[e].run)}
      BY <2>1, <3>1 DEF Groups, SetsOfRun
    <3> QED
      BY <3>2, FS_Singleton
  <2>2. CASE e \notin CompleteSeen
    <3>1. e \in Sets \ CompleteSeen /\ e \in day
      BY <2>2
    <3>2. {g \in Groups : e \in g} = {day}
      BY <2>2, <3>1 DEF Groups, SetsOfRun
    <3> QED
      BY <3>2, FS_Singleton
  <2> QED
    BY <2>1, <2>2
<1>2. ASSUME NEW r \in Runs, NEW name \in Dir \cup {0}
      PROVE  LET s == Selection(r, name)
             IN /\ \A e \in s.sets : /\ Complete(e) /\ Complete(FullOf(e))
                                     /\ disk[FullOf(e)].key = disk[e].key
                /\ s.whole => s.sets = {e \in Entry : Complete(e) /\ disk[e].run = r}
  <2> DEFINE s == Selection(r, name)
             rows == {e \in SetsOfRun(r) : name = 0 \/ e.dir = name}
  <2>1. /\ s.sets = {e \in rows : Usable(e)}
        /\ s.whole = ((\A e \in rows : Usable(e)) /\ rows = SetsOfRun(r))
    BY DEF Selection
  <2> HIDE DEF s
  <2>2. SetsOfRun(r) = {e \in Entry : Complete(e) /\ disk[e].run = r}
    BY DEF Runs, SetsOfRun, CompleteSeen, Sets, Complete
  <2>3. ASSUME NEW e \in s.sets
        PROVE  Complete(e) /\ Complete(FullOf(e)) /\ disk[FullOf(e)].key = disk[e].key
    <3>1. e \in Entry /\ Complete(e) /\ ~BaseLost(e)
      BY <2>1, <2>2 DEF Usable
    <3>2. CASE IsDiff(e)
      BY <3>1, <3>2, PresentKinds DEF BaseLost, ChainKeys
    <3>3. CASE ~IsDiff(e)
      <4>1. e.n = 0
        BY <3>1, <3>3, CatalogAssumption DEF Entry, IsDiff
      <4>2. FullOf(e) = e
        BY <3>1, <4>1 DEF Entry, FullOf
      <4> QED
        BY <3>1, <4>2
    <3> QED
      BY <3>2, <3>3
  <2>4. s.whole => s.sets = {e \in Entry : Complete(e) /\ disk[e].run = r}
    BY <2>1, <2>2
  <2> QED
    BY <2>3, <2>4 DEF s
<1> QED
  BY <1>1, <1>2 DEF ListMatchesDisk

\* The problems a green result card hints at.
LEMMA HintIsTrue ==
  ASSUME ErrorLines = {}
  PROVE  \A e \in Sets : ~Unreadable(e) /\ e \notin failed
<1> SUFFICES ASSUME NEW e \in Sets PROVE ~Unreadable(e) /\ e \notin failed
  OBVIOUS
<1>1. \A p : p \in BaseProblems \cup InvalidSets \cup FailedSets => p \in Snapshot.problems
  BY DEF Snapshot, ProblemsOf
<1>2. \A p \in BaseProblems \cup InvalidSets \cup FailedSets :
         p.error /\ p.code \in {"BASE_MISSING", "SET_INCOMPLETE", "VERIFY_FAILED"}
  BY DEF BaseProblems, InvalidSets, FailedSets, Problem
<1>3. BaseProblems = {} /\ InvalidSets = {} /\ FailedSets = {}
  BY <1>1, <1>2 DEF ErrorLines
<1> QED
  BY <1>3 DEF InvalidSets, FailedSets

\* A failed or cancelled run is noted as long as no backup is newer.
LEMMA NoteIsShown ==
  ASSUME DirectoryType, RunTimes, NEW r \in RunId, Listed, Bad(r),
         \A e \in CompleteSets : Created(e) <= log[r].time
  PROVE  LastRunNote
<1>1. CompleteSeen = CompleteSets /\ CompleteSeen \in SUBSET Entry
  BY DEF CompleteSeen, Sets, CompleteSets, Complete
<1>2. log[r].time \in 1 .. now /\ now \in Nat
  <2>1. log[r].result # None
    BY DEF Bad, None
  <2> QED
    BY <2>1, CatalogAssumption DEF RunTimes, DirectoryType
<1>3. CASE Runs = {}
  <2>1. log[r].time > 0
    BY <1>2
  <2> QED
    BY <1>3, <2>1 DEF LastRunNote
<1>4. CASE Runs # {}
  <2> DEFINE newest == CHOOSE p \in Runs : \A q \in Runs : RunCreated(q) <= RunCreated(p)
  <2>1. ASSUME NEW q \in Runs
        PROVE  /\ NewestOf(SetsOfRun(q)) \in SetsOfRun(q)
               /\ \A e \in SetsOfRun(q) : Created(e) <= RunCreated(q)
    <3>1. SetsOfRun(q) \in SUBSET Entry /\ SetsOfRun(q) # {}
      BY <1>1 DEF SetsOfRun, Runs
    <3> QED
      BY <3>1, NewestExists DEF RunCreated
  <2>2. \E p \in Runs : \A q \in Runs : RunCreated(q) <= RunCreated(p)
    <3> DEFINE w == NewestOf(CompleteSeen)
    <3>1. CompleteSeen # {}
      BY <1>4 DEF Runs
    <3>2. w \in CompleteSeen /\ \A e \in CompleteSeen : Created(e) <= Created(w)
      BY <1>1, <3>1, NewestExists
    <3> HIDE DEF w
    <3>3. disk[w].run \in Runs /\ w \in SetsOfRun(disk[w].run)
      BY <3>2 DEF Runs, SetsOfRun
    <3>4. Created(w) <= RunCreated(disk[w].run)
      BY <2>1, <3>3
    <3>5. ASSUME NEW q \in Runs PROVE RunCreated(q) <= RunCreated(disk[w].run)
      <4>1. RunCreated(q) <= Created(w)
        BY <2>1, <3>2 DEF RunCreated, SetsOfRun
      <4>2. \A e \in Entry : Created(e) \in Nat
        BY DEF DirectoryType, SetFiles, Created
      <4>3. RunCreated(q) \in Nat /\ RunCreated(disk[w].run) \in Nat /\ Created(w) \in Nat
        BY <1>1, <2>1, <3>2, <3>3, <4>2 DEF RunCreated, SetsOfRun
      <4> QED
        BY <3>4, <4>1, <4>3
    <3> QED
      BY <3>3, <3>5
  <2>3. newest \in Runs
    BY <2>2
  <2>4. LastRunNote <=> Bad(newest) \/ \E q \in RunId : Bad(q) /\ log[q].time > RunCreated(newest)
    BY <1>4 DEF LastRunNote
  <2> HIDE DEF newest
  <2> DEFINE w == NewestOf(SetsOfRun(newest))
  <2>5. w \in Entry /\ Complete(w) /\ disk[w].run = newest /\ RunCreated(newest) = Created(w)
    BY <1>1, <2>1, <2>3 DEF SetsOfRun, CompleteSets, RunCreated
  <2> HIDE DEF w
  <2>6. Created(w) <= log[r].time /\ Created(w) \in Nat
    BY <2>5 DEF CompleteSets, DirectoryType, SetFiles, Created
  <2>7. CASE Created(w) = log[r].time
    <3>1. log[r].result # None
      BY DEF Bad, None
    <3>2. newest = r
      BY <2>5, <2>7, <3>1, PresentKinds DEF RunTimes
    <3> QED
      BY <2>4, <3>2
  <2>8. CASE Created(w) # log[r].time
    <3>1. log[r].time > RunCreated(newest)
      BY <1>2, <2>5, <2>6, <2>8
    <3> QED
      BY <2>4, <3>1
  <2> QED
    BY <2>7, <2>8
<1> QED
  BY <1>3, <1>4

\* The result card and the note of the last run are true.
LEMMA CardFollows ==
  ASSUME DirectoryType, RunTimes, FinishedInv
  PROVE  CardIsTrue
<1>1. \A r \in RunId : Listed /\ Bad(r) /\ (\A e \in CompleteSets : Created(e) <= log[r].time)
                         => LastRunNote
  BY NoteIsShown
<1>2. Green /\ ~Hint => \A e \in Sets : ~Unreadable(e) /\ e \notin failed
  BY HintIsTrue DEF Hint
<1> QED
  BY <1>1, <1>2 DEF CardIsTrue, FinishedInv

-----------------------------------------------------------------------------
(* The inductive invariant holds at first, and what a step leaves alone    *)
(* stays true.                                                             *)

\* Set files that are not there have a type too.
LEMMA NothingType == Nothing \in SetFiles
  BY CatalogAssumption DEF Nothing, SetFiles

\* No set, no fact and no run.
LEMMA PagesInvInit == PagesInit => PagesInv
<1> SUFFICES ASSUME PagesInit PROVE PagesInv
  OBVIOUS
<1>1. ConfigInv
  BY ConfigInvInit DEF PagesInit
<1>2. DirectoryType
  BY NothingType, CatalogAssumption DEF PagesInit, DirectoryType, Facts, NoFact, Drive
<1>3. \A e \in Entry : ~Present(e)
  BY DEF PagesInit, Present, Nothing
<1>4. \A r \in RunId : log[r].result = None
  BY DEF PagesInit, NoFact
<1>5. RunType /\ RunningInv /\ FinishedInv
  BY DEF PagesInit, RunType, RunningInv, FinishedInv, Running, NoRun
<1> QED
  BY <1>1, <1>2, <1>3, <1>4, <1>5 DEF PagesInv, ChainKeys, RunTimes

\* The full backup of a chain is an entry.
LEMMA FullOfEntry == ASSUME NEW e \in Entry PROVE FullOf(e) \in Entry
  BY CatalogAssumption DEF Entry, FullOf

\* Sets that stay with their keys, or go, leave a chain one key set ...
LEMMA KeysKept ==
  ASSUME ChainKeys,
         \A e \in Entry : Present(e)' => Present(e) /\ disk'[e].key = disk[e].key
  PROVE  ChainKeys'
  BY FullOfEntry DEF ChainKeys

\* ... and, with their time and run, leave the time of a logged result to its run.
LEMMA TimesKept ==
  ASSUME DirectoryType, DirectoryType', RunTimes, now <= now',
         \A e \in Entry : Present(e)' => /\ Present(e)
                                         /\ disk'[e].created = disk[e].created
                                         /\ disk'[e].run = disk[e].run,
         \A r \in RunId : log'[r].result # None => log'[r] = log[r]
  PROVE  RunTimes'
<1>1. now \in Int /\ now' \in Int /\ \A e \in Entry : disk[e].created \in Int
  BY DEF DirectoryType, SetFiles
<1>2. ASSUME NEW e \in Entry, Present(e)' PROVE Created(e)' <= now'
  BY <1>1, <1>2 DEF RunTimes, Created
<1>3. ASSUME NEW r \in RunId, log'[r].result # None
      PROVE  /\ log'[r].time \in 1 .. now'
             /\ \A e \in Entry : Present(e)' /\ Created(e)' = log'[r].time => disk'[e].run = r
  <2>1. log'[r] = log[r] /\ log[r].result # None
    BY <1>3
  <2>2. log[r].time \in 1 .. now
    BY <2>1 DEF RunTimes
  <2>3. \A e \in Entry : Present(e) /\ Created(e) = log[r].time => disk[e].run = r
    BY <2>1 DEF RunTimes
  <2>4. log'[r].time \in 1 .. now'
    BY <1>1, <2>1, <2>2
  <2>5. \A e \in Entry : Present(e)' /\ Created(e)' = log'[r].time => disk'[e].run = r
    BY <2>1, <2>3 DEF Created
  <2> QED
    BY <2>4, <2>5
<1> QED
  BY <1>2, <1>3 DEF RunTimes

\* Without a run there is no plan and no card.
LEMMA ClosedCard ==
  ASSUME run' = NoRun
  PROVE  RunType' /\ RunningInv' /\ FinishedInv'
  BY DEF RunType, RunningInv, FinishedInv, Running, NoRun

\* What the pages do to the directory leaves config.yaml alone.
LEMMA ConfigKept ==
  ASSUME ConfigInv, UNCHANGED configVars
  PROVE  ConfigInv'
  BY ConfigInvNext

\* Between two runs: nothing that happens adds a set or a fact.
LEMMA QuietNext ==
  ASSUME PagesInv,
         \/ Done \/ Verify \/ LosePart \/ SourceChanges \/ DriveChanges \/ YubiKeysChange
         \/ Tick \/ ConfigChanges
  PROVE  PagesInv'
<1> USE DEF PagesInv
<1>1. run' = NoRun
  BY DEF Done, Verify, LosePart, SourceChanges, DriveChanges, YubiKeysChange, Tick,
         ConfigChanges, Quiet
<1>2. ConfigInv'
  <2>1. CASE ConfigChanges
    BY <2>1, ConfigInvNext DEF ConfigChanges
  <2>2. CASE UNCHANGED configVars
    BY <2>2, ConfigKept
  <2> QED
    BY <2>1, <2>2 DEF Done, Verify, LosePart, SourceChanges, DriveChanges, YubiKeysChange, Tick
<1>3. log' = log
  BY DEF Done, Verify, LosePart, SourceChanges, DriveChanges, YubiKeysChange, Tick,
         ConfigChanges, dirVars
<1>4. now' \in 0 .. MaxTime /\ now <= now'
  <2>1. CASE Tick
    BY <2>1, CatalogAssumption DEF Tick, DirectoryType
  <2>2. CASE now' = now
    BY <2>2 DEF DirectoryType
  <2> QED
    BY <2>1, <2>2 DEF Done, Verify, LosePart, SourceChanges, DriveChanges, YubiKeysChange,
                      ConfigChanges, envVars
<1>5. readable' \subseteq Path /\ drive' \in Drive /\ yubikeys' \in 0 .. 2
  <2>1. CASE SourceChanges
    BY <2>1 DEF SourceChanges, DirectoryType
  <2>2. CASE DriveChanges
    BY <2>2 DEF DriveChanges, DirectoryType
  <2>3. CASE YubiKeysChange
    BY <2>3 DEF YubiKeysChange, DirectoryType
  <2>4. CASE UNCHANGED <<readable, drive, yubikeys>>
    BY <2>4 DEF DirectoryType
  <2> QED
    BY <2>1, <2>2, <2>3, <2>4 DEF Done, Verify, LosePart, Tick, ConfigChanges, envVars
<1>6. /\ disk' \in [Entry -> SetFiles]
      /\ \A e \in Entry : Present(e)' => /\ Present(e)
                                         /\ disk'[e].created = disk[e].created
                                         /\ disk'[e].run = disk[e].run
                                         /\ disk'[e].key = disk[e].key
  <2>1. CASE LosePart
    <3>1. PICK e \in Entry, k \in UNION {disk[f].final : f \in Entry} :
             disk' = [disk EXCEPT ![e].final = @ \ {k}]
      BY <2>1 DEF LosePart
    <3> QED
      BY <3>1 DEF DirectoryType, SetFiles, Present
  <2>2. CASE disk' = disk
    BY <2>2 DEF DirectoryType, Present
  <2> QED
    BY <2>1, <2>2 DEF Done, Verify, SourceChanges, DriveChanges, YubiKeysChange, Tick,
                      ConfigChanges, dirVars
<1>7. DirectoryType'
  BY <1>3, <1>4, <1>5, <1>6 DEF DirectoryType
<1>8. ChainKeys'
  BY <1>6, KeysKept
<1>9. RunTimes'
  BY <1>3, <1>4, <1>6, <1>7, TimesKept
<1> QED
  BY <1>1, <1>2, <1>7, <1>8, <1>9, ClosedCard

-----------------------------------------------------------------------------
(* A run writes.                                                           *)

\* The elements of a sequence.
LEMMA ElementIn == ASSUME NEW S, NEW s \in Seq(S), NEW i \in 1 .. Len(s) PROVE s[i] \in S
  OBVIOUS

\* A function on 1 .. n is a sequence.
LEMMA SequenceOf == ASSUME NEW S, NEW n \in Nat, NEW s \in [1 .. n -> S] PROVE s \in Seq(S)
  OBVIOUS

\* The entry of the folder whose turn it is.
LEMMA CurrentPlanned ==
  ASSUME RunType, RunningInv, Running, run.done < Len(run.plan)
  PROVE  /\ run.done + 1 \in DOMAIN run.plan /\ Current = run.plan[run.done + 1]
         /\ Current.entry \in Entry
         /\ Planned(Current.entry)
<1>1. run # NoRun
  BY DEF Running, NoRun
<1>2. run.plan \in Seq([path : Path, entry : Entry]) /\ run.done \in 0 .. Len(run.plan)
  BY <1>1 DEF RunType
<1>3. run.done + 1 \in DOMAIN run.plan
  BY <1>2
<1>4. run.done + 1 \in 1 .. Len(run.plan)
  BY <1>2
<1>5. run.plan[run.done + 1] \in [path : Path, entry : Entry]
  BY <1>2, <1>4, ElementIn
<1> QED
  BY <1>3, <1>5 DEF Current, RunningInv

\* Written set files: with the keys of its run, they fit their chain; their time
\* is the run's own.
LEMMA WriteFits ==
  ASSUME DirectoryType, RunType, ChainKeys, RunTimes, RunningInv,
         Running, run.done < Len(run.plan),
         NEW files \in SetFiles,
         files.created = now, files.run = run.id, files.key = run.key,
         disk' = [disk EXCEPT ![Current.entry] = files],
         UNCHANGED <<readable, drive, yubikeys, now, log>>
  PROVE  DirectoryType' /\ ChainKeys' /\ RunTimes'
<1> DEFINE w == Current.entry
<1>1. w \in Entry /\ Planned(w)
  BY CurrentPlanned
<1> HIDE DEF w
<1>2. disk' = [disk EXCEPT ![w] = files]
  BY DEF w
<1>3. /\ disk' \in [Entry -> SetFiles] /\ disk'[w] = files
      /\ \A e \in Entry : e # w => disk'[e] = disk[e]
  BY <1>1, <1>2 DEF DirectoryType
<1>4. DirectoryType'
  BY <1>3 DEF DirectoryType
<1>5. ASSUME NEW e \in Entry, Present(e)', IsDiff(e), Present(FullOf(e))'
      PROVE  disk'[FullOf(e)].key = disk'[e].key
  <2> DEFINE b == FullOf(e)
  <2>1. b \in Entry /\ b # e /\ b.chain = e.chain
    BY <1>5, FullOfEntry DEF FullOf, IsDiff, Entry
  <2>2. CASE e = w
    <3>1. b \in Fulls(w.dir) /\ disk[b].key = run.key
      BY <1>1, <1>5, <2>2 DEF Planned
    <3> QED
      BY <1>3, <2>1, <2>2, <3>1
  <2>3. CASE b = w
    <3>1. w.chain = run.id
      <4>1. ~IsDiff(w)
        BY <2>3, CatalogAssumption DEF IsDiff, FullOf
      <4> QED
        BY <1>1, <4>1 DEF Planned
    <3>2. disk'[e] = disk[e] /\ Present(e)
      BY <1>3, <1>5, <2>1, <2>3 DEF Present
    <3>3. disk[e].key = run.key
      BY <2>1, <2>3, <3>1, <3>2 DEF RunningInv
    <3> QED
      BY <1>3, <2>3, <3>2, <3>3
  <2>4. CASE e # w /\ b # w
    <3>1. disk'[e] = disk[e] /\ disk'[b] = disk[b]
      BY <1>3, <2>1, <2>4
    <3>2. Present(e) /\ Present(b)
      BY <1>5, <3>1 DEF Present
    <3> QED
      BY <1>5, <3>1, <3>2 DEF ChainKeys
  <2> QED
    BY <2>2, <2>3, <2>4
<1>6. ASSUME NEW e \in Entry, Present(e)' PROVE Created(e)' <= now'
  <2>1. now \in Int
    BY DEF DirectoryType
  <2> QED
    BY <1>3, <1>6, <2>1 DEF RunTimes, Created, Present
<1>7. ASSUME NEW r \in RunId, log'[r].result # None
      PROVE  /\ log'[r].time \in 1 .. now'
             /\ \A e \in Entry : Present(e)' /\ Created(e)' = log'[r].time => disk'[e].run = r
  <2>1. log'[r] = log[r] /\ log[r].time \in 1 .. now /\ log[r].time # now
    BY <1>7 DEF RunTimes, RunningInv
  <2>2. ASSUME NEW e \in Entry, Present(e)', Created(e)' = log'[r].time PROVE disk'[e].run = r
    <3>1. e # w
      BY <1>3, <2>1, <2>2 DEF Created
    <3>2. disk'[e] = disk[e] /\ Present(e) /\ Created(e) = log[r].time
      BY <1>3, <2>1, <2>2, <3>1 DEF Present, Created
    <3> QED
      BY <1>7, <2>1, <3>2 DEF RunTimes
  <2> QED
    BY <2>1, <2>2
<1> QED
  BY <1>4, <1>5, <1>6, <1>7 DEF ChainKeys, RunTimes

\* The files of a set that a run writes.
LEMMA WrittenFiles ==
  ASSUME DirectoryType, RunType, Running,
         NEW final \in SUBSET (1 .. MaxParts), NEW parts \in 0 .. MaxParts
  PROVE  /\ SetOfRun(final, parts) \in SetFiles
         /\ SetOfRun(final, parts).created = now
         /\ SetOfRun(final, parts).run = run.id
         /\ SetOfRun(final, parts).key = run.key
         /\ SetOfRun(final, parts).final = final
         /\ SetOfRun(final, parts).parts = parts
<1>1. run # NoRun
  BY DEF Running, NoRun
<1>2. run.id \in RunId /\ run.key \in Key /\ now \in 0 .. MaxTime
  BY <1>1 DEF RunType, DirectoryType
<1> QED
  BY <1>2 DEF SetOfRun, SetFiles

\* Parts of a crashed run stay; the window starts again without a card.
LEMMA CrashNext == ASSUME PagesInv, Crash PROVE PagesInv'
<1> USE DEF PagesInv
<1>1. run' = NoRun /\ ConfigInv' /\ UNCHANGED <<readable, drive, yubikeys, now, log>>
  BY ConfigKept DEF Crash, dirVars
<1>2. DirectoryType' /\ ChainKeys' /\ RunTimes'
  <2>1. CASE UNCHANGED dirVars
    BY <1>1, <2>1 DEF dirVars, DirectoryType, ChainKeys, RunTimes, Present, Created
  <2>2. CASE /\ run.done < Len(run.plan)
             /\ disk' = [disk EXCEPT ![Current.entry] = SetOfRun({1}, 0)]
    <3>1. 1 \in 1 .. MaxParts /\ 0 \in 0 .. MaxParts /\ Running
      BY CatalogAssumption DEF Crash
    <3>2. /\ SetOfRun({1}, 0) \in SetFiles /\ SetOfRun({1}, 0).created = now
          /\ SetOfRun({1}, 0).run = run.id /\ SetOfRun({1}, 0).key = run.key
      BY <3>1, WrittenFiles
    <3> QED
      BY <1>1, <2>2, <3>1, <3>2, WriteFits
  <2>3. CASE /\ run.done < Len(run.plan)
             /\ disk' = [disk EXCEPT ![Current.entry].temp = {1}]
    <3>1. Current.entry \in Entry /\ 1 \in 1 .. MaxParts
      BY <2>3, CurrentPlanned, CatalogAssumption DEF Crash
    <3>2. /\ disk' \in [Entry -> SetFiles]
          /\ \A e \in Entry : /\ disk'[e].final = disk[e].final
                              /\ disk'[e].created = disk[e].created
                              /\ disk'[e].run = disk[e].run
                              /\ disk'[e].key = disk[e].key
      BY <2>3, <3>1 DEF DirectoryType, SetFiles
    <3>3. DirectoryType'
      BY <1>1, <3>2 DEF DirectoryType
    <3>4. now <= now'
      BY <1>1 DEF DirectoryType
    <3> QED
      BY <1>1, <3>2, <3>3, <3>4, KeysKept, TimesKept DEF Present
  <2> QED
    BY <2>1, <2>2, <2>3 DEF Crash
<1> QED
  BY <1>1, <1>2, ClosedCard

\* What a folder planned fits as before when nothing else of its name changes.
LEMMA PlannedKept ==
  ASSUME NEW p \in Entry, Planned(p), run'.id = run.id, run'.key = run.key,
         \A e \in Entry : e.dir = p.dir /\ e # p => disk'[e] = disk[e]
  PROVE  Planned(p)'
<1>1. CASE IsDiff(p)
  <2>0. FullOf(p) \in Entry /\ FullOf(p) # p /\ FullOf(p).dir = p.dir
    BY <1>1, FullOfEntry DEF FullOf, IsDiff
  <2>1. PICK b \in Entry : b = FullOf(p) /\ b # p /\ b.dir = p.dir
    BY <2>0
  <2>2. /\ b \in Fulls(p.dir) /\ disk[b].key = run.key
        /\ \A c \in Fulls(p.dir) : Created(c) <= Created(b)
        /\ \A f \in DiffsOf(b) : f.n <= p.n
    BY <1>1, <2>1 DEF Planned
  <2>3. \A e \in Entry : e.dir = p.dir /\ e # p => /\ Complete(e)' = Complete(e)
                                                   /\ Present(e)' = Present(e)
                                                   /\ Created(e)' = Created(e)
    BY DEF Complete, Present, HasGap, HasTrailer, Created
  <2>4. \A c : c \in Fulls(p.dir)' <=> c \in Entry /\ c.dir = p.dir /\ ~IsDiff(c) /\ Complete(c)'
    BY DEF Fulls, CompleteSets
  <2>5. \A c : c \in Fulls(p.dir) <=> c \in Entry /\ c.dir = p.dir /\ ~IsDiff(c) /\ Complete(c)
    BY DEF Fulls, CompleteSets
  <2>6. b \in Fulls(p.dir)'
    BY <2>1, <2>2, <2>3, <2>4, <2>5
  <2>7. ASSUME NEW c \in Fulls(p.dir)' PROVE Created(c)' <= Created(b)'
    <3>1. c \in Fulls(p.dir) /\ Created(c)' = Created(c)
      BY <1>1, <2>3, <2>4, <2>5
    <3> QED
      BY <2>1, <2>2, <2>3, <3>1
  <2>8. ASSUME NEW f \in DiffsOf(b)' PROVE f.n <= p.n
    <3>1. f \in Entry /\ Present(f)' /\ IsDiff(f) /\ FullOf(f) = b
      BY DEF DiffsOf
    <3>2. f.dir = p.dir
      BY <2>1, <3>1 DEF FullOf
    <3>3. CASE f = p
      BY <3>3 DEF Entry
    <3>4. CASE f # p
      <4>1. f \in DiffsOf(b)
        BY <2>3, <3>1, <3>2, <3>4 DEF DiffsOf
      <4> QED
        BY <2>2, <4>1
    <3> QED
      BY <3>3, <3>4
  <2>9. disk'[b].key = run'.key
    BY <2>1, <2>2
  <2> QED
    BY <1>1, <2>1, <2>6, <2>7, <2>8, <2>9 DEF Planned
<1>2. CASE ~IsDiff(p)
  BY <1>2 DEF Planned
<1> QED
  BY <1>1, <1>2

\* The entries of a run's plan.
LEMMA PlanEntries ==
  ASSUME RunType, run # NoRun
  PROVE  /\ \A i \in DOMAIN run.plan : run.plan[i].entry \in Entry
         /\ DOMAIN run.plan = 1 .. Len(run.plan) /\ Len(run.plan) \in Nat
         /\ run.done \in 0 .. Len(run.plan)
<1>1. run.plan \in Seq([path : Path, entry : Entry]) /\ run.done \in 0 .. Len(run.plan)
  BY DEF RunType
<1>2. DOMAIN run.plan = 1 .. Len(run.plan) /\ Len(run.plan) \in Nat
  BY <1>1
<1>3. \A i \in 1 .. Len(run.plan) : run.plan[i] \in [path : Path, entry : Entry]
  BY <1>1, ElementIn
<1> QED
  BY <1>1, <1>2, <1>3

\* A folder is done: its set is complete, and the folders still to come fit as
\* they did, for they have other names.
LEMMA FolderDoneNext == ASSUME PagesInv, FolderDone PROVE PagesInv'
<1> USE DEF PagesInv
<1>1. /\ Running /\ run.done < Len(run.plan) /\ run # NoRun
      /\ disk' = [disk EXCEPT ![Current.entry] = SetOfRun(1 .. MaxParts, MaxParts)]
      /\ ConfigInv'
      /\ UNCHANGED <<readable, drive, yubikeys, now, log>>
  BY ConfigKept DEF FolderDone, envVars, Running, NoRun
<1>2. PICK w \in Entry : /\ w = Current.entry /\ run.done + 1 \in DOMAIN run.plan
                         /\ w = run.plan[run.done + 1].entry /\ Planned(w)
  BY <1>1, CurrentPlanned
<1>3. PICK files \in SetFiles :
        /\ files = SetOfRun(1 .. MaxParts, MaxParts)
        /\ files.created = now /\ files.run = run.id /\ files.key = run.key
        /\ files.final = 1 .. MaxParts /\ files.parts = MaxParts
  BY <1>1, WrittenFiles, CatalogAssumption
<1>4. PICK skipped \in BOOLEAN :
        /\ unread' = IF skipped THEN unread \cup {w} ELSE unread \ {w}
        /\ run' = [run EXCEPT
                     !.done = @ + 1,
                     !.warnings = IF skipped THEN @ + 1 ELSE @,
                     !.held = IF skipped THEN @ \cup {w.dir} ELSE @]
  BY <1>2 DEF FolderDone
<1>5. DirectoryType' /\ ChainKeys' /\ RunTimes'
  BY <1>1, <1>3, WriteFits
<1>6. /\ disk'[w] = files
      /\ \A e \in Entry : e # w => disk'[e] = disk[e]
  BY <1>1, <1>2, <1>3 DEF DirectoryType
<1>7. /\ run.plan \in Seq([path : Path, entry : Entry]) /\ run.done \in 0 .. Len(run.plan)
      /\ run.warnings \in Nat
      /\ DOMAIN run = {"stage", "id", "key", "plan", "done", "held", "warnings", "older", "result"}
  BY <1>1 DEF RunType
<1>8. /\ run'.stage = run.stage /\ run'.id = run.id /\ run'.key = run.key /\ run'.plan = run.plan
      /\ run'.older = run.older /\ run'.done = run.done + 1
      /\ run'.warnings = (IF skipped THEN run.warnings + 1 ELSE run.warnings)
      /\ DOMAIN run' = DOMAIN run
  BY <1>4, <1>7
<1>9. run.done + 1 \in 0 .. Len(run.plan) /\ run'.warnings \in Nat
  BY <1>1, <1>7, <1>8
<1>10. RunType'
  BY <1>1, <1>7, <1>8, <1>9 DEF RunType
<1>11. FinishedInv'
  BY <1>1, <1>8 DEF FinishedInv, Running
<1>12. Present(w)' /\ Complete(w)' /\ Created(w)' = now
  <2>1. MaxParts \in 1 .. MaxParts /\ \A k \in 1 .. MaxParts : \A j \in 1 .. k : j \in 1 .. MaxParts
    BY CatalogAssumption
  <2>2. disk'[w].final = 1 .. MaxParts /\ disk'[w].parts = MaxParts /\ disk'[w].created = now
    BY <1>3, <1>6
  <2> QED
    BY <2>1, <2>2 DEF Present, Complete, HasGap, HasTrailer, Created
<1>13. \A p \in Entry : p # w /\ Complete(p) => Complete(p)' /\ Created(p)' = Created(p)
  BY <1>6 DEF Complete, Present, HasGap, HasTrailer, Created
<1>14. ASSUME NEW i \in DOMAIN run'.plan PROVE Planned(run.plan[i].entry)'
  <2>1. PICK p \in Entry : p = run.plan[i].entry /\ Planned(p) /\ (p.dir = w.dir => p = w)
    BY <1>1, <1>2, <1>8, PlanEntries DEF RunningInv
  <2>2. \A e \in Entry : e.dir = p.dir /\ e # p => disk'[e] = disk[e]
    BY <1>6, <2>1
  <2>3. Planned(p)'
    BY <1>8, <2>1, <2>2, PlannedKept
  <2> QED
    BY <1>8, <2>1, <2>3
<1>15. ASSUME NEW i \in 1 .. run'.done PROVE Written(run.plan[i].entry)'
  <2>1. i \in DOMAIN run.plan
    BY <1>1, <1>7, <1>8, <1>9, PlanEntries
  <2>2. PICK p \in Entry : p = run.plan[i].entry
    BY <1>1, <2>1, PlanEntries
  <2>3. Written(p)'
    <3>1. CASE p = w
      <4>1. run'.warnings = 0 => w \notin unread'
        BY <1>4, <1>7, <1>8
      <4> QED
        BY <1>1, <1>12, <3>1, <4>1 DEF Written
    <3>2. CASE p # w
      <4>1. i # run.done + 1
        BY <1>2, <2>2, <3>2
      <4>2. i \in 1 .. run.done
        BY <1>7, <1>8, <4>1
      <4>3. Written(p)
        BY <1>1, <2>2, <4>2 DEF RunningInv
      <4>4. Complete(p)' /\ Created(p)' = now
        BY <1>13, <3>2, <4>3 DEF Written
      <4>5. run'.warnings = 0 => p \notin unread'
        BY <1>4, <1>7, <1>8, <3>2, <4>3 DEF Written
      <4> QED
        BY <1>1, <4>4, <4>5 DEF Written
    <3> QED
      BY <3>1, <3>2
  <2> QED
    BY <1>8, <2>2, <2>3
<1>16. ASSUME NEW e \in Entry, Present(e)'
       PROVE  /\ Created(e)' = now' => disk'[e].run = run'.id
              /\ e.chain = run'.id => disk'[e].key = run'.key
  <2>1. CASE e = w
    BY <1>3, <1>6, <1>8, <2>1
  <2>2. CASE e # w
    <3>1. disk'[e] = disk[e] /\ Present(e)
      BY <1>6, <1>16, <2>2 DEF Present
    <3> QED
      BY <1>1, <1>8, <3>1 DEF RunningInv, Created
  <2> QED
    BY <2>1, <2>2
<1>17. ASSUME NEW e \in run'.older PROVE e \in Entry /\ Present(e)'
  <2>1. PICK f \in Entry : f = e /\ Present(f)
    BY <1>1, <1>8, <1>17 DEF RunningInv
  <2>2. Present(f)'
    BY <1>6, <1>12, <2>1 DEF Present
  <2> QED
    BY <2>1, <2>2
<1>18. /\ \A r \in RunId : log'[r].result # None => log'[r].time < now'
       /\ now' >= 1
       /\ \A i, j \in DOMAIN run'.plan :
            run'.plan[i].entry.dir = run'.plan[j].entry.dir => run'.plan[i].entry = run'.plan[j].entry
  BY <1>1, <1>8 DEF RunningInv
<1>19. RunningInv'
  BY <1>14, <1>15, <1>16, <1>17, <1>18 DEF RunningInv
<1> QED
  BY <1>1, <1>5, <1>10, <1>11, <1>19

\* A base cannot be loaded: the folder starts a chain of its own, and nothing in
\* the directory changes.
LEMMA BaseUnusableNext == ASSUME PagesInv, BaseUnusable PROVE PagesInv'
<1> USE DEF PagesInv
<1>1. /\ Running /\ run.done < Len(run.plan) /\ run # NoRun /\ IsDiff(Current.entry)
      /\ \A i \in 1 .. run.done : run.plan[i].entry # Current.entry
      /\ ConfigInv'
      /\ UNCHANGED <<readable, drive, yubikeys, now, disk, log, unread>>
  BY ConfigKept DEF BaseUnusable, dirVars, Running, NoRun
<1>2. PICK w \in Entry : w = Current.entry
  BY <1>1, CurrentPlanned
<1>3. PICK full : full = [dir |-> w.dir, chain |-> run.id, n |-> 0]
  OBVIOUS
<1>4. full \in Entry /\ full.dir = w.dir /\ full.chain = run.id /\ ~IsDiff(full)
  BY <1>1, <1>3, CatalogAssumption DEF RunType, Entry, IsDiff
<1>5. PICK plan :
        /\ plan = [i \in DOMAIN run.plan |->
                     IF run.plan[i].entry = w THEN [run.plan[i] EXCEPT !.entry = full]
                                              ELSE run.plan[i]]
        /\ run' = [run EXCEPT !.plan = plan, !.warnings = @ + 1]
  BY <1>2, <1>3 DEF BaseUnusable
<1>6. /\ run.plan \in Seq([path : Path, entry : Entry]) /\ run.done \in 0 .. Len(run.plan)
      /\ run.warnings \in Nat
      /\ DOMAIN run = {"stage", "id", "key", "plan", "done", "held", "warnings", "older", "result"}
  BY <1>1 DEF RunType
<1>7. /\ run'.stage = run.stage /\ run'.id = run.id /\ run'.key = run.key /\ run'.plan = plan
      /\ run'.older = run.older /\ run'.done = run.done /\ run'.warnings = run.warnings + 1
      /\ DOMAIN run' = DOMAIN run
  BY <1>5, <1>6
<1>8. \A i \in DOMAIN run.plan : run.plan[i] \in [path : Path, entry : Entry]
  BY <1>1, <1>6, PlanEntries, ElementIn
<1>9. /\ DOMAIN plan = DOMAIN run.plan
      /\ \A i \in DOMAIN plan : /\ plan[i] \in [path : Path, entry : Entry]
                                /\ plan[i].entry = IF run.plan[i].entry = w THEN full
                                                   ELSE run.plan[i].entry
  BY <1>4, <1>5, <1>8
<1>10. plan \in Seq([path : Path, entry : Entry]) /\ Len(plan) = Len(run.plan)
  <2>1. DOMAIN plan = 1 .. Len(run.plan) /\ Len(run.plan) \in Nat
    BY <1>1, <1>9, PlanEntries
  <2>2. plan \in [1 .. Len(run.plan) -> [path : Path, entry : Entry]]
    BY <1>5, <1>9, <2>1
  <2>3. plan \in Seq([path : Path, entry : Entry])
    BY <2>1, <2>2, SequenceOf
  <2>4. DOMAIN plan = 1 .. Len(plan) /\ Len(plan) \in Nat
    BY <2>3
  <2> QED
    BY <1>9, <2>1, <2>3, <2>4
<1>11. RunType'
  BY <1>1, <1>6, <1>7, <1>10 DEF RunType
<1>12. FinishedInv'
  BY <1>1, <1>7 DEF FinishedInv, Running
<1>13. DirectoryType' /\ ChainKeys' /\ RunTimes'
  BY <1>1 DEF DirectoryType, ChainKeys, RunTimes, Present, Created
<1>14. /\ \A e \in Entry : Present(e)' = Present(e) /\ Created(e)' = Created(e)
       /\ \A e \in Entry : Complete(e)' = Complete(e)
  BY <1>1 DEF Present, Created, Complete, HasGap, HasTrailer
<1>15. ASSUME NEW i \in DOMAIN plan PROVE Planned(plan[i].entry)'
  <2>1. PICK p \in Entry : p = run.plan[i].entry /\ Planned(p)
    BY <1>1, <1>9, PlanEntries DEF RunningInv
  <2>2. Planned(full)'
    BY <1>4, <1>7 DEF Planned
  <2>3. Planned(p)'
    BY <1>1, <1>7, <2>1, PlannedKept
  <2> QED
    BY <1>9, <2>1, <2>2, <2>3
<1>16. ASSUME NEW i \in 1 .. run.done PROVE Written(plan[i].entry)'
  <2>1. i \in DOMAIN run.plan
    BY <1>1, PlanEntries
  <2>2. PICK p \in Entry : p = run.plan[i].entry /\ Written(p) /\ p # w
    BY <1>1, <1>2, <2>1, PlanEntries DEF RunningInv
  <2>3. Written(p)'
    BY <1>1, <1>6, <1>7, <1>14, <2>2 DEF Written
  <2> QED
    BY <1>9, <2>1, <2>2, <2>3
<1>17. ASSUME NEW i \in DOMAIN plan, NEW j \in DOMAIN plan, plan[i].entry.dir = plan[j].entry.dir
       PROVE  plan[i].entry = plan[j].entry
  <2>1. PICK p : p = run.plan[i].entry
    OBVIOUS
  <2>2. PICK q : q = run.plan[j].entry
    OBVIOUS
  <2>3. p.dir = q.dir
    BY <1>4, <1>9, <1>17, <2>1, <2>2
  <2>4. p = q
    BY <1>1, <1>9, <2>1, <2>2, <2>3 DEF RunningInv
  <2> QED
    BY <1>9, <2>1, <2>2, <2>4
<1>18. RunningInv'
  BY <1>1, <1>7, <1>14, <1>15, <1>16, <1>17 DEF RunningInv
<1> QED
  BY <1>1, <1>11, <1>12, <1>13, <1>18

-----------------------------------------------------------------------------
(* A run ends.                                                             *)

\* What retention removes of a name has that name.
LEMMA CandidateDir ==
  ASSUME NEW d, NEW r \in RetentionCandidates(d)
  PROVE  r.entry \in Entry /\ r.entry.dir = d
<1>1. CASE r \in OldChainRemovals(d)
  <2>1. PICK e \in CompleteSets : r = Removal(e, 1, Created(FullOf(e))) /\ FullOf(e) \in OldFulls(d)
    BY <1>1 DEF OldChainRemovals
  <2> QED
    BY <2>1 DEF Removal, CompleteSets, OldFulls, Fulls, FullOf
<1>2. CASE r \in SurplusRemovals(d)
  <2>1. PICK b \in Fulls(d) : \E e \in Surplus(b) : r = Removal(e, 2, Created(b))
    BY <1>2 DEF SurplusRemovals
  <2>2. PICK e \in Surplus(b) : r = Removal(e, 2, Created(b))
    BY <2>1
  <2> QED
    BY <2>1, <2>2 DEF Removal, Surplus, DiffsOf, Fulls, FullOf
<1>3. CASE r \in IncompleteRemovals(d)
  <2>1. PICK e \in Entry : r = Removal(e, 3, 0) /\ e.dir = d
    BY <1>3 DEF IncompleteRemovals
  <2> QED
    BY <2>1 DEF Removal
<1> QED
  BY <1>1, <1>2, <1>3 DEF RetentionCandidates

\* Retention keeps the set a run has written: it belongs to the newest chain and
\* is the newest differential of it.
LEMMA WrittenKept ==
  ASSUME DirectoryType, RunTimes, RunningInv, Running,
         NEW e \in Entry, Planned(e), Written(e), NEW d, NEW r \in RetentionCandidates(d)
  PROVE  r.entry # e
<1> SUFFICES ASSUME r.entry = e PROVE FALSE
  OBVIOUS
<1>1. e.dir = d
  BY CandidateDir
<1>2. Complete(e) /\ Created(e) = now
  BY DEF Written
<1>3. \A b \in Fulls(d) : FullOf(e) \in Fulls(d) => ~ (Created(b) > Created(FullOf(e)))
  <2> SUFFICES ASSUME NEW b \in Fulls(d), FullOf(e) \in Fulls(d), Created(b) > Created(FullOf(e))
               PROVE  FALSE
    OBVIOUS
  <2>1. b \in Entry /\ Complete(b) /\ Present(b) /\ FullOf(e) \in Entry
    BY PresentKinds DEF Fulls, CompleteSets
  <2>2. Created(b) \in Int /\ Created(FullOf(e)) \in Int /\ now \in Int
    BY <2>1 DEF DirectoryType, SetFiles, Created
  <2>3. CASE IsDiff(e)
    <3>1. Created(b) <= Created(FullOf(e))
      BY <1>1, <2>3 DEF Planned
    <3> QED
      BY <2>2, <3>1
  <2>4. CASE ~IsDiff(e)
    <3>1. FullOf(e) = e
      BY <2>4, CatalogAssumption DEF IsDiff, FullOf, Entry
    <3>2. Created(b) <= now
      BY <2>1 DEF RunTimes
    <3> QED
      BY <1>2, <2>2, <3>1, <3>2
  <2> QED
    BY <2>3, <2>4
<1>4. CASE r \in OldChainRemovals(d)
  <2>1. Keep # 0 /\ FullOf(e) \in OldFulls(d)
    BY <1>4 DEF OldChainRemovals, Removal
  <2>2. /\ FullOf(e) \in Fulls(d)
        /\ Cardinality({c \in Fulls(d) : Created(c) > Created(FullOf(e))}) >= Keep
    BY <2>1 DEF OldFulls
  <2>3. {c \in Fulls(d) : Created(c) > Created(FullOf(e))} = {}
    BY <1>3, <2>2
  <2> QED
    BY <2>1, <2>2, <2>3, FS_EmptySet, CatalogAssumption
<1>5. CASE r \in SurplusRemovals(d)
  <2>1. KeepDiffs # 0
    BY <1>5 DEF SurplusRemovals
  <2>2. PICK b \in Fulls(d) : \E f \in Surplus(b) : r = Removal(f, 2, Created(b))
    BY <1>5 DEF SurplusRemovals
  <2>3. e \in Surplus(b)
    BY <2>2 DEF Removal
  <2> DEFINE diffs == DiffsOf(b) \cap CompleteSets
             newer == {f \in diffs : f.n > e.n}
  <2>4. e \in diffs /\ Cardinality(newer) >= KeepDiffs
    BY <2>3 DEF Surplus
  <2>5. IsDiff(e) /\ FullOf(e) = b
    BY <2>4 DEF DiffsOf
  <2>6. newer = {}
    <3> SUFFICES ASSUME NEW f \in diffs, f.n > e.n PROVE FALSE
      OBVIOUS
    <3>1. f \in Entry /\ f.n <= e.n
      BY <2>5 DEF Planned, DiffsOf
    <3> QED
      BY <3>1 DEF Entry
  <2> HIDE DEF newer
  <2> QED
    BY <2>1, <2>4, <2>6, FS_EmptySet, CatalogAssumption
<1>6. CASE r \in IncompleteRemovals(d)
  <2>1. Incomplete(e)
    BY <1>6 DEF IncompleteRemovals, Removal
  <2> QED
    BY <1>2, <2>1 DEF Incomplete, Complete
<1> QED
  BY <1>4, <1>5, <1>6 DEF RetentionCandidates

\* A failed or cancelled run removes nothing; its log has its time.
LEMMA RunStopsNext == ASSUME PagesInv, RunStops PROVE PagesInv'
<1> USE DEF PagesInv
<1>1. /\ Running /\ run # NoRun /\ ConfigInv'
      /\ UNCHANGED <<readable, drive, yubikeys, now, disk, unread>>
  BY ConfigKept DEF RunStops, envVars, Running, NoRun
<1>2. PICK result \in {"failed", "cancelled"} :
        /\ run' = [run EXCEPT !.stage = "finished", !.result = result]
        /\ log' = [log EXCEPT ![run.id] = [result |-> result, time |-> now]]
  BY DEF RunStops, Finished
<1>3. /\ DOMAIN run = {"stage", "id", "key", "plan", "done", "held", "warnings", "older", "result"}
      /\ run.id \in RunId
  BY <1>1 DEF RunType
<1>4. /\ run'.stage = "finished" /\ run'.id = run.id /\ run'.key = run.key /\ run'.plan = run.plan
      /\ run'.older = run.older /\ run'.done = run.done /\ run'.warnings = run.warnings
      /\ run'.result = result /\ DOMAIN run' = DOMAIN run
  BY <1>2, <1>3
<1>5. RunType'
  BY <1>1, <1>3, <1>4 DEF RunType
<1>6. RunningInv'
  BY <1>4 DEF RunningInv, Running
<1>7. \A e \in Entry : Present(e)' = Present(e) /\ Created(e)' = Created(e)
  BY <1>1 DEF Present, Created
<1>8. \A e \in run.older : Present(e)'
  BY <1>1, <1>7 DEF RunningInv
<1>9. FinishedInv'
  BY <1>4, <1>8 DEF FinishedInv, Green
<1>10. /\ log' \in [RunId -> Facts]
       /\ log'[run.id] = [result |-> result, time |-> now]
       /\ \A r \in RunId : r # run.id => log'[r] = log[r]
  BY <1>2, <1>3 DEF DirectoryType, Facts, Results
<1>11. DirectoryType'
  BY <1>1, <1>10 DEF DirectoryType
<1>12. ChainKeys'
  BY <1>1 DEF ChainKeys, Present
<1>13. ASSUME NEW r \in RunId, log'[r].result # None
       PROVE  /\ log'[r].time \in 1 .. now'
              /\ \A e \in Entry : Present(e)' /\ Created(e)' = log'[r].time => disk'[e].run = r
  <2>1. CASE r = run.id
    <3>1. now \in 1 .. now
      BY <1>1 DEF RunningInv, DirectoryType
    <3> QED
      BY <1>1, <1>7, <1>10, <2>1, <3>1 DEF RunningInv
  <2>2. CASE r # run.id
    BY <1>1, <1>7, <1>10, <1>13, <2>2 DEF RunTimes
  <2> QED
    BY <2>1, <2>2
<1>14. RunTimes'
  BY <1>1, <1>7, <1>13 DEF RunTimes
<1> QED
  BY <1>1, <1>5, <1>6, <1>9, <1>11, <1>12, <1>14

\* The end of a run that wrote every folder: green means that no set failed, that
\* none lacks files, and that retention removed what it had to and nothing else.
LEMMA RunEndsNext == ASSUME PagesInv, RunEnds PROVE PagesInv'
<1> USE DEF PagesInv
<1> DEFINE names == {run.plan[i].entry.dir : i \in DOMAIN run.plan}
           fails(skipped) == ~skipped /\ drive = "sticky" /\ Removed # {}
           count(bad, skipped) ==
             run.warnings + Cardinality(bad) + (IF fails(skipped) THEN 1 ELSE 0)
           fact(bad, skipped) ==
             [result |-> IF count(bad, skipped) = 0 THEN "ok" ELSE "warnings", time |-> now]
<1>1. /\ Running /\ run # NoRun /\ run.done = Len(run.plan) /\ ConfigInv'
      /\ UNCHANGED <<readable, drive, yubikeys, now, unread>>
  BY ConfigKept DEF RunEnds, Running, NoRun
<1>2a. PICK bad \in {{}} \cup {{run.plan[i].entry} : i \in DOMAIN run.plan} :
         LET skipped == bad # {} \/ RetentionRefused(names)
         IN /\ disk' = IF skipped \/ fails(skipped) THEN disk
                       ELSE [e \in Entry |-> IF e \in Removed THEN Nothing ELSE disk[e]]
            /\ run' = [run EXCEPT !.stage = "finished", !.result = "ok",
                                  !.warnings = count(bad, skipped)]
            /\ log' = [r \in RunId |-> IF r = run.id THEN fact(bad, skipped)
                                       ELSE IF skipped \/ drive = "sticky" \/ r \in UsedIds'
                                       THEN log[r] ELSE NoFact]
  BY Zenon DEF RunEnds
<1>2b. PICK skipped \in BOOLEAN : skipped = (bad # {} \/ RetentionRefused(names))
  BY DEF RetentionRefused
<1> HIDE DEF fails, count, fact, names
<1>2. /\ disk' = IF skipped \/ fails(skipped) THEN disk
                 ELSE [e \in Entry |-> IF e \in Removed THEN Nothing ELSE disk[e]]
      /\ run' = [run EXCEPT !.stage = "finished", !.result = "ok",
                            !.warnings = count(bad, skipped)]
      /\ log' = [r \in RunId |-> IF r = run.id THEN fact(bad, skipped)
                                 ELSE IF skipped \/ drive = "sticky" \/ r \in UsedIds'
                                 THEN log[r] ELSE NoFact]
  BY <1>2a, <1>2b, Zenon
<1> USE DEF fails, count, fact, names
<1> DEFINE warnings == count(bad, skipped)
<1>3. /\ DOMAIN run = {"stage", "id", "key", "plan", "done", "held", "warnings", "older", "result"}
      /\ run.id \in RunId /\ run.warnings \in Nat
  BY <1>1 DEF RunType
<1>4. /\ Cardinality(bad) \in Nat /\ (Cardinality(bad) = 0 => bad = {})
  <2>1. bad = {} \/ \E x : bad = {x}
    BY <1>2a
  <2>2. ASSUME NEW x, bad = {x} PROVE Cardinality(bad) = 1
    BY <2>2, FS_Singleton
  <2>3. bad = {} => Cardinality(bad) = 0
    BY FS_EmptySet
  <2>4. bad # {} => Cardinality(bad) = 1
    BY <2>1, <2>2
  <2> QED
    BY <2>3, <2>4
<1>5. warnings \in Nat /\ (warnings = 0 => run.warnings = 0 /\ bad = {} /\ ~fails(skipped))
  BY <1>3, <1>4
<1> HIDE DEF fails
<1>6. /\ run'.stage = "finished" /\ run'.id = run.id /\ run'.key = run.key /\ run'.plan = run.plan
      /\ run'.older = run.older /\ run'.done = run.done /\ run'.held = run.held
      /\ run'.warnings = warnings /\ run'.result = "ok" /\ DOMAIN run' = DOMAIN run
  BY <1>2, <1>3
<1>7. /\ log'[run.id].time = now
      /\ log' \in [RunId -> Facts]
      /\ \A r \in RunId : r # run.id => log'[r] \in {log[r], NoFact}
  <2>1. fact(bad, skipped) \in Facts /\ NoFact \in Facts
    BY CatalogAssumption DEF Facts, Results, NoFact, DirectoryType
  <2>2. \A r \in RunId : log[r] \in Facts
    BY DEF DirectoryType
  <2> HIDE DEF fact
  <2>3. log'[run.id] = fact(bad, skipped)
    BY <1>2, <1>3
  <2>4. fact(bad, skipped).time = now
    BY DEF fact
  <2>5. \A r \in RunId : r # run.id => log'[r] \in {log[r], NoFact}
    BY <1>2
  <2>6. log' = [r \in RunId |-> log'[r]]
    BY <1>2
  <2>7. \A r \in RunId : log'[r] \in Facts
    BY <1>3, <2>1, <2>2, <2>3, <2>5
  <2> QED
    BY <2>3, <2>4, <2>5, <2>6, <2>7
<1> HIDE DEF count, fact
<1>8. /\ disk' \in [Entry -> SetFiles]
      /\ \A e \in Entry : disk'[e] = disk[e] \/ (e \in Removed /\ disk'[e] = Nothing)
  BY <1>2, NothingType DEF DirectoryType
<1>9. \A e \in Entry : Present(e)' => disk'[e] = disk[e] /\ Present(e)
  BY <1>8 DEF Present, Nothing
<1>10. DirectoryType'
  BY <1>1, <1>7, <1>8 DEF DirectoryType
<1>11. ChainKeys'
  BY <1>9, KeysKept
<1>12. ASSUME NEW r \in RunId, log'[r].result # None
       PROVE  /\ log'[r].time \in 1 .. now'
              /\ \A e \in Entry : Present(e)' /\ Created(e)' = log'[r].time => disk'[e].run = r
  <2>1. CASE r = run.id
    <3>1. now \in 1 .. now
      BY <1>1 DEF RunningInv, DirectoryType
    <3> QED
      BY <1>1, <1>7, <1>9, <2>1, <3>1 DEF RunningInv, Created
  <2>2. CASE r # run.id
    <3>1. log'[r] = log[r]
      BY <1>7, <1>12, <2>2 DEF NoFact
    <3> QED
      BY <1>1, <1>9, <1>12, <3>1 DEF RunTimes, Created
  <2> QED
    BY <2>1, <2>2
<1>13. RunTimes'
  BY <1>1, <1>9, <1>12 DEF RunTimes, Created
<1>14. RunType'
  BY <1>1, <1>3, <1>5, <1>6 DEF RunType
<1>15. RunningInv'
  BY <1>6 DEF RunningInv, Running
<1>16. ASSUME NEW i \in DOMAIN run.plan, run.warnings = 0
       PROVE  Complete(run.plan[i].entry)' /\ (run.plan[i].entry \notin unread)'
  <2>1. i \in 1 .. run.done
    BY <1>1, PlanEntries
  <2>2. PICK p \in Entry : p = run.plan[i].entry /\ Planned(p) /\ Written(p)
    BY <1>1, <2>1, PlanEntries DEF RunningInv
  <2>3. p \notin Removed
    <3> SUFFICES ASSUME p \in Removed PROVE FALSE
      OBVIOUS
    <3>1. PICK d \in names : \E r \in RetentionCandidates(d) : r.entry = p
      BY DEF Removed
    <3> QED
      BY <1>1, <2>2, <3>1, WrittenKept
  <2>4. disk'[p] = disk[p]
    BY <1>8, <2>3
  <2>5. Complete(p)' /\ p \notin unread'
    BY <1>1, <1>16, <2>2, <2>4 DEF Written, Complete, Present, HasGap, HasTrailer
  <2> QED
    BY <1>6, <2>2, <2>5
<1>17. ASSUME NEW d \in run.held, NEW e \in run.older, e.dir = d PROVE Present(e)'
  <2>1. PICK f \in Entry : f = e /\ Present(f)
    BY <1>1 DEF RunningInv
  <2>2. f \notin Removed
    <3> SUFFICES ASSUME f \in Removed PROVE FALSE
      OBVIOUS
    <3>1. PICK c \in names \ run.held : \E r \in RetentionCandidates(c) : r.entry = f
      BY DEF Removed
    <3> QED
      BY <1>17, <2>1, <3>1, CandidateDir
  <2>3. Present(f)'
    BY <1>8, <2>1, <2>2 DEF Present
  <2> QED
    BY <2>1, <2>3
<1>18. FinishedInv'
  <2>1. NoneRemoved' = FALSE
    BY <1>6 DEF NoneRemoved
  <2>2. Green' => run.warnings = 0
    BY <1>5, <1>6 DEF Green
  <2>3. Green' => \A i \in DOMAIN run'.plan : /\ Complete(run.plan[i].entry)'
                                              /\ (run.plan[i].entry \notin unread)'
    BY <1>6, <1>16, <2>2
  <2>4. \A d \in run'.held : \A e \in run'.older : e.dir = d => Present(e)'
    BY <1>6, <1>17
  <2> QED
    BY <2>1, <2>3, <2>4 DEF FinishedInv
<1> QED
  BY <1>1, <1>10, <1>11, <1>13, <1>14, <1>15, <1>18

-----------------------------------------------------------------------------
(* A run begins.                                                           *)

\* The k-th number of a finite set of them.
LEMMA NthExists ==
  ASSUME NEW n \in Nat, NEW S \in SUBSET (1 .. n), NEW k \in 1 .. Cardinality(S)
  PROVE  \E i \in S : Cardinality({j \in S : j < i}) = k - 1
<1> DEFINE Below(m) == {j \in S : j < m}
           T == {m \in Nat : Cardinality(Below(m)) >= k}
<1>1. IsFiniteSet(S) /\ Cardinality(S) \in Nat
  <2>1. IsFiniteSet(1 .. n)
    BY FS_Interval
  <2>2. IsFiniteSet(S)
    BY <2>1, FS_Subset
  <2> QED
    BY <2>2, FS_CardinalityType
<1>0. \A j \in S : j \in 1 .. n
  OBVIOUS
<1>2. \A m \in Nat : IsFiniteSet(Below(m)) /\ Cardinality(Below(m)) \in Nat
  BY <1>1, FS_Subset, FS_CardinalityType
<1>3. n + 1 \in T
  <2>0. \A j \in S : j < n + 1
    BY <1>0
  <2>1. Below(n + 1) = S
    BY <2>0, Zenon
  <2> HIDE DEF Below
  <2> QED
    BY <1>1, <2>1
<1>4. PICK m \in T : \A l \in T : m <= l
  <2>1. T \in SUBSET Nat /\ T # {}
    BY <1>3
  <2> QED
    BY <2>1, LeastExists
<1>5. m # 0
  <2>0. \A j \in S : ~ (j < 0)
    BY <1>0
  <2>1. Below(0) = {}
    BY <2>0, Zenon
  <2> HIDE DEF Below
  <2> QED
    BY <1>4, <2>1, FS_EmptySet
<1>6. m - 1 \in Nat /\ ~ (Cardinality(Below(m - 1)) >= k)
  <2>1. m - 1 \in Nat
    BY <1>4, <1>5
  <2> HIDE DEF Below
  <2> QED
    BY <1>4, <2>1
<1>7. CASE m - 1 \in S
  <2>0. /\ \A j \in S : j < m <=> j < m - 1 \/ j = m - 1
        /\ ~ (m - 1 < m - 1)
    BY <1>0, <1>4, <1>6
  <2>1. Below(m) = Below(m - 1) \cup {m - 1} /\ m - 1 \notin Below(m - 1)
    BY <1>7, <2>0, Zenon
  <2> HIDE DEF Below
  <2>2. Cardinality(Below(m)) = Cardinality(Below(m - 1)) + 1
    BY <1>2, <1>6, <2>1, FS_AddElement
  <2>3. Cardinality(Below(m - 1)) = k - 1
    BY <1>2, <1>4, <1>6, <2>2
  <2> QED
    BY <1>7, <2>3 DEF Below
<1>8. CASE m - 1 \notin S
  <2>0. \A j \in S : j < m <=> j < m - 1 \/ j = m - 1
    BY <1>0, <1>4, <1>6
  <2>1. Below(m) = Below(m - 1)
    BY <1>8, <2>0, Zenon
  <2> HIDE DEF Below
  <2> QED
    BY <1>4, <1>6, <2>1
<1> QED
  BY <1>7, <1>8

\* The highest number of a chain.
LEMMA MaxNumberExists ==
  ASSUME NEW b
  PROVE  MaxNumber(b) \in 0 .. MaxDiffNumber /\ \A e \in DiffsOf(b) : e.n <= MaxNumber(b)
<1> DEFINE T == {MaxDiffNumber} \cup {MaxDiffNumber - e.n : e \in DiffsOf(b)}
<1>1. MaxDiffNumber \in Nat /\ \A e \in DiffsOf(b) : e.n \in 0 .. MaxDiffNumber
  BY CatalogAssumption DEF DiffsOf, Entry
<1>2. T \in SUBSET Nat /\ T # {}
  BY <1>1
<1>3. PICK t \in T : \A u \in T : t <= u
  BY <1>2, LeastExists
<1> DEFINE m == MaxDiffNumber - t
<1>4. t <= MaxDiffNumber /\ t \in Nat
  BY <1>2, <1>3
<1>5. m \in 0 .. MaxDiffNumber
  BY <1>1, <1>4
<1>6. \A e \in DiffsOf(b) : e.n <= m
  BY <1>1, <1>3, <1>4
<1>7. m = 0 \/ \E e \in DiffsOf(b) : e.n = m
  BY <1>1, <1>3
<1> HIDE DEF m
<1> DEFINE Highest(l) == /\ \A e \in DiffsOf(b) : e.n <= l
                         /\ l = 0 \/ \E e \in DiffsOf(b) : e.n = l
<1>8. Highest(m)
  BY <1>6, <1>7
<1>9. MaxNumber(b) = CHOOSE l \in 0 .. MaxDiffNumber : Highest(l)
  BY Zenon DEF MaxNumber
<1> HIDE DEF Highest
<1>10. MaxNumber(b) \in 0 .. MaxDiffNumber /\ Highest(MaxNumber(b))
  BY <1>5, <1>8, <1>9
<1> QED
  BY <1>10 DEF Highest

\* What a new run plans for a name fits the directory.
Fits(e, id, ks) ==
  IF IsDiff(e)
  THEN /\ ks # None /\ FullOf(e) \in Fulls(e.dir) /\ disk[FullOf(e)].key = ks
       /\ \A b \in Fulls(e.dir) : Created(b) <= Created(FullOf(e))
       /\ \A f \in DiffsOf(FullOf(e)) : f.n <= e.n
  ELSE e.chain = id

\* planFolder: a full backup starts a chain of its own; a differential continues the
\* newest chain of its name, under its keys and with the next number.
LEMMA PlannedFits ==
  ASSUME DirectoryType, NEW d \in Dir, NEW id \in RunId, NEW t, NEW ks
  PROVE  LET e == PlanFolder(d, id, t, ks, FALSE)
         IN e \in Entry /\ e.dir = d /\ Fits(e, id, ks)
<1> DEFINE full == [dir |-> d, chain |-> id, n |-> 0]
           base == NewestOf(Fulls(d))
           diff == [dir |-> d, chain |-> base.chain, n |-> MaxNumber(base) + 1]
<1>1. \/ PlanFolder(d, id, t, ks, FALSE) = full
      \/ /\ PlanFolder(d, id, t, ks, FALSE) = diff
         /\ ks # None /\ Fulls(d) # {} /\ disk[base].key = ks
         /\ ~ (MaxNumber(base) >= MaxDiffNumber)
  BY DEF PlanFolder
<1>2. full \in Entry /\ full.dir = d /\ Fits(full, id, ks)
  BY CatalogAssumption DEF Entry, Fits, IsDiff
<1>3. ASSUME ks # None, Fulls(d) # {}, disk[base].key = ks, ~ (MaxNumber(base) >= MaxDiffNumber)
      PROVE  diff \in Entry /\ diff.dir = d /\ Fits(diff, id, ks)
  <2>1. Fulls(d) \in SUBSET Entry
    BY DEF Fulls, CompleteSets
  <2>2. PICK b \in Fulls(d) : b = base /\ \A f \in Fulls(d) : Created(f) <= Created(b)
    BY <1>3, <2>1, NewestExists
  <2>3. PICK m \in 0 .. MaxDiffNumber : m = MaxNumber(base) /\ \A e \in DiffsOf(b) : e.n <= m
    BY <2>2, MaxNumberExists
  <2> HIDE DEF base
  <2>4. b \in Entry /\ b.dir = d /\ b.n = 0
    BY <2>1, <2>2, CatalogAssumption DEF Fulls, IsDiff, Entry
  <2>5. diff = [dir |-> d, chain |-> b.chain, n |-> m + 1] /\ m + 1 \in 1 .. MaxDiffNumber
    BY <1>3, <2>2, <2>3, CatalogAssumption
  <2>6. b.chain \in RunId /\ b = [dir |-> d, chain |-> b.chain, n |-> 0]
    BY <2>4 DEF Entry
  <2>7. diff \in Entry /\ diff.dir = d /\ IsDiff(diff) /\ FullOf(diff) = b /\ diff.n = m + 1
    BY <2>5, <2>6, CatalogAssumption DEF Entry, IsDiff, FullOf
  <2> HIDE DEF diff
  <2>8. \A f \in DiffsOf(b) : f.n <= diff.n
    BY <2>3, <2>7 DEF DiffsOf, Entry
  <2> QED
    BY <1>3, <2>2, <2>7, <2>8 DEF Fits
<1> QED
  BY <1>1, <1>2, <1>3

\* A folder that can be backed up has a backup name.
LEMMA NamedFolders ==
  ASSUME ConfigInv, NEW i \in Runnable(Folders)
  PROVE  Folders[i].name \in Dir /\ Folders[i].path \in Path
<1>1. cfg.sources \in Seq(Path)
  BY HealthAssumption DEF ConfigInv
<1>2. drive # "hung" /\ Folders = ResolveSources(cfg.sources, readable)
  BY DEF Folders, Runnable
<1>3. i \in DOMAIN cfg.sources
  BY <1>2 DEF Runnable, ResolveSources
<1>4. cfg.sources[i] \in Path
  BY <1>1, <1>3
<1>5. Folders[i].path = cfg.sources[i]
  BY <1>2, <1>3 DEF ResolveSources
<1>6. ~Folders[i].err /\ ~Folders[i].skip
  BY DEF Runnable
<1>7. cfg.sources[i] \in readable /\ ~IdenticalDuplicate(cfg.sources, readable, i)
  BY <1>2, <1>3, <1>6 DEF ResolveSources
<1>8. i \in Group(cfg.sources, readable, i)
  BY <1>3, <1>7 DEF Group
<1>9. Folders[i].name = AssignedName(cfg.sources, readable, i)
  BY <1>2, <1>3, <1>8 DEF ResolveSources
<1> QED
  BY <1>4, <1>5, <1>9, HealthAssumption DEF AssignedName

\* The folders are numbered.
LEMMA FoldersNumbered ==
  ASSUME ConfigInv
  PROVE  \E n \in Nat : DOMAIN Folders = 1 .. n
<1>1. cfg.sources \in Seq(Path)
  BY HealthAssumption DEF ConfigInv
<1>2. DOMAIN cfg.sources = 1 .. Len(cfg.sources) /\ Len(cfg.sources) \in Nat
  BY <1>1
<1>3. CASE drive = "hung"
  <2>1. DOMAIN Folders = 1 .. 0
    BY <1>3 DEF Folders
  <2> QED
    BY <2>1
<1>4. CASE drive # "hung"
  BY <1>2, <1>4 DEF Folders, ResolveSources
<1> QED
  BY <1>3, <1>4

\* The plan of a run: one entry for each folder, which is the one planned for its
\* name.
LEMMA PlanOfFolders ==
  ASSUME DirectoryType, ConfigInv, NEW id \in RunId, NEW ks
  PROVE  LET plan == PlanOf(Folders, id, ks)
         IN /\ plan \in Seq([path : Path, entry : Entry])
            /\ \A k \in DOMAIN plan : \E d \in Dir : plan[k].entry = PlanFolder(d, id, now + 1, ks, FALSE)
<1> DEFINE runnable == Runnable(Folders)
           nth(k) == CHOOSE i \in runnable : Cardinality({j \in runnable : j < i}) = k - 1
           plan == [k \in 1 .. Cardinality(runnable) |->
                      [path  |-> Folders[nth(k)].path,
                       entry |-> PlanFolder(Folders[nth(k)].name, id, now + 1, ks, FALSE)]]
<1>1. PlanOf(Folders, id, ks) = plan
  BY Zenon DEF PlanOf
<1>2. PICK n \in Nat : runnable \in SUBSET (1 .. n)
  BY FoldersNumbered DEF Runnable
<1>3. Cardinality(runnable) \in Nat
  <2>1. IsFiniteSet(1 .. n)
    BY FS_Interval
  <2>2. IsFiniteSet(runnable)
    BY <1>2, <2>1, FS_Subset
  <2> QED
    BY <2>2, FS_CardinalityType
<1>4. ASSUME NEW k \in 1 .. Cardinality(runnable) PROVE nth(k) \in runnable
  <2>1. \E i \in runnable : Cardinality({j \in runnable : j < i}) = k - 1
    BY <1>2, NthExists
  <2> QED
    BY <2>1
<1> HIDE DEF nth
<1>5. ASSUME NEW k \in 1 .. Cardinality(runnable)
      PROVE  /\ plan[k] \in [path : Path, entry : Entry]
             /\ \E d \in Dir : plan[k].entry = PlanFolder(d, id, now + 1, ks, FALSE)
  <2>1. Folders[nth(k)].name \in Dir /\ Folders[nth(k)].path \in Path
    BY <1>4, NamedFolders
  <2>2. PlanFolder(Folders[nth(k)].name, id, now + 1, ks, FALSE) \in Entry
    BY <2>1, PlannedFits
  <2> QED
    BY <2>1, <2>2
<1>6. plan \in [1 .. Cardinality(runnable) -> [path : Path, entry : Entry]]
  BY <1>5
<1>7. plan \in Seq([path : Path, entry : Entry]) /\ DOMAIN plan = 1 .. Cardinality(runnable)
  BY <1>3, <1>6, SequenceOf
<1> HIDE DEF plan
<1> QED
  BY <1>1, <1>5, <1>7

\* A new run: its ID and its time are new, its entries fit, and so do its keys.
LEMMA BackUpNext == ASSUME PagesInv, BackUp PROVE PagesInv'
<1> USE DEF PagesInv
<1>1. /\ now < MaxTime /\ now' = now + 1
      /\ drive' = IF drive = "new" THEN "ok" ELSE drive
      /\ disk' = [e \in Entry |-> [disk[e] EXCEPT !.temp = {}]]
      /\ UNCHANGED <<configVars, readable, yubikeys, log>>
  BY DEF BackUp
<1>2. PICK id \in {r \in RunId : log[r] = NoFact} \ UsedIds, ks \in Key :
        /\ ExistingKeys # None => ks = ExistingKeys
        /\ run' = [stage    |-> "running",
                   id       |-> id,
                   key      |-> ks,
                   plan     |-> PlanOf(Folders, id, ExistingKeys),
                   done     |-> 0,
                   held     |-> {},
                   warnings |-> Cardinality({i \in DOMAIN Folders : Folders[i].skip}),
                   older    |-> {e \in Entry : Present(e)},
                   result   |-> None]
  BY Zenon DEF BackUp
<1>3. ConfigInv'
  BY <1>1, ConfigKept
<1>4. PICK plan \in Seq([path : Path, entry : Entry]) :
        /\ plan = PlanOf(Folders, id, ExistingKeys)
        /\ \A k \in DOMAIN plan :
             \E d \in Dir : plan[k].entry = PlanFolder(d, id, now + 1, ExistingKeys, FALSE)
  BY PlanOfFolders
<1>5. PICK warnings \in Nat : warnings = Cardinality({i \in DOMAIN Folders : Folders[i].skip})
  <2>1. PICK n \in Nat : DOMAIN Folders = 1 .. n
    BY FoldersNumbered
  <2>2. IsFiniteSet(1 .. n)
    BY FS_Interval
  <2>3. IsFiniteSet({i \in DOMAIN Folders : Folders[i].skip})
    BY <2>1, <2>2, FS_Subset
  <2> QED
    BY <2>3, FS_CardinalityType
<1>6. run' = [stage |-> "running", id |-> id, key |-> ks, plan |-> plan, done |-> 0, held |-> {},
              warnings |-> warnings, older |-> {e \in Entry : Present(e)}, result |-> None]
  BY <1>2, <1>4, <1>5, Zenon
<1>7. /\ DOMAIN run' = {"stage", "id", "key", "plan", "done", "held", "warnings", "older", "result"}
      /\ run'.stage = "running" /\ run'.id = id /\ run'.key = ks /\ run'.plan = plan
      /\ run'.done = 0 /\ run'.warnings = warnings
      /\ run'.older = {e \in Entry : Present(e)}
  BY <1>6
<1>8. /\ disk' \in [Entry -> SetFiles]
      /\ \A e \in Entry : /\ disk'[e].final = disk[e].final
                          /\ disk'[e].parts = disk[e].parts
                          /\ disk'[e].created = disk[e].created
                          /\ disk'[e].run = disk[e].run
                          /\ disk'[e].key = disk[e].key
  BY <1>1 DEF DirectoryType, SetFiles
<1>9. now \in Nat /\ now' \in 1 .. MaxTime /\ now < now' /\ now <= now'
  BY <1>1, CatalogAssumption DEF DirectoryType
<1>10. DirectoryType'
  BY <1>1, <1>8, <1>9 DEF DirectoryType, Drive
<1>11. \A e \in Entry : /\ Present(e)' = Present(e)
                        /\ Complete(e)' = Complete(e)
                        /\ Created(e)' = Created(e)
  BY <1>8 DEF Present, Complete, HasGap, HasTrailer, Created
<1>12. ChainKeys'
  BY <1>8, <1>11, KeysKept
<1>13. RunTimes'
  BY <1>1, <1>8, <1>9, <1>10, <1>11, TimesKept
<1>14. RunType'
  <2>1. id \in RunId /\ 0 \in 0 .. Len(plan)
    OBVIOUS
  <2> QED
    BY <1>7, <2>1 DEF RunType
<1>15. FinishedInv'
  BY <1>7 DEF FinishedInv
<1>16. \A k \in DOMAIN plan : /\ plan[k].entry \in Entry
                              /\ Fits(plan[k].entry, id, ExistingKeys)
                              /\ plan[k].entry = PlanFolder(plan[k].entry.dir, id, now + 1, ExistingKeys, FALSE)
  <2> SUFFICES ASSUME NEW k \in DOMAIN plan
               PROVE  /\ plan[k].entry \in Entry
                      /\ Fits(plan[k].entry, id, ExistingKeys)
                      /\ plan[k].entry = PlanFolder(plan[k].entry.dir, id, now + 1, ExistingKeys, FALSE)
    OBVIOUS
  <2>1. PICK d \in Dir : plan[k].entry = PlanFolder(d, id, now + 1, ExistingKeys, FALSE)
    BY <1>4
  <2>2. /\ PlanFolder(d, id, now + 1, ExistingKeys, FALSE) \in Entry
        /\ PlanFolder(d, id, now + 1, ExistingKeys, FALSE).dir = d
        /\ Fits(PlanFolder(d, id, now + 1, ExistingKeys, FALSE), id, ExistingKeys)
    BY PlannedFits
  <2> QED
    BY <2>1, <2>2, Zenon
<1>17. ASSUME NEW i \in DOMAIN plan PROVE Planned(run.plan[i].entry)'
  <2>1. PICK p \in Entry : p = plan[i].entry /\ Fits(p, id, ExistingKeys)
    BY <1>16
  <2>2. Planned(p)'
    <3>1. CASE IsDiff(p)
      <4>1. PICK b \in Entry : b = FullOf(p)
        BY FullOfEntry
      <4>2. /\ ks = ExistingKeys /\ b \in Fulls(p.dir) /\ disk[b].key = ks
            /\ \A c \in Fulls(p.dir) : Created(c) <= Created(b)
            /\ \A f \in DiffsOf(b) : f.n <= p.n
        BY <1>2, <2>1, <3>1, <4>1 DEF Fits
      <4>3. Fulls(p.dir)' = Fulls(p.dir) /\ DiffsOf(b)' = DiffsOf(b)
        BY <1>11 DEF Fulls, CompleteSets, DiffsOf
      <4>4. \A c \in Fulls(p.dir) : Created(c)' <= Created(b)'
        BY <1>11, <4>1, <4>2 DEF Fulls, CompleteSets
      <4>5. disk'[b].key = run'.key
        BY <1>7, <1>8, <4>2
      <4> QED
        BY <3>1, <4>1, <4>2, <4>3, <4>4, <4>5 DEF Planned
    <3>2. CASE ~IsDiff(p)
      BY <1>7, <2>1, <3>2 DEF Planned, Fits
    <3> QED
      BY <3>1, <3>2
  <2> QED
    BY <1>7, <2>1, <2>2
<1>18. ASSUME NEW e \in Entry, Present(e)'
       PROVE  Created(e)' # now' /\ e.chain # id
  <2>1. Present(e) /\ Created(e)' = Created(e)
    BY <1>11, <1>18
  <2>2. Created(e) <= now /\ Created(e) \in Int
    BY <2>1 DEF RunTimes, DirectoryType, SetFiles, Created
  <2>3. e.chain \in UsedIds
    BY <2>1 DEF UsedIds
  <2> QED
    BY <1>2, <1>9, <2>1, <2>2, <2>3
<1>19. \A r \in RunId : log'[r].result # None => log'[r].time < now'
  <2> SUFFICES ASSUME NEW r \in RunId, log'[r].result # None PROVE log'[r].time < now'
    OBVIOUS
  <2>1. log'[r] = log[r] /\ log[r].time \in 1 .. now
    BY <1>1 DEF RunTimes
  <2> QED
    BY <1>9, <2>1
<1>20. RunningInv'
  <2>1. \A i \in DOMAIN run'.plan : Planned(run.plan[i].entry)'
    BY <1>7, <1>17
  <2>2. \A e \in run'.older : e \in Entry /\ Present(e)'
    BY <1>7, <1>11
  <2>3. \A i, j \in DOMAIN run'.plan :
          run'.plan[i].entry.dir = run'.plan[j].entry.dir => run'.plan[i].entry = run'.plan[j].entry
    <3>1. \A i, j \in DOMAIN plan : plan[i].entry.dir = plan[j].entry.dir => plan[i].entry = plan[j].entry
      BY <1>16, Zenon
    <3> QED
      BY <1>7, <3>1
  <2>4. 1 .. run'.done = {} /\ now' >= 1
    BY <1>7, <1>9
  <2>5. \A e \in Entry : Present(e)' => /\ Created(e)' = now' => disk'[e].run = run'.id
                                        /\ e.chain = run'.id => disk'[e].key = run'.key
    BY <1>7, <1>18
  <2> QED
    BY <1>19, <2>1, <2>2, <2>3, <2>4, <2>5 DEF RunningInv
<1> QED
  BY <1>3, <1>10, <1>12, <1>13, <1>14, <1>15, <1>20

-----------------------------------------------------------------------------
(* The theorems.                                                           *)

\* A step that changes nothing.
LEMMA StutterKeeps == ASSUME PagesInv, UNCHANGED pagesVars PROVE PagesInv'
<1>1. /\ UNCHANGED configVars /\ run' = run /\ disk' = disk /\ log' = log /\ unread' = unread
      /\ readable' = readable /\ drive' = drive /\ yubikeys' = yubikeys /\ now' = now
  BY DEF pagesVars, envVars, dirVars
<1>2. ConfigInv'
  BY <1>1, ConfigKept DEF PagesInv
<1>3. DirectoryType' /\ RunType'
  BY <1>1 DEF PagesInv, DirectoryType, RunType
<1>4. ChainKeys' /\ RunTimes'
  BY <1>1 DEF PagesInv, ChainKeys, RunTimes, Present, Created
<1>5. /\ \A e \in Entry : Present(e)' = Present(e) /\ Created(e)' = Created(e)
      /\ \A e : Complete(e)' = Complete(e) /\ Present(e)' = Present(e) /\ Created(e)' = Created(e)
  BY <1>1 DEF Present, Created, Complete, HasGap, HasTrailer
<1>6. /\ \A e : Planned(e)' = Planned(e) /\ Written(e)' = Written(e)
      /\ Running' = Running /\ Green' = Green /\ NoneRemoved' = NoneRemoved
  BY <1>1, <1>5 DEF Planned, Written, Fulls, DiffsOf, CompleteSets, Running, Green, NoneRemoved
<1>7. RunningInv' /\ FinishedInv'
  BY <1>1, <1>5, <1>6 DEF PagesInv, RunningInv, FinishedInv
<1> QED
  BY <1>2, <1>3, <1>4, <1>7 DEF PagesInv

\* The directory and the card stay as a run or the user leaves them: a chain has one
\* key set, the sets that carry the time of a logged result are that run's own, what
\* a run has planned fits the directory until it is written, and a finished run's
\* card says what it left there.
THEOREM PagesInvariant == PagesSpec => []PagesInv
<1>1. ASSUME PagesInv, [PagesNext]_pagesVars PROVE PagesInv'
  BY <1>1, BackUpNext, BaseUnusableNext, FolderDoneNext, RunStopsNext, CrashNext, RunEndsNext, QuietNext,
     StutterKeeps DEF PagesNext
<1> QED
  BY PagesInvInit, <1>1, PTL DEF PagesSpec

\* A text RestoreSafe wrote into config.yaml has a copy of the text it was made from,
\* whatever the user saved and wherever the program ended in between (config/keys.go).
THEOREM UpdatesHaveCopies == PagesSpec => []UpdateHasCopy
<1>1. PagesInv => UpdateHasCopy
  BY DEF PagesInv, ConfigInv
<1> QED
  BY PagesInvariant, <1>1, PTL

\* A green hero is true (view/createpage.go heroOf, health/snapshot.go): every configured
\* folder can be read, and its newest backup can be restored with its full backup.
THEOREM GreenIsRestorable == PagesSpec => []ProtectedIsRestorable
<1>1. PagesInv => ProtectedIsRestorable
  BY ProtectedRestores DEF PagesInv
<1> QED
  BY PagesInvariant, <1>1, PTL

\* "Back up now" can be pressed only when the preflight of the run has nothing
\* against the sources and the YubiKeys (health.BlocksBackup, backupPreflightIssues);
\* space and part limit are measured by the preflight alone.
THEOREM TheButtonIsHonest == PagesSpec => []ButtonIsHonest
<1>1. PagesInv => ButtonIsHonest
  BY HonestButton DEF PagesInv
<1> QED
  BY PagesInvariant, <1>1, PTL

\* Every backup set is in exactly one group of Restore backup, and a selection offers
\* only what can be restored (view/restorepage.go groupsOf, SelectionOf).
THEOREM TheListMatches == PagesSpec => []ListMatchesDisk
<1>1. PagesInv => ListMatchesDisk
  BY ListMatches DEF PagesInv
<1> QED
  BY PagesInvariant, <1>1, PTL

\* The result card says what the run left in the directory, and a failed or cancelled
\* newest backup is noted (view/result.go ResultCardOf, view/createpage.go lastRunNote).
THEOREM TheCardIsTrue == PagesSpec => []CardIsTrue
<1>1. PagesInv => CardIsTrue
  BY CardFollows DEF PagesInv
<1> QED
  BY PagesInvariant, <1>1, PTL
=============================================================================
