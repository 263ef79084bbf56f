-------------------------- MODULE GatewayProofs --------------------------
(***************************************************************************)
(* What stands in front of every operation on a backup directory, for      *)
(* every number of processes, key sets, secrets and file sizes.            *)
(*                                                                         *)
(* First the lock file: it implements a reader-writer lock, and a backup   *)
(* overlaps only with readers that were warned.  Then the dialogue that    *)
(* ends with unlocked keys: a key is taken for unlocked only when its set  *)
(* proved it, no secret outlives the dialogue, a password is reused only   *)
(* for the keys it opened, and a backup uses the keys the plan was shown   *)
(* for.                                                                    *)
(***************************************************************************)
EXTENDS BackupLock, Unlock, SequenceTheorems, FiniteSetTheorems,
        WellFoundedInduction, TLAPS

-----------------------------------------------------------------------------
(* The lock file.                                                          *)

\* Before anyone starts, no file is open and no lock is held.
LEMMA LockInvInit == Init => LockInv
  BY DEF Init, LockInv, TypeOK, Ops, Steps

\* Every system call of Acquire and Release, and a crash at any point, keeps
\* every open handle on the file at the path and the granted locks compatible.
LEMMA LockInvNext == LockInv /\ [Next]_vars => LockInv'
<1> SUFFICES ASSUME LockInv, [Next]_vars PROVE LockInv'
  OBVIOUS
<1> USE FileIdAssumption DEF LockInv, TypeOK, Ops, Steps, ModeOf
<1>1. ASSUME NEW p \in Proc, NEW o \in Ops, Open(p, o) PROVE LockInv'
  <2>1. file' \in FileId /\ (file # NoFile => file' = file)
    BY <1>1 DEF Open, OpenOrCreate, Unused
  <2> QED
    BY <1>1, <2>1 DEF Open, OpenOrCreate
<1>2. ASSUME NEW p \in Proc, OpenReadOnly(p) PROVE LockInv'
  BY <1>2 DEF OpenReadOnly
<1>3. ASSUME NEW p \in Proc, RunWithoutLock(p) PROVE LockInv'
  BY <1>3 DEF RunWithoutLock
<1>4. ASSUME NEW p \in Proc, LockGranted(p) PROVE LockInv'
  <2>1. \A q \in Proc \ {p} : held[q] # "none" => held[q] = "shared" /\ held'[p] = "shared"
    BY <1>4 DEF LockGranted, Grantable
  <2> QED
    BY <1>4, <2>1 DEF LockGranted
<1>5. ASSUME NEW p \in Proc, LockRefused(p) PROVE LockInv'
  BY <1>5 DEF LockRefused
<1>6. ASSUME NEW p \in Proc, ReleaseNothing(p) PROVE LockInv'
  BY <1>6 DEF ReleaseNothing
<1>7. ASSUME NEW p \in Proc, Unlock(p) PROVE LockInv'
  BY <1>7 DEF Unlock
<1>8. ASSUME NEW p \in Proc, Close(p) PROVE LockInv'
  BY <1>8 DEF Close
<1>9. ASSUME NEW p \in Proc, Remove(p) PROVE LockInv'
  BY <1>9 DEF Remove, Removable
<1>10. ASSUME NEW p \in Proc, Crash(p) PROVE LockInv'
  BY <1>10 DEF Crash
<1>11. CASE UNCHANGED vars
  BY <1>11 DEF vars
<1> QED
  BY <1>1, <1>2, <1>3, <1>4, <1>5, <1>6, <1>7, <1>8, <1>9, <1>10, <1>11 DEF Next

\* The inductive invariant of the lock file holds in every run.
THEOREM LockInvariant == Spec => []LockInv
  BY LockInvInit, LockInvNext, PTL DEF Spec

\* Whatever the interleaving of opens, locks, removals and crashes, a backup
\* never runs next to an operation that believes it holds the lock.
THEOREM NoOverlap == Spec => []NoSilentOverlap
<1>1. LockInv => NoSilentOverlap
  BY DEF LockInv, NoSilentOverlap, Working, ModeOf, TypeOK
<1> QED
  BY <1>1, LockInvariant, PTL

\* The lock file is a reader-writer lock: every step of a process grants or
\* drops one lock as RWLock allows, or changes no lock.
THEOREM LockRefinement == Spec => ImplementsRWLock
<1>1. Init => RW!Init
  BY DEF Init, RW!Init
<1>2. LockInv /\ [Next]_vars => [RW!Next]_held
  <2> SUFFICES ASSUME LockInv, [Next]_vars, held' # held PROVE RW!Next
    OBVIOUS
  <2>1. PICK p \in Proc : LockGranted(p) \/ Unlock(p) \/ Crash(p)
    BY DEF Next, vars, Open, OpenReadOnly, RunWithoutLock, LockRefused,
           ReleaseNothing, Close, Remove
  <2>2. CASE LockGranted(p)
    <3>1. RW!Compatible(p, ModeOf(op[p]))
      BY <2>2 DEF LockGranted, Grantable, LockInv, TypeOK, RW!Compatible
    <3>2. held[p] = "none"
      BY <2>2 DEF LockGranted, LockInv
    <3>3. RW!Acquire(p, ModeOf(op[p]))
      BY <2>2, <3>1, <3>2 DEF LockGranted, RW!Acquire, ModeOf
    <3> QED
      BY <3>3 DEF RW!Next, RW!Modes, ModeOf
  <2>3. CASE Unlock(p) \/ Crash(p)
    <3>1. held' = [held EXCEPT ![p] = "none"]
      BY <2>3 DEF Unlock, Crash
    <3>2. held[p] # "none"
      BY <3>1 DEF LockInv, TypeOK
    <3> QED
      BY <3>1, <3>2 DEF RW!Next, RW!Release
  <2> QED
    BY <2>1, <2>2, <2>3
<1> QED
  BY <1>1, <1>2, LockInvariant, PTL DEF Spec, ImplementsRWLock, RW!Spec

-----------------------------------------------------------------------------
(* Key sets and records.                                                   *)

\* What is known of a key set that was read.
LEMMA StoredFacts ==
    ASSUME NEW ks \in Stored
    PROVE  ks # None /\ ks.mode \in AuthMode /\ ks.id # NewId
  BY UnlockAssumption, StoredAssumption DEF Validate

\* The slot of the mode is one for a password alone in mode 1 only.
LEMMA RegularSlot ==
    ASSUME NEW mode \in AuthMode
    PROVE  RegularSlotType(mode) = "password" <=> mode = 1
  BY DEF AuthMode, RegularSlotType

\* The fields of a dialogue.
LEMMA Fields ==
    DOMAIN Idle = {"action", "pc", "need", "attempt", "pending", "new", "yubi", "masters", "live",
                   "given", "tried", "cfg", "current", "sources", "diffs", "shown", "asked",
                   "slots", "keys", "turns", "error"}
  BY DEF Idle

\* The key set that is asked for is one of the backups.
LEMMA CurrentStored ==
    ASSUME NEW d, d.need \in Seq(Stored), d.need # <<>>
    PROVE  Current(d) \in Stored
  BY HeadTailProperties DEF Current

\* The least of a set of positions.
LEMMA LeastExists ==
    ASSUME NEW S \in SUBSET Nat, S # {}
    PROVE  \E i \in S : \A j \in S : i <= j
<1>1. PICK i \in S : \A j \in S : ~ (<<j, i>> \in OpToRel(<, Nat))
  BY WFMin, NatLessThanWellFounded, Zenon
<1>2. ASSUME NEW j \in S PROVE i <= j
  <2>1. ~ (j < i)
    BY <1>1 DEF OpToRel
  <2> QED
    BY <2>1
<1> QED
  BY <1>2

-----------------------------------------------------------------------------
(* The parts of the invariant that hold whatever question is open.         *)

\* The types, and what a backup has planned.
Base(d) ==
    /\ DOMAIN d = DOMAIN Idle
    /\ d.need \in Seq(Stored)
    /\ \A t \in d.tried : t[1] = t[2]
    /\ d.action = "backup" =>
          /\ d.cfg \in [mode : AuthMode, recovery : BOOLEAN]
          /\ d.current \in Stored \cup {None} /\ d.shown.keys \in Stored \cup {None}
          /\ d.shown.prompts = KeyPlan(d.cfg, d.shown.keys)

\* Every master key is one of key sets that were proven.
MastersProven(d) ==
    \A id \in d.masters : \E ks \in IF id = NewId THEN {d.keys} ELSE Stored :
       ks.id = id /\ Proven(d, id, ks)

MasterSecrets(d) == {<<"master", id>> : id \in d.masters}

\* A record that Becomes makes the next state of.
Good(e) == Sound(e) /\ Prompted(e, Remembered(e))

\* What a sound dialogue has whatever question is open.
LEMMA SoundBase ==
    ASSUME NEW d, Sound(d)
    PROVE  Base(d) /\ MastersProven(d)
  BY DEF Sound, Base, MastersProven, OpenInv, PendingInv, FactorInv, PlanInv

\* The end of the operation, with or without an error, is sound.
LEMMA EndFields ==
    ASSUME NEW d, NEW error, DOMAIN d = DOMAIN Idle
    PROVE  LET e == End(d, error) IN
           /\ DOMAIN e = DOMAIN Idle /\ e.pc = "ended"
           /\ e.masters = {} /\ e.live = {}
           /\ e.action = d.action /\ e.need = d.need /\ e.tried = d.tried /\ e.keys = d.keys
           /\ e.cfg = d.cfg /\ e.current = d.current /\ e.shown = d.shown /\ e.asked = d.asked
           /\ e.pending = d.pending
  BY Fields DEF End

\* An end, with or without an error, keeps the invariant.
LEMMA EndGood ==
    ASSUME NEW d, NEW error, Base(d)
    PROVE  Good(End(d, error))
<1> DEFINE e == End(d, error)
<1>1. /\ DOMAIN e = DOMAIN Idle /\ e.pc = "ended"
      /\ e.masters = {} /\ e.live = {}
      /\ e.action = d.action /\ e.need = d.need /\ e.tried = d.tried /\ e.keys = d.keys
      /\ e.cfg = d.cfg /\ e.current = d.current /\ e.shown = d.shown
  BY EndFields DEF Base
<1> HIDE DEF e
<1>2. OpenInv(e)
  BY <1>1 DEF Base, OpenInv, Existing, Creating
<1>3. PendingInv(e) /\ FactorInv(e) /\ LiveInv(e)
  BY <1>1 DEF Base, PendingInv, FactorInv, LiveInv, Existing
<1>4. PlanInv(e)
  BY <1>1 DEF Base, PlanInv, Existing, Creating
<1> QED
  BY <1>1, <1>2, <1>3, <1>4 DEF Good, Sound, Prompted, Existing, Creating, e

\* What was asked already is not remembered twice.
LEMMA SameQuestion ==
    ASSUME NEW e, Sound(e), Prompted(e, e.asked)
    PROVE  Good(e)
<1>1. CASE e.action = "backup" /\ e.pc \in Existing \cup Creating
  <2>1. e.asked = PromptsOf(e)
    BY <1>1 DEF Prompted
  <2>2. e.asked # <<>> /\ e.asked[Len(e.asked)] = e.pc
    BY <2>1, <1>1 DEF PromptsOf, Existing, Creating
  <2> QED
    BY <2>2 DEF Good, Remembered
<1>2. CASE ~ (e.action = "backup" /\ e.pc \in Existing \cup Creating)
  BY <1>2, ZenonT(60) DEF Good, Prompted, Remembered, Existing, Creating, Asking, Sound, OpenInv
<1> QED
  BY <1>1, <1>2

\* The step that Becomes makes keeps the invariant.
LEMMA BecomesInv ==
    ASSUME NEW e, Good(e), Becomes(e)
    PROVE  DialogueInv'
<1> DEFINE n == [e EXCEPT !.asked = Remembered(e)]
<1>1. DOMAIN e = DOMAIN Idle
  BY DEF Good, Sound, OpenInv
<1>2. /\ DOMAIN n = DOMAIN Idle /\ n.asked = Remembered(e)
      /\ n.action = e.action /\ n.pc = e.pc /\ n.need = e.need /\ n.pending = e.pending
      /\ n.yubi = e.yubi /\ n.masters = e.masters /\ n.live = e.live /\ n.given = e.given
      /\ n.tried = e.tried /\ n.cfg = e.cfg /\ n.current = e.current /\ n.shown = e.shown
      /\ n.keys = e.keys /\ n.slots = e.slots
  BY <1>1, Fields
<1>3. dialogue' = n
  BY DEF Becomes
<1> HIDE DEF n
<1>4. OpenInv(n) /\ PendingInv(n) /\ LiveInv(n)
  BY <1>2 DEF Good, Sound, OpenInv, PendingInv, LiveInv, Current
<1>5. FactorInv(n)
  BY <1>2 DEF Good, Sound, FactorInv, Proven, Current
<1>6. PlanInv(n)
  BY <1>2 DEF Good, Sound, PlanInv
<1>7. Prompted(n, n.asked)
  BY <1>2 DEF Good, Prompted, PromptsOf
<1> QED
  BY <1>3, <1>4, <1>5, <1>6, <1>7 DEF DialogueInv, Sound

-----------------------------------------------------------------------------
(* Existing keys.                                                          *)

\* askAfterYubiKeyRefusal: the question after a refused YubiKey, or the end.
LEMMA RefusedGood ==
    ASSUME NEW d, NEW error, Base(d), d.pending = None,
           d.action = "backup" => d.masters = {}
    PROVE  Good(Refused(d, error))
<1>1. CASE d.action = "backup" /\ error = "yubikey"
  <2> DEFINE e == [d EXCEPT !.pc = "refused", !.yubi = None, !.live = {}]
  <2>1. /\ DOMAIN e = DOMAIN Idle /\ e.pc = "refused" /\ e.live = {}
        /\ e.action = d.action /\ e.need = d.need /\ e.tried = d.tried /\ e.keys = d.keys
        /\ e.cfg = d.cfg /\ e.current = d.current /\ e.shown = d.shown
        /\ e.pending = d.pending /\ e.masters = d.masters
    BY Fields DEF Base
  <2>2. Refused(d, error) = e
    BY <1>1 DEF Refused
  <2> HIDE DEF e
  <2>3. OpenInv(e)
    BY <1>1, <2>1 DEF Base, OpenInv, Existing, Creating, Asking
  <2>4. PendingInv(e) /\ FactorInv(e) /\ LiveInv(e)
    BY <1>1, <2>1 DEF Base, PendingInv, FactorInv, LiveInv, Existing
  <2>5. PlanInv(e)
    BY <1>1, <2>1 DEF Base, PlanInv, Existing, Creating
  <2> QED
    BY <2>1, <2>2, <2>3, <2>4, <2>5 DEF Good, Sound, Prompted, Existing, Creating
<1>2. CASE ~ (d.action = "backup" /\ error = "yubikey")
  BY <1>2, EndGood DEF Refused
<1> QED
  BY <1>1, <1>2

\* Ready to ask for the first key set that is needed.
Ready(d) ==
    /\ Base(d) /\ MastersProven(d)
    /\ d.need # <<>>
    /\ d.live \subseteq MasterSecrets(d)
    /\ d.action = "backup" => /\ d.masters = {} /\ d.asked = <<>>
                              /\ d.shown.keys # None /\ d.need = <<d.shown.keys>>

\* The regular way asks for the password or for the YubiKey of the mode.
LEMMA RegularGood ==
    ASSUME NEW d, Ready(d),
           d.pending # None => Current(d).mode = 1 /\ d.pending.for = Current(d).id
    PROVE  Good(Regular(d))
<1> DEFINE type == RegularSlotType(Current(d).mode)
           e == [d EXCEPT !.pc = IF type = "password" THEN "password" ELSE "yubikey"]
<1>1. CASE ~HasSlotType(Current(d), type)
  BY <1>1, EndGood DEF Regular, Ready
<1>2. CASE HasSlotType(Current(d), type)
  <2>1. Current(d) \in Stored /\ Current(d).mode \in AuthMode
    BY CurrentStored, StoredFacts DEF Ready, Base
  <2>2. e.pc = IF Current(d).mode = 1 THEN "password" ELSE "yubikey"
    BY <2>1, RegularSlot, Fields DEF Ready, Base
  <2>3. /\ DOMAIN e = DOMAIN Idle /\ e.asked = d.asked
        /\ e.action = d.action /\ e.need = d.need /\ e.tried = d.tried /\ e.keys = d.keys
        /\ e.cfg = d.cfg /\ e.current = d.current /\ e.shown = d.shown /\ e.live = d.live
        /\ e.pending = d.pending /\ e.masters = d.masters /\ e.given = d.given
    BY Fields DEF Ready, Base
  <2>4. Regular(d) = e
    BY <1>2 DEF Regular
  <2> HIDE DEF e, type
  <2>5. Current(e) = Current(d)
    BY <2>3 DEF Current
  <2>6. OpenInv(e)
    BY <2>2, <2>3 DEF Ready, Base, OpenInv, Existing, Creating, Asking
  <2>7. PendingInv(e)
    BY <2>1, <2>2, <2>3, <2>5 DEF Ready, Base, PendingInv
  <2>8. FactorInv(e)
    <3>1. MastersProven(e)
      BY <2>3 DEF Ready, MastersProven, Proven
    <3> QED
      BY <3>1, <2>1, <2>2, <2>3, <2>5
         DEF Ready, Base, FactorInv, MastersProven, UsesYubiKey, UsesPassword, AuthMode
  <2>9. LiveInv(e)
    BY <2>2, <2>3 DEF Ready, LiveInv, MasterSecrets
  <2>10. PlanInv(e)
    BY <2>2, <2>3 DEF Ready, Base, PlanInv, Existing, Creating
  <2>11. Prompted(e, Remembered(e))
    <3> SUFFICES ASSUME d.action = "backup" PROVE Remembered(e) = PromptsOf(e)
      BY <2>3 DEF Prompted
    <3>1. d.asked = <<>> /\ d.shown.keys = Current(d)
      BY HeadTailProperties DEF Ready, Base, Current
    <3>2. Remembered(e) = <<e.pc>>
      BY <3>1, <2>2, <2>3 DEF Remembered, Asking
    <3> QED
      BY <3>1, <3>2, <2>1, <2>2, <2>3 DEF PromptsOf
  <2> QED
    BY <2>4, <2>6, <2>7, <2>8, <2>9, <2>10, <2>11 DEF Good, Sound
<1> QED
  BY <1>1, <1>2

\* unlock.KeySet asks how to unlock only where a recovery code is allowed.
LEMMA KeySetGood ==
    ASSUME NEW d, Ready(d), d.pending = None
    PROVE  Good(KeySet(d))
<1> DEFINE e == [d EXCEPT !.attempt = 1]
           c == [e EXCEPT !.pc = "choose"]
<1>1. /\ DOMAIN e = DOMAIN Idle /\ e.asked = d.asked
      /\ e.action = d.action /\ e.need = d.need /\ e.tried = d.tried /\ e.keys = d.keys
      /\ e.cfg = d.cfg /\ e.current = d.current /\ e.shown = d.shown /\ e.live = d.live
      /\ e.pending = d.pending /\ e.masters = d.masters /\ e.given = d.given
  BY Fields DEF Ready, Base
<1>2. /\ DOMAIN c = DOMAIN Idle /\ c.asked = d.asked /\ c.pc = "choose"
      /\ c.action = d.action /\ c.need = d.need /\ c.tried = d.tried /\ c.keys = d.keys
      /\ c.cfg = d.cfg /\ c.current = d.current /\ c.shown = d.shown /\ c.live = d.live
      /\ c.pending = d.pending /\ c.masters = d.masters /\ c.given = d.given
  BY Fields DEF Ready, Base
<1>3. KeySet(d) = IF d.action # "backup" /\ HasSlotType(Current(d), "recovery") THEN c ELSE Regular(e)
  BY DEF KeySet
<1> HIDE DEF e, c
<1>4. Good(Regular(e))
  <2>1. Ready(e)
    BY <1>1 DEF Ready, Base, MastersProven, Proven, MasterSecrets
  <2> QED
    BY <2>1, <1>1, RegularGood
<1>5. ASSUME d.action # "backup" PROVE Good(c)
  <2>1. OpenInv(c)
    BY <1>2, <1>5 DEF Ready, Base, OpenInv, Existing, Creating, Asking
  <2>2. PendingInv(c)
    BY <1>2 DEF Ready, Base, PendingInv
  <2>3. FactorInv(c)
    BY <1>2 DEF Ready, Base, FactorInv, MastersProven, Proven
  <2>4. LiveInv(c) /\ PlanInv(c) /\ Prompted(c, Remembered(c))
    BY <1>2, <1>5 DEF Ready, LiveInv, MasterSecrets, PlanInv, Prompted
  <2> QED
    BY <2>1, <2>2, <2>3, <2>4 DEF Good, Sound
<1> QED
  BY <1>3, <1>4, <1>5

\* KeySets goes on with the next key set that is not unlocked, or is done.
LEMMA NextKeySetGood ==
    ASSUME NEW d, Base(d), MastersProven(d), d.pending = None,
           d.live \subseteq MasterSecrets(d),
           d.action = "backup" =>
              /\ d.shown.keys # None /\ d.keys = d.shown.keys
              /\ d.masters = {d.keys.id} /\ d.need = <<d.keys>>
              /\ d.asked = d.shown.prompts
    PROVE  Good(NextKeySet(d))
<1> DEFINE left == {i \in DOMAIN d.need : d.need[i].id \notin d.masters}
           next == CHOOSE i \in left : \A j \in left : i <= j
           u == [d EXCEPT !.need = <<>>, !.pc = "unlocked"]
           e == [d EXCEPT !.need = SubSeq(@, next, Len(@))]
<1>1. d.need \in Seq(Stored) /\ left \in SUBSET Nat
  BY DEF Base
<1>2. CASE left = {}
  <2>1. /\ DOMAIN u = DOMAIN Idle /\ u.asked = d.asked /\ u.need = <<>> /\ u.pc = "unlocked"
        /\ u.action = d.action /\ u.tried = d.tried /\ u.keys = d.keys
        /\ u.cfg = d.cfg /\ u.current = d.current /\ u.shown = d.shown /\ u.live = d.live
        /\ u.pending = d.pending /\ u.masters = d.masters /\ u.given = d.given
    BY Fields DEF Base
  <2>2. NextKeySet(d) = u
    BY <1>2 DEF NextKeySet
  <2> HIDE DEF u
  <2>3. OpenInv(u)
    BY <2>1 DEF Base, OpenInv, Existing, Creating
  <2>4. PendingInv(u) /\ LiveInv(u)
    BY <2>1 DEF Base, PendingInv, LiveInv, Existing
  <2>5. FactorInv(u)
    BY <2>1 DEF Base, FactorInv, MastersProven, Proven
  <2>6. PlanInv(u)
    BY <2>1 DEF Base, PlanInv, Existing, Creating
  <2>7. Prompted(u, u.asked)
    BY <2>1 DEF Prompted, PromptsOf
  <2> QED
    BY <2>2, <2>3, <2>4, <2>5, <2>6, <2>7, SameQuestion DEF Sound
<1>3. CASE left # {}
  <2>1. next \in left
    BY <1>1, <1>3, LeastExists
  <2>2. next \in 1 .. Len(d.need)
    BY <1>1, <2>1
  <2> HIDE DEF next, left
  <2>3. /\ DOMAIN e = DOMAIN Idle /\ e.asked = d.asked
        /\ e.need = SubSeq(d.need, next, Len(d.need))
        /\ e.action = d.action /\ e.tried = d.tried /\ e.keys = d.keys
        /\ e.cfg = d.cfg /\ e.current = d.current /\ e.shown = d.shown /\ e.live = d.live
        /\ e.pending = d.pending /\ e.masters = d.masters /\ e.given = d.given
    BY Fields DEF Base
  <2>4. NextKeySet(d) = KeySet(e)
    BY <1>3 DEF NextKeySet, next, left
  <2> HIDE DEF e
  <2>5. e.need \in Seq(Stored) /\ e.need # <<>>
    <3>1. Len(d.need) \in Nat /\ next <= Len(d.need) /\ next \in 1 .. Len(d.need) + 1
      BY <1>1, <2>2
    <3>2. /\ SubSeq(d.need, next, Len(d.need)) \in Seq(Stored)
          /\ Len(SubSeq(d.need, next, Len(d.need))) = Len(d.need) - next + 1
      BY <1>1, <3>1, SubSeqProperties, SMTT(30)
    <3>3. Len(SubSeq(d.need, next, Len(d.need))) # 0
      BY <3>1, <3>2
    <3>4. Len(<<>>) = 0
      OBVIOUS
    <3> QED
      BY <2>3, <3>2, <3>3, <3>4, Zenon
  <2>6. d.action # "backup"
    BY <2>1 DEF left
  <2>7. Ready(e)
    BY <2>3, <2>5, <2>6 DEF Ready, Base, MastersProven, Proven, MasterSecrets
  <2> QED
    BY <2>3, <2>4, <2>7, KeySetGood
<1> QED
  BY <1>2, <1>3

\* KeySet has returned a master key for the right factors: they are proven, and
\* the next key set follows.
LEMMA UnlockedGood ==
    ASSUME NEW d, NEW factors, Base(d), MastersProven(d), d.need # <<>>, d.pending = None,
           \A b \in d.live : b[1] = "master" => b \in MasterSecrets(d),
           d.action = "backup" => /\ d.masters = {} /\ d.shown.keys # None
                                  /\ d.need = <<d.shown.keys>> /\ d.asked = d.shown.prompts,
           \/ d.action # "backup" /\ "code" \in factors
           \/ /\ UsesPassword(Current(d).mode) => "password" \in factors
              /\ UsesYubiKey(Current(d).mode) => "yubikey" \in factors
    PROVE  Good(Unlocked(d, factors))
<1> DEFINE ks == Current(d)
           e == [d EXCEPT !.masters = @ \cup {ks.id}, !.yubi = None,
                          !.live = {b \in @ : b[1] = "master"} \cup {<<"master", ks.id>>},
                          !.given = @ \cup {<<ks.id, f>> : f \in factors},
                          !.keys = IF d.action = "backup" THEN ks ELSE @]
<1>1. /\ DOMAIN e = DOMAIN Idle /\ e.asked = d.asked
      /\ e.masters = d.masters \cup {ks.id}
      /\ e.live = {b \in d.live : b[1] = "master"} \cup {<<"master", ks.id>>}
      /\ e.given = d.given \cup {<<ks.id, f>> : f \in factors}
      /\ e.keys = IF d.action = "backup" THEN ks ELSE d.keys
      /\ e.action = d.action /\ e.need = d.need /\ e.tried = d.tried
      /\ e.cfg = d.cfg /\ e.current = d.current /\ e.shown = d.shown
      /\ e.pending = d.pending
  BY Fields DEF Base
<1>2. Unlocked(d, factors) = NextKeySet(e)
  BY DEF Unlocked
<1>3. ks \in Stored /\ ks.id # NewId
  BY CurrentStored, StoredFacts DEF Base
<1>4. d.action = "backup" => ks = d.shown.keys
  BY HeadTailProperties DEF Current, Base
<1> HIDE DEF e, ks
<1>5. Base(e)
  BY <1>1, <1>3 DEF Base
<1>6. MastersProven(e)
  <2> SUFFICES ASSUME NEW id \in e.masters
               PROVE  \E k \in IF id = NewId THEN {e.keys} ELSE Stored : k.id = id /\ Proven(e, id, k)
    BY DEF MastersProven
  <2>1. CASE id = ks.id
    <3>1. Proven(e, id, ks)
      BY <1>1, <2>1 DEF Proven, ks
    <3> QED
      BY <3>1, <1>3, <2>1
  <2>2. CASE id \in d.masters
    <3>1. d.action # "backup"
      BY <2>2
    <3>2. PICK k \in IF id = NewId THEN {d.keys} ELSE Stored : k.id = id /\ Proven(d, id, k)
      BY <2>2 DEF MastersProven
    <3>3. Proven(e, id, k)
      BY <1>1, <3>2 DEF Proven
    <3> QED
      BY <1>1, <3>1, <3>2, <3>3
  <2> QED
    BY <1>1, <2>1, <2>2
<1>7. e.live \subseteq MasterSecrets(e)
  BY <1>1 DEF MasterSecrets
<1>8. e.action = "backup" =>
         /\ e.shown.keys # None /\ e.keys = e.shown.keys
         /\ e.masters = {e.keys.id} /\ e.need = <<e.keys>>
         /\ e.asked = e.shown.prompts
  BY <1>1, <1>4
<1> QED
  BY <1>1, <1>2, <1>5, <1>6, <1>7, <1>8, NextKeySetGood

\* Sequences of prompts put together.
LEMMA Prompts ==
    ASSUME NEW p, NEW q, NEW r
    PROVE  /\ <<>> \o <<p>> = <<p>> /\ <<p>> \o <<>> = <<p>>
           /\ <<p>> \o <<q>> = <<p, q>> /\ <<p, q>> \o <<>> = <<p, q>>
           /\ <<p, q>> \o <<r>> = <<p, q, r>>
           /\ Append(<<>>, p) = <<p>> /\ Append(<<p>>, q) = <<p, q>>
           /\ Append(<<p, q>>, r) = <<p, q, r>>
<1> DEFINE S == {p, q, r}
<1>1. p \in S /\ q \in S /\ r \in S
  OBVIOUS
<1> HIDE DEF S
<1>2. /\ <<p>> \in Seq(S) /\ <<p, q>> \in Seq(S) /\ <<r>> \in Seq(S) /\ <<q>> \in Seq(S)
      /\ <<p, q, r>> \in Seq(S)
  BY <1>1
<1>3. <<>> \o <<p>> = <<p>> /\ <<p>> \o <<>> = <<p>> /\ <<p, q>> \o <<>> = <<p, q>>
  BY <1>2, ConcatEmptySeq, Zenon
<1>4. <<p>> \o <<q>> = <<p, q>>
  <2> DEFINE c == <<p>> \o <<q>>
  <2>1. /\ c \in Seq(S) /\ Len(c) = Len(<<p>>) + Len(<<q>>)
        /\ \A i \in 1 .. Len(<<p>>) + Len(<<q>>) :
              c[i] = IF i <= Len(<<p>>) THEN <<p>>[i] ELSE <<q>>[i - Len(<<p>>)]
    BY <1>2, ConcatProperties, Zenon
  <2> HIDE DEF c
  <2>2. Len(<<p>>) = 1 /\ Len(<<q>>) = 1 /\ Len(<<p, q>>) = 2
    OBVIOUS
  <2>3. Len(c) = 2 /\ c[1] = p /\ c[2] = q
    BY <2>1, <2>2
  <2>4. \A i \in 1 .. Len(c) : c[i] = <<p, q>>[i]
    BY <2>3
  <2> QED
    BY <1>2, <2>1, <2>2, <2>3, <2>4, SeqEqual DEF c
<1>5. <<p, q>> \o <<r>> = <<p, q, r>>
  <2> DEFINE c == <<p, q>> \o <<r>>
  <2>1. /\ c \in Seq(S) /\ Len(c) = Len(<<p, q>>) + Len(<<r>>)
        /\ \A i \in 1 .. Len(<<p, q>>) + Len(<<r>>) :
              c[i] = IF i <= Len(<<p, q>>) THEN <<p, q>>[i] ELSE <<r>>[i - Len(<<p, q>>)]
    BY <1>2, ConcatProperties, Zenon
  <2> HIDE DEF c
  <2>2. Len(<<p, q>>) = 2 /\ Len(<<r>>) = 1 /\ Len(<<p, q, r>>) = 3
    OBVIOUS
  <2>3. Len(c) = 3 /\ c[1] = p /\ c[2] = q /\ c[3] = r
    BY <2>1, <2>2
  <2>4. \A i \in 1 .. Len(c) : c[i] = <<p, q, r>>[i]
    BY <2>3
  <2> QED
    BY <1>2, <2>1, <2>2, <2>3, <2>4, SeqEqual DEF c
<1>6. Append(<<p>>, q) = <<p>> \o <<q>> /\ Append(<<p, q>>, r) = <<p, q>> \o <<r>>
  BY <1>1, <1>2, AppendIsConcat, Zenon
<1>7. Append(<<>>, p) = <<p>>
  OBVIOUS
<1> QED
  BY <1>3, <1>4, <1>5, <1>6, <1>7, Zenon

\* The third prompt follows the first two.
LEMMA ThirdPrompt ==
    ASSUME NEW p, NEW q, NEW r
    PROVE  Append(<<p, q>>, r) = <<p, q, r>>
  BY Prompts

\* The prompts a plan announces are the ones up to the last factor of its keys.
LEMMA ExistingPrompts ==
    ASSUME NEW cfg, NEW ks \in Stored
    PROVE  KeyPlan(cfg, ks) = CASE ks.mode = 1 -> <<"password">>
                                [] ks.mode = 2 -> <<"yubikey", "password">>
                                [] ks.mode = 3 -> <<"yubikey">>
<1>1. /\ <<>> \o <<"password">> = <<"password">>
      /\ <<"yubikey">> \o <<"password">> = <<"yubikey", "password">>
      /\ <<"yubikey">> \o <<>> = <<"yubikey">>
  BY Prompts, Zenon
<1>2. ks # None /\ ks.mode \in {1, 2, 3}
  BY StoredFacts DEF AuthMode
<1>3. KeyPlan(cfg, ks) = UnlockText(FALSE, UsesPassword(ks.mode), UsesYubiKey(ks.mode), FALSE)
  BY <1>2 DEF KeyPlan
<1>4. CASE ks.mode = 1
  BY <1>1, <1>3, <1>4 DEF UnlockText, UsesPassword, UsesYubiKey
<1>5. CASE ks.mode = 2
  BY <1>1, <1>3, <1>5 DEF UnlockText, UsesPassword, UsesYubiKey
<1>6. CASE ks.mode = 3
  BY <1>1, <1>3, <1>6 DEF UnlockText, UsesPassword, UsesYubiKey
<1> QED
  BY <1>2, <1>4, <1>5, <1>6

\* The prompts a plan with new keys announces, mode by mode.
LEMMA NewPrompts ==
    ASSUME NEW cfg \in [mode : AuthMode, recovery : BOOLEAN]
    PROVE  KeyPlan(cfg, None) =
              CASE cfg.mode = 1 -> IF cfg.recovery THEN <<"newpassword", "showcode">>
                                                   ELSE <<"newpassword">>
                [] cfg.mode = 2 -> <<"newpassword", "register", "showcode">>
                [] cfg.mode = 3 -> <<"register", "showcode">>
<1>0. /\ <<"newpassword">> \o <<>> = <<"newpassword">>
      /\ <<>> \o <<"register">> = <<"register">>
      /\ <<"newpassword">> \o <<"register">> = <<"newpassword", "register">>
      /\ <<"newpassword">> \o <<"showcode">> = <<"newpassword", "showcode">>
      /\ <<"register">> \o <<"showcode">> = <<"register", "showcode">>
      /\ <<"newpassword", "register">> \o <<"showcode">>
            = <<"newpassword", "register", "showcode">>
  BY Prompts, Zenon
<1>1. /\ (<<"newpassword">> \o <<>>) \o <<>> = <<"newpassword">>
      /\ (<<"newpassword">> \o <<>>) \o <<"showcode">> = <<"newpassword", "showcode">>
      /\ (<<>> \o <<"register">>) \o <<"showcode">> = <<"register", "showcode">>
      /\ (<<"newpassword">> \o <<"register">>) \o <<"showcode">>
            = <<"newpassword", "register", "showcode">>
  BY <1>0, Zenon
<1>2. cfg.mode \in {1, 2, 3} /\ cfg.recovery \in BOOLEAN
  BY DEF AuthMode
<1>3. KeyPlan(cfg, None) = UnlockText(TRUE, UsesPassword(cfg.mode), UsesYubiKey(cfg.mode),
                                      cfg.recovery \/ UsesYubiKey(cfg.mode))
  BY DEF KeyPlan, CreatesRecoveryCode
<1>4. CASE cfg.mode = 1
  BY <1>1, <1>2, <1>3, <1>4 DEF UnlockText, UsesPassword, UsesYubiKey
<1>5. CASE cfg.mode = 2
  BY <1>1, <1>2, <1>3, <1>5 DEF UnlockText, UsesPassword, UsesYubiKey
<1>6. CASE cfg.mode = 3
  BY <1>1, <1>2, <1>3, <1>6 DEF UnlockText, UsesPassword, UsesYubiKey
<1> QED
  BY <1>2, <1>4, <1>5, <1>6

\* What an open question for existing keys says.
LEMMA ExistingFacts ==
    ASSUME NEW d, Sound(d), d.pc \in Existing
    PROVE  /\ Base(d) /\ MastersProven(d) /\ d.need # <<>>
           /\ Current(d) \in Stored /\ Current(d).mode \in AuthMode
           /\ \A b \in d.live : b[1] = "master" => b \in MasterSecrets(d)
           /\ d.action = "backup" => /\ d.masters = {} /\ d.shown.keys # None
                                     /\ d.need = <<d.shown.keys>>
                                     /\ d.shown.keys = Current(d)
<1>1. Base(d) /\ MastersProven(d)
  BY SoundBase
<1>2. d.need # <<>> /\ d.need \in Seq(Stored)
  BY DEF Sound, OpenInv
<1>3. Current(d) \in Stored /\ Current(d).mode \in AuthMode
  BY <1>2, CurrentStored, StoredFacts
<1>4. \A b \in d.live : b[1] = "master" => b \in MasterSecrets(d)
  BY DEF Sound, LiveInv, MasterSecrets
<1>5. d.action = "backup" => d.masters = {} /\ d.shown.keys # None /\ d.need = <<d.shown.keys>>
  BY DEF Sound, PlanInv, Existing
<1>6. d.action = "backup" => d.shown.keys = Current(d)
  BY <1>2, <1>5, HeadTailProperties DEF Current
<1> QED
  BY <1>1, <1>2, <1>3, <1>4, <1>5, <1>6

\* A question for a secret is repeated, or the operation ends.
LEMMA AgainGood ==
    ASSUME NEW d, Sound(d), Prompted(d, d.asked), d.pc \in {"password", "code"}, d.pending = None
    PROVE  Good(Again(d))
<1>1. Base(d) /\ (d.action = "backup" => d.masters = {})
  BY ExistingFacts DEF Existing
<1>2. Good(Refused(d, "attempts"))
  BY <1>1, RefusedGood
<1> DEFINE e == [d EXCEPT !.attempt = @ + 1]
<1>3. /\ DOMAIN e = DOMAIN Idle /\ e.asked = d.asked /\ e.pc = d.pc /\ e.yubi = d.yubi
      /\ e.action = d.action /\ e.need = d.need /\ e.tried = d.tried /\ e.keys = d.keys
      /\ e.cfg = d.cfg /\ e.current = d.current /\ e.shown = d.shown /\ e.live = d.live
      /\ e.pending = d.pending /\ e.masters = d.masters /\ e.given = d.given
  BY <1>1, Fields DEF Base
<1>4. Again(d) = IF d.attempt < maxPasswordAttempts THEN e ELSE Refused(d, "attempts")
  BY DEF Again
<1> HIDE DEF e
<1>5. OpenInv(e) /\ PendingInv(e) /\ LiveInv(e)
  BY <1>3 DEF Sound, OpenInv, PendingInv, LiveInv, Current
<1>6. FactorInv(e) /\ PlanInv(e)
  BY <1>3 DEF Sound, FactorInv, PlanInv, Proven, Current
<1>7. Prompted(e, e.asked)
  BY <1>3 DEF Prompted, PromptsOf
<1> QED
  BY <1>2, <1>4, <1>5, <1>6, <1>7, SameQuestion DEF Sound

\* A password that was typed for the key set is tried.
LEMMA TryPasswordGood ==
    ASSUME NEW d, NEW typed, Sound(d), Prompted(d, d.asked), d.pc = "password", d.pending = None,
           typed.for = Current(d).id
    PROVE  Good(TryPassword(d, typed))
<1> DEFINE ks == Current(d)
           i == FirstIndex(ks, RegularSlotType(ks.mode))
           secret == Combine(typed.pw, d.yubi)
           factors == {"password"} \cup (IF d.yubi = None THEN {} ELSE {"yubikey"})
           e == [d EXCEPT !.pc = "password", !.tried = @ \cup {<<typed.for, ks.id>>}]
<1>1. DOMAIN d = DOMAIN Idle
  BY DEF Sound, OpenInv
<1>2. /\ DOMAIN e = DOMAIN Idle /\ e.asked = d.asked /\ e.pc = d.pc /\ e.yubi = d.yubi
      /\ e.action = d.action /\ e.need = d.need /\ e.keys = d.keys
      /\ e.cfg = d.cfg /\ e.current = d.current /\ e.shown = d.shown /\ e.live = d.live
      /\ e.pending = d.pending /\ e.masters = d.masters /\ e.given = d.given
      /\ e.tried = d.tried \cup {<<typed.for, ks.id>>}
  BY <1>1, Fields
<1>3. TryPassword(d, typed) = IF OpenSlot(ks, i, secret) = None THEN Again(e)
                                                              ELSE Unlocked(e, factors)
  BY <1>2 DEF TryPassword
<1>4. Current(e) = ks
  BY <1>2 DEF Current
<1> HIDE DEF e
<1>5. OpenInv(e) /\ LiveInv(e)
  BY <1>2, <1>4 DEF Sound, OpenInv, LiveInv
<1>6. PendingInv(e)
  BY <1>2 DEF Sound, PendingInv
<1>7. FactorInv(e) /\ PlanInv(e)
  BY <1>2, <1>4 DEF Sound, FactorInv, PlanInv, Proven
<1>8. Prompted(e, e.asked)
  BY <1>2 DEF Prompted, PromptsOf
<1>9. Sound(e)
  BY <1>5, <1>6, <1>7 DEF Sound
<1>10. Good(Again(e))
  BY <1>2, <1>8, <1>9, AgainGood
<1>11. Good(Unlocked(e, factors))
  <2>1. e.pc \in Existing
    BY <1>2 DEF Existing
  <2>2. /\ Base(e) /\ MastersProven(e) /\ e.need # <<>>
        /\ ks \in Stored /\ ks.mode \in AuthMode
        /\ \A b \in e.live : b[1] = "master" => b \in MasterSecrets(e)
        /\ e.action = "backup" => /\ e.masters = {} /\ e.shown.keys # None
                                  /\ e.need = <<e.shown.keys>> /\ e.shown.keys = ks
    BY <1>4, <1>9, <2>1, ExistingFacts
  <2>3. ks.mode \in {1, 2} /\ (ks.mode = 2 => e.yubi # None)
    BY <1>2, <1>4, <1>7, <2>2 DEF FactorInv, UsesPassword, UsesYubiKey, AuthMode
  <2>4. /\ UsesPassword(ks.mode) => "password" \in factors
        /\ UsesYubiKey(ks.mode) => "yubikey" \in factors
    BY <1>2, <2>3 DEF UsesYubiKey
  <2>5. e.action = "backup" => e.asked = e.shown.prompts
    <3> SUFFICES ASSUME e.action = "backup" PROVE e.asked = e.shown.prompts
      OBVIOUS
    <3>1. e.asked = PromptsOf(e)
      BY <1>8, <2>1 DEF Prompted
    <3>2. e.shown.prompts = KeyPlan(e.cfg, ks)
      BY <2>2 DEF Base
    <3>3. e.asked = IF ks.mode = 2 THEN <<"yubikey", "password">> ELSE <<"password">>
      BY <1>2, <2>2, <3>1 DEF PromptsOf
    <3> QED
      BY <2>2, <2>3, <3>2, <3>3, ExistingPrompts
  <2> QED
    BY <1>2, <1>4, <2>2, <2>4, <2>5, UnlockedGood
<1> QED
  BY <1>3, <1>10, <1>11

\* Every answer to a question of unlock.KeySet keeps the invariant.
LEMMA ChooseGood ==
    ASSUME NEW d, NEW answer, NEW pw, Sound(d), d.pc = "choose"
    PROVE  Good(ChooseUnlockMethod(d, answer, pw))
<1>1. /\ Base(d) /\ MastersProven(d) /\ d.need # <<>> /\ d.action # "backup" /\ d.pending = None
      /\ d.live \subseteq MasterSecrets(d)
  BY ExistingFacts DEF Sound, OpenInv, PendingInv, LiveInv, Existing, MasterSecrets
<1>2. Good(End(d, "cancelled"))
  BY <1>1, EndGood
<1>3. Good([d EXCEPT !.pc = "code", !.pending = None])
  <2> DEFINE e == [d EXCEPT !.pc = "code", !.pending = None]
  <2>1. /\ DOMAIN e = DOMAIN Idle /\ e.pc = "code" /\ e.pending = None
        /\ e.action = d.action /\ e.need = d.need /\ e.tried = d.tried /\ e.keys = d.keys
        /\ e.live = d.live /\ e.masters = d.masters /\ e.given = d.given
    BY <1>1, Fields DEF Base
  <2> HIDE DEF e
  <2>2. OpenInv(e) /\ PendingInv(e)
    BY <1>1, <2>1 DEF Base, OpenInv, PendingInv, Existing, Creating, Asking
  <2>3. FactorInv(e)
    BY <1>1, <2>1 DEF Base, FactorInv, MastersProven, Proven
  <2>4. LiveInv(e) /\ PlanInv(e) /\ Prompted(e, Remembered(e))
    BY <1>1, <2>1 DEF LiveInv, MasterSecrets, PlanInv, Prompted
  <2> QED
    BY <2>2, <2>3, <2>4 DEF Good, Sound, e
<1> DEFINE r == [d EXCEPT !.pending = IF Current(d).mode = 1
                                     THEN [pw |-> pw, for |-> Current(d).id] ELSE None]
<1>4. Good(Regular(r))
  <2>1. /\ DOMAIN r = DOMAIN Idle
        /\ r.pending = IF Current(d).mode = 1 THEN [pw |-> pw, for |-> Current(d).id] ELSE None
        /\ r.action = d.action /\ r.need = d.need /\ r.tried = d.tried /\ r.keys = d.keys
        /\ r.live = d.live /\ r.masters = d.masters /\ r.given = d.given
    BY <1>1, Fields DEF Base
  <2> HIDE DEF r
  <2>2. Ready(r)
    BY <1>1, <2>1 DEF Ready, Base, MastersProven, Proven, MasterSecrets
  <2>3. Current(r) = Current(d)
    BY <2>1 DEF Current
  <2>4. r.pending # None => Current(r).mode = 1 /\ r.pending.for = Current(r).id
    BY <2>1, <2>3
  <2> QED
    BY <2>2, <2>4, RegularGood
<1>5. \/ ChooseUnlockMethod(d, answer, pw) = End(d, "cancelled")
      \/ ChooseUnlockMethod(d, answer, pw) = [d EXCEPT !.pc = "code", !.pending = None]
      \/ ChooseUnlockMethod(d, answer, pw) = Regular(r)
  BY DEF ChooseUnlockMethod
<1> QED
  BY <1>2, <1>3, <1>4, <1>5, Zenon

\* A kept password answers the question of the key set it is kept for.
LEMMA TakePendingGood ==
    ASSUME NEW d, Sound(d), Prompted(d, d.asked), d.pc = "password", d.pending # None
    PROVE  Good(TakePending(d))
<1> DEFINE e == [d EXCEPT !.pending = None]
<1>1. DOMAIN d = DOMAIN Idle
  BY DEF Sound, OpenInv
<1>2. /\ DOMAIN e = DOMAIN Idle /\ e.asked = d.asked /\ e.pc = d.pc /\ e.yubi = d.yubi
      /\ e.action = d.action /\ e.need = d.need /\ e.tried = d.tried /\ e.keys = d.keys
      /\ e.cfg = d.cfg /\ e.current = d.current /\ e.shown = d.shown /\ e.live = d.live
      /\ e.pending = None /\ e.masters = d.masters /\ e.given = d.given
  BY <1>1, Fields
<1>3. TakePending(d) = TryPassword(e, d.pending)
  BY DEF TakePending
<1> HIDE DEF e
<1>4. OpenInv(e) /\ PendingInv(e) /\ LiveInv(e)
  BY <1>2 DEF Sound, OpenInv, PendingInv, LiveInv, Current
<1>5. FactorInv(e) /\ PlanInv(e)
  BY <1>2 DEF Sound, FactorInv, PlanInv, Proven, Current
<1>6. Prompted(e, e.asked)
  BY <1>2 DEF Prompted, PromptsOf
<1>7. d.pending.for = Current(e).id
  BY <1>2 DEF Sound, PendingInv, Current
<1> QED
  BY <1>2, <1>3, <1>4, <1>5, <1>6, <1>7, TryPasswordGood DEF Sound

\* A typed password, or cancel.
LEMMA TypedGood ==
    ASSUME NEW d, NEW pw, Sound(d), Prompted(d, d.asked), d.pc = "password", d.pending = None
    PROVE  Good(Typed(d, pw))
<1>1. Good(End(d, "cancelled"))
  BY SoundBase, EndGood
<1>2. Good(TryPassword(d, [pw |-> pw, for |-> Current(d).id]))
  BY TryPasswordGood
<1> QED
  BY <1>1, <1>2 DEF Typed

\* A recovery code, a typo or cancel.
LEMMA RecoveryGood ==
    ASSUME NEW d, NEW code, Sound(d), Prompted(d, d.asked), d.pc = "code"
    PROVE  Good(RecoveryCode(d, code))
<1>1. /\ Base(d) /\ MastersProven(d) /\ d.need # <<>> /\ d.action # "backup" /\ d.pending = None
      /\ \A b \in d.live : b[1] = "master" => b \in MasterSecrets(d)
  BY ExistingFacts DEF Sound, OpenInv, PendingInv, Existing
<1>2. Good(End(d, "cancelled"))
  BY <1>1, EndGood
<1>3. Good(Again(d))
  BY <1>1, AgainGood
<1>4. Good(Unlocked(d, {"code"}))
  BY <1>1, UnlockedGood
<1> QED
  BY <1>2, <1>3, <1>4 DEF RecoveryCode

\* A touched YubiKey opens its own slot, or asks for the password next.
LEMMA DeriveGood ==
    ASSUME NEW d, NEW y \in YubiKey, NEW result, Sound(d), Prompted(d, d.asked), d.pc = "yubikey"
    PROVE  Good(DeriveYubiKeySecret(d, y, result))
<1> DEFINE ks == Current(d)
           hmac == IF result = "other" THEN HmacSecret(y, None) ELSE HmacSecret(y, ks.id)
           e == [d EXCEPT !.yubi = hmac, !.live = @ \cup {<<"yubi", ks.id>>}]
           p == [e EXCEPT !.pc = "password"]
<1>1. /\ Base(d) /\ MastersProven(d) /\ d.need # <<>>
      /\ ks \in Stored /\ ks.mode \in AuthMode
      /\ \A b \in d.live : b[1] = "master" => b \in MasterSecrets(d)
      /\ d.action = "backup" => /\ d.masters = {} /\ d.shown.keys # None
                                /\ d.need = <<d.shown.keys>> /\ d.shown.keys = ks
  BY ExistingFacts DEF Existing
<1>2. /\ d.pending = None /\ ks.mode \in {2, 3}
      /\ d.live \subseteq MasterSecrets(d)
  BY <1>1 DEF Sound, PendingInv, FactorInv, UsesYubiKey, LiveInv, Existing, MasterSecrets
<1>3. hmac # None
  BY <1>1, StoredAssumption DEF HmacSecret
<1>4. /\ DOMAIN e = DOMAIN Idle /\ e.asked = d.asked /\ e.pc = d.pc
      /\ e.action = d.action /\ e.need = d.need /\ e.tried = d.tried /\ e.keys = d.keys
      /\ e.cfg = d.cfg /\ e.current = d.current /\ e.shown = d.shown
      /\ e.live = d.live \cup {<<"yubi", ks.id>>}
      /\ e.pending = d.pending /\ e.masters = d.masters /\ e.given = d.given
  BY <1>1, Fields DEF Base
<1>5. /\ DOMAIN p = DOMAIN Idle /\ p.asked = d.asked /\ p.pc = "password" /\ p.yubi = hmac
      /\ p.action = d.action /\ p.need = d.need /\ p.tried = d.tried /\ p.keys = d.keys
      /\ p.cfg = d.cfg /\ p.current = d.current /\ p.shown = d.shown
      /\ p.live = d.live \cup {<<"yubi", ks.id>>}
      /\ p.pending = d.pending /\ p.masters = d.masters /\ p.given = d.given
  BY <1>1, Fields DEF Base
<1>6. \/ DeriveYubiKeySecret(d, y, result) = End(d, "required")
      \/ DeriveYubiKeySecret(d, y, result) = Refused(d, "yubikey")
      \/ ks.mode = 2 /\ DeriveYubiKeySecret(d, y, result) = p
      \/ ks.mode # 2 /\ DeriveYubiKeySecret(d, y, result) = Refused(e, "yubikey")
      \/ ks.mode # 2 /\ DeriveYubiKeySecret(d, y, result) = Unlocked(e, {"yubikey"})
  BY DEF DeriveYubiKeySecret
<1> HIDE DEF e, p, hmac
<1>7. Good(End(d, "required")) /\ Good(Refused(d, "yubikey"))
  BY <1>1, <1>2, EndGood, RefusedGood
<1>8. Base(e) /\ MastersProven(e)
  BY <1>1, <1>4 DEF Base, MastersProven, Proven
<1>9. Good(Refused(e, "yubikey"))
  BY <1>1, <1>2, <1>4, <1>8, RefusedGood
<1>10. ASSUME ks.mode # 2 PROVE Good(Unlocked(e, {"yubikey"}))
  <2>1. Current(e) = ks
    BY <1>4 DEF Current
  <2>2. \A b \in e.live : b[1] = "master" => b \in MasterSecrets(e)
    BY <1>1, <1>4 DEF MasterSecrets
  <2>3. e.action = "backup" => e.asked = e.shown.prompts
    <3> SUFFICES ASSUME e.action = "backup" PROVE e.asked = e.shown.prompts
      OBVIOUS
    <3>1. e.asked = <<"yubikey">>
      BY <1>4 DEF Prompted, PromptsOf, Existing
    <3>2. e.shown.prompts = KeyPlan(e.cfg, ks)
      BY <1>1, <1>4 DEF Base
    <3>3. ks.mode = 3
      BY <1>2, <1>10
    <3> QED
      BY <1>1, <3>1, <3>2, <3>3, ExistingPrompts
  <2>4. UsesPassword(ks.mode) => "password" \in {"yubikey"}
    BY <1>2, <1>10 DEF UsesPassword
  <2> QED
    BY <1>1, <1>2, <1>4, <1>8, <2>1, <2>2, <2>3, <2>4, UnlockedGood
<1>11. ASSUME ks.mode = 2 PROVE Good(p)
  <2>1. Current(p) = ks
    BY <1>5 DEF Current
  <2>2. OpenInv(p) /\ PendingInv(p)
    BY <1>1, <1>2, <1>5 DEF Base, OpenInv, PendingInv, Existing, Creating, Asking
  <2>3. FactorInv(p)
    BY <1>1, <1>3, <1>5, <1>11, <2>1
       DEF Base, FactorInv, MastersProven, Proven, UsesPassword
  <2>4. LiveInv(p)
    BY <1>2, <1>5, <2>1 DEF LiveInv, MasterSecrets
  <2>5. PlanInv(p)
    BY <1>1, <1>5 DEF Base, PlanInv, Creating
  <2>6. Prompted(p, Remembered(p))
    <3> SUFFICES ASSUME p.action = "backup" PROVE Remembered(p) = PromptsOf(p)
      BY DEF Prompted
    <3>1. p.asked = <<"yubikey">>
      BY <1>5 DEF Prompted, PromptsOf, Existing
    <3>2. Remembered(p) = <<"yubikey", "password">>
      <4>1. <<"yubikey">> # <<>> /\ <<"yubikey">>[Len(<<"yubikey">>)] # "password"
        OBVIOUS
      <4>2. Remembered(p) = Append(<<"yubikey">>, "password")
        BY <3>1, <4>1, <1>5 DEF Remembered, Asking
      <4> QED
        BY <4>2, Prompts, Zenon
    <3> QED
      BY <1>1, <1>5, <1>11, <3>2 DEF PromptsOf
  <2> QED
    BY <2>2, <2>3, <2>4, <2>5, <2>6 DEF Good, Sound
<1> QED
  BY <1>6, <1>7, <1>9, <1>10, <1>11

-----------------------------------------------------------------------------
(* The plan and new keys of a backup.                                      *)

\* A backup that holds nothing yet.
Empty(d) ==
    /\ DOMAIN d = DOMAIN Idle /\ d.need \in Seq(Stored) /\ d.action = "backup"
    /\ \A t \in d.tried : t[1] = t[2]
    /\ d.cfg \in [mode : AuthMode, recovery : BOOLEAN]
    /\ d.current \in Stored \cup {None}
    /\ d.masters = {} /\ d.live = {} /\ d.pending = None

\* A plan is shown, or it is blocked and ends the backup.
LEMMA ChoosePlanGood ==
    ASSUME NEW d, NEW mode, NEW checked, NEW free, NEW connected, Empty(d)
    PROVE  Good(ChoosePlan(d, mode, checked, free, connected))
<1> DEFINE keys == IF mode = "newkeys" THEN None ELSE d.current
           diffs == IF mode = "automatic" THEN d.diffs ELSE {}
           est == Estimate(MeasureSources(d.sources, d.diffs), diffs)
           issues == BlockingIssues(d.sources, est, checked, SeveralYubiKeys(d.cfg, keys, connected))
           shown == [mode |-> mode, keys |-> keys, prompts |-> KeyPlan(d.cfg, keys),
                     plan |-> PlanShown(d.sources, est, checked, free, diffs, issues)]
           e == [d EXCEPT !.pc = "plan", !.shown = shown]
<1>1. ChoosePlan(d, mode, checked, free, connected) =
         IF mode = "automatic" /\ issues # {} THEN End(e, "blocked") ELSE e
  BY DEF ChoosePlan
<1>2. shown.keys = keys /\ shown.prompts = KeyPlan(d.cfg, keys) /\ keys \in Stored \cup {None}
  BY DEF Empty
<1> HIDE DEF shown, issues, keys
<1>3. /\ DOMAIN e = DOMAIN Idle /\ e.pc = "plan" /\ e.shown = shown
      /\ e.action = d.action /\ e.need = d.need /\ e.tried = d.tried /\ e.keys = d.keys
      /\ e.cfg = d.cfg /\ e.current = d.current /\ e.live = d.live
      /\ e.pending = d.pending /\ e.masters = d.masters
  BY Fields DEF Empty
<1> HIDE DEF e
<1>4. Base(e)
  BY <1>2, <1>3 DEF Empty, Base
<1>5. Good(End(e, "blocked"))
  BY <1>4, EndGood
<1>6. OpenInv(e) /\ PendingInv(e) /\ FactorInv(e)
  BY <1>3 DEF Empty, OpenInv, PendingInv, FactorInv, Existing, Creating, Asking
<1>7. LiveInv(e) /\ PlanInv(e)
  BY <1>3, <1>4 DEF Empty, Base, LiveInv, PlanInv, Existing, Creating
<1>8. Prompted(e, Remembered(e))
  BY <1>3 DEF Prompted, Existing, Creating
<1> QED
  BY <1>1, <1>5, <1>6, <1>7, <1>8 DEF Good, Sound

\* obtainKeys asks for the keys of the plan, or for the first factor of new ones.
LEMMA ObtainGood ==
    ASSUME NEW d, Empty(d), Base(d)
    PROVE  Good(ObtainKeys(d))
<1> DEFINE e == [d EXCEPT !.asked = <<>>]
           n == [e EXCEPT !.need = <<d.shown.keys>>]
           c == EnrollKeySet(e)
<1>1. /\ DOMAIN n = DOMAIN Idle /\ n.asked = <<>> /\ n.need = <<d.shown.keys>>
      /\ n.action = d.action /\ n.tried = d.tried /\ n.keys = d.keys
      /\ n.cfg = d.cfg /\ n.current = d.current /\ n.shown = d.shown /\ n.live = d.live
      /\ n.pending = d.pending /\ n.masters = d.masters
  BY Fields DEF Empty
<1>2. /\ DOMAIN c = DOMAIN Idle /\ c.asked = <<>>
      /\ c.pc = IF UsesPassword(d.cfg.mode) THEN "newpassword" ELSE "register"
      /\ c.action = d.action /\ c.need = d.need /\ c.tried = d.tried /\ c.keys = d.keys
      /\ c.cfg = d.cfg /\ c.current = d.current /\ c.shown = d.shown /\ c.live = d.live
      /\ c.pending = d.pending /\ c.masters = d.masters
  BY Fields DEF Empty, EnrollKeySet
<1>3. ObtainKeys(d) = IF d.shown.keys # None THEN KeySet(n) ELSE c
  BY DEF ObtainKeys
<1> HIDE DEF n, c
<1>4. ASSUME d.shown.keys # None PROVE Good(KeySet(n))
  <2>1. d.shown.keys \in Stored
    BY <1>4 DEF Base, Empty
  <2>2. <<d.shown.keys>> \in Seq(Stored) /\ <<d.shown.keys>> # <<>>
    BY <2>1
  <2>3. Ready(n)
    BY <1>1, <1>4, <2>2 DEF Ready, Base, Empty, MastersProven, MasterSecrets
  <2> QED
    BY <1>1, <2>3, KeySetGood DEF Empty
<1>5. ASSUME d.shown.keys = None PROVE Good(c)
  <2>1. d.cfg.mode \in {1, 2, 3}
    BY DEF Empty, AuthMode
  <2>2. OpenInv(c) /\ PendingInv(c)
    BY <1>2 DEF Empty, OpenInv, PendingInv, Existing, Creating, Asking
  <2>3. FactorInv(c)
    BY <1>2, <2>1 DEF Empty, FactorInv, UsesPassword, UsesYubiKey
  <2>4. LiveInv(c) /\ PlanInv(c)
    BY <1>2, <1>5 DEF Empty, Base, LiveInv, PlanInv, Existing, Creating
  <2>5. Prompted(c, Remembered(c))
    <3>1. Remembered(c) = <<c.pc>>
      BY <1>2 DEF Remembered, Asking, Empty
    <3> QED
      BY <3>1, <1>2, <2>1 DEF Prompted, PromptsOf, UsesPassword
  <2> QED
    BY <2>2, <2>3, <2>4, <2>5 DEF Good, Sound
<1> QED
  BY <1>3, <1>4, <1>5

\* The answers to the plan: cancel, start, or another plan.
LEMMA ConfirmGood ==
    ASSUME NEW d, NEW answer, NEW checked, NEW free, NEW connected, Sound(d), d.pc = "plan"
    PROVE  Good(ConfirmBackupStart(d, answer, checked, free, connected))
<1>1. Base(d) /\ Empty(d)
  BY SoundBase DEF Sound, OpenInv, PendingInv, FactorInv, LiveInv, PlanInv, Empty
<1>2. Good(End(d, "cancelled")) /\ Good(ObtainKeys(d))
  BY <1>1, EndGood, ObtainGood
<1> DEFINE e == [d EXCEPT !.turns = @ + 1]
<1>3. Empty(e)
  BY <1>1, Fields DEF Empty
<1>4. Good(ChoosePlan(e, answer, checked, free, connected))
  BY <1>3, ChoosePlanGood
<1>5. \/ ConfirmBackupStart(d, answer, checked, free, connected) = End(d, "cancelled")
      \/ ConfirmBackupStart(d, answer, checked, free, connected) = ObtainKeys(d)
      \/ ConfirmBackupStart(d, answer, checked, free, connected) =
            ChoosePlan(e, answer, checked, free, connected)
  BY DEF ConfirmBackupStart
<1> QED
  BY <1>2, <1>4, <1>5, Zenon

\* The answers after a refused YubiKey.
LEMMA RefusalGood ==
    ASSUME NEW d, NEW answer, NEW checked, NEW free, NEW connected, Sound(d), d.pc = "refused"
    PROVE  Good(YubiKeyRefused(d, answer, checked, free, connected))
<1>1. Base(d) /\ Empty(d)
  BY SoundBase DEF Sound, OpenInv, PendingInv, FactorInv, LiveInv, PlanInv, Empty
<1> DEFINE e == [d EXCEPT !.turns = @ + 1]
<1>2. Base(e) /\ Empty(e)
  BY <1>1, Fields DEF Empty, Base
<1> HIDE DEF e
<1>3. /\ Good(End(d, "yubikey")) /\ Good(ObtainKeys(e))
      /\ Good(ChoosePlan(e, "newkeys", checked, free, connected))
  BY <1>1, <1>2, EndGood, ObtainGood, ChoosePlanGood
<1>4. \/ YubiKeyRefused(d, answer, checked, free, connected) = End(d, "yubikey")
      \/ YubiKeyRefused(d, answer, checked, free, connected) = ObtainKeys(e)
      \/ YubiKeyRefused(d, answer, checked, free, connected) =
            ChoosePlan(e, "newkeys", checked, free, connected)
  BY DEF YubiKeyRefused, e
<1> QED
  BY <1>3, <1>4, Zenon

\* A backup that creates its keys.
Creation(d) ==
    /\ DOMAIN d = DOMAIN Idle /\ d.need \in Seq(Stored) /\ d.action = "backup"
    /\ \A t \in d.tried : t[1] = t[2]
    /\ d.cfg \in [mode : AuthMode, recovery : BOOLEAN]
    /\ d.current \in Stored \cup {None}
    /\ d.masters = {} /\ d.pending = None
    /\ d.shown.keys = None /\ d.shown.prompts = KeyPlan(d.cfg, None)

Given(d) ==
    /\ UsesPassword(d.cfg.mode) => <<NewId, "password">> \in d.given
    /\ UsesYubiKey(d.cfg.mode) => <<NewId, "yubikey">> \in d.given

\* What holds while a backup creates its keys.
LEMMA CreatingFacts ==
    ASSUME NEW d, Sound(d), d.pc \in Creating
    PROVE  Creation(d) /\ Base(d)
<1>1. Base(d) /\ d.action = "backup"
  BY SoundBase DEF Sound, OpenInv
<1> QED
  BY <1>1 DEF Sound, OpenInv, PendingInv, FactorInv, PlanInv, Creation, Creating, Base

\* It is a sound dialogue but for the question that is open.
LEMMA CreationBase ==
    ASSUME NEW d, Creation(d)
    PROVE  Base(d)
  BY DEF Creation, Base

\* The keys of new slots are used when every factor was given and every prompt
\* of the plan was shown.
LEMMA CreateGood ==
    ASSUME NEW d, Creation(d), Given(d), d.asked = d.shown.prompts,
           CreatesRecoveryCode(d.cfg) =>
              /\ \E i \in DOMAIN d.slots : d.slots[i].type = "recovery"
              /\ <<NewId, "code">> \in d.given
    PROVE  Good(CreateKeySet(d))
<1> DEFINE ks == [id |-> NewId, mode |-> d.cfg.mode, slots |-> d.slots]
           e == [d EXCEPT !.pc = "unlocked", !.masters = {NewId}, !.keys = ks, !.need = <<>>,
                          !.live = {<<"master", NewId>>}, !.slots = <<>>, !.new = None]
<1>1. Good(End(d, "internal"))
  BY CreationBase, EndGood
<1>2. /\ DOMAIN e = DOMAIN Idle /\ e.pc = "unlocked" /\ e.asked = d.asked /\ e.need = <<>>
      /\ e.action = d.action /\ e.tried = d.tried /\ e.keys = ks /\ e.given = d.given
      /\ e.cfg = d.cfg /\ e.current = d.current /\ e.shown = d.shown
      /\ e.pending = d.pending /\ e.masters = {NewId}
  BY Fields DEF Creation
<1>3. (CreateKeySet(d) = e /\ Validate(ks)) \/ CreateKeySet(d) = End(d, "internal")
  BY DEF CreateKeySet
<1>4. ks.id = NewId /\ ks.mode = d.cfg.mode /\ ks.slots = d.slots
  OBVIOUS
<1> HIDE DEF e, ks
<1>5. ASSUME Validate(ks) PROVE Good(e)
  <2>2. OpenInv(e) /\ PendingInv(e) /\ LiveInv(e)
    BY <1>2 DEF Creation, OpenInv, PendingInv, LiveInv, Existing, Creating
  <2>3. FactorInv(e)
    <3>1. Proven(e, NewId, ks)
      BY <1>2, <1>4 DEF Given, Proven
    <3> QED
      BY <1>2, <1>4, <3>1 DEF FactorInv
  <2>4. PlanInv(e)
    <3>1. CreatesRecoveryCode(e.cfg) => HasSlotType(ks, "recovery") /\ <<NewId, "code">> \in e.given
      BY <1>2, <1>4 DEF HasSlotType, SlotIndexes
    <3> QED
      BY <1>2, <1>4, <1>5, <3>1 DEF Creation, PlanInv, Existing, Creating
  <2>5. Prompted(e, e.asked)
    BY <1>2 DEF Prompted, PromptsOf
  <2> QED
    BY <2>2, <2>3, <2>4, <2>5, SameQuestion DEF Sound
<1> QED
  BY <1>1, <1>3, <1>5

\* The recovery code follows the factors of the mode where one is created.
LEMMA AddRecoveryGood ==
    ASSUME NEW d, Creation(d), Given(d), d.slots = <<d.slots[1]>>,
           d.asked = CASE d.cfg.mode = 1 -> <<"newpassword">>
                       [] d.cfg.mode = 2 -> <<"newpassword", "register">>
                       [] d.cfg.mode = 3 -> <<"register">>
    PROVE  Good(AddRecovery(d))
<1> DEFINE e == [d EXCEPT !.pc = "showcode", !.live = @ \cup {<<"code", NewId>>}]
<1>1. d.cfg \in [mode : AuthMode, recovery : BOOLEAN] /\ d.cfg.mode \in {1, 2, 3}
  BY DEF Creation, AuthMode
<1>2. /\ DOMAIN e = DOMAIN Idle /\ e.pc = "showcode" /\ e.asked = d.asked /\ e.need = d.need
      /\ e.action = d.action /\ e.tried = d.tried /\ e.keys = d.keys /\ e.given = d.given
      /\ e.cfg = d.cfg /\ e.current = d.current /\ e.shown = d.shown
      /\ e.pending = d.pending /\ e.masters = d.masters /\ e.slots = d.slots
  BY Fields DEF Creation
<1>3. AddRecovery(d) = IF CreatesRecoveryCode(d.cfg) THEN e ELSE CreateKeySet(d)
  BY DEF AddRecovery
<1> HIDE DEF e
<1>4. ASSUME ~CreatesRecoveryCode(d.cfg) PROVE Good(CreateKeySet(d))
  <2>1. d.cfg.mode = 1 /\ ~d.cfg.recovery
    BY <1>1, <1>4 DEF CreatesRecoveryCode, UsesYubiKey
  <2>2. d.shown.prompts = <<"newpassword">>
    BY <1>1, <2>1, NewPrompts DEF Creation
  <2> QED
    BY <1>4, <2>1, <2>2, CreateGood
<1>5. ASSUME CreatesRecoveryCode(d.cfg) PROVE Good(e)
  <2>1. OpenInv(e) /\ PendingInv(e) /\ LiveInv(e)
    BY <1>2 DEF Creation, OpenInv, PendingInv, LiveInv, Existing, Creating, Asking
  <2>2. FactorInv(e)
    BY <1>2, <1>5 DEF Creation, Given, FactorInv
  <2>3. PlanInv(e)
    BY <1>2 DEF Creation, PlanInv, Existing
  <2>4. Prompted(e, Remembered(e))
    <3>1. Remembered(e) = Append(d.asked, "showcode")
      <4>1. /\ d.asked # <<>> /\ d.asked[Len(d.asked)] # "showcode"
        BY <1>1
      <4> QED
        BY <1>2, <4>1 DEF Remembered, Asking, Creation
    <3>2. CASE d.cfg.mode = 1
      <4>1. d.asked = <<"newpassword">>
        BY <3>2
      <4>2. Append(<<"newpassword">>, "showcode") = <<"newpassword", "showcode">>
        BY Prompts, Zenon
      <4> QED
        BY <3>1, <4>1, <4>2, <3>2, <1>2 DEF Prompted, PromptsOf
    <3>3. CASE d.cfg.mode = 2
      <4>1. d.asked = <<"newpassword", "register">>
        BY <3>3
      <4>2. Append(<<"newpassword", "register">>, "showcode") = <<"newpassword", "register", "showcode">>
        BY ThirdPrompt, Zenon
      <4> QED
        BY <3>1, <4>1, <4>2, <3>3, <1>2 DEF Prompted, PromptsOf
    <3>4. CASE d.cfg.mode = 3
      <4>1. d.asked = <<"register">>
        BY <3>4
      <4>2. Append(<<"register">>, "showcode") = <<"register", "showcode">>
        BY Prompts, Zenon
      <4> QED
        BY <3>1, <4>1, <4>2, <3>4, <1>2 DEF Prompted, PromptsOf
    <3> QED
      BY <1>1, <3>2, <3>3, <3>4
  <2> QED
    BY <2>1, <2>2, <2>3, <2>4 DEF Good, Sound
<1> QED
  BY <1>3, <1>4, <1>5

\* Every answer to a question about new keys keeps the invariant.
LEMMA NewPasswordGood ==
    ASSUME NEW d, NEW answer, Sound(d), Prompted(d, d.asked), d.pc = "newpassword"
    PROVE  Good(NewPassword(d, answer))
<1> DEFINE a == [d EXCEPT !.attempt = @ + 1]
           e == [d EXCEPT !.live = @ \cup {<<"password", NewId>>},
                          !.given = @ \cup {<<NewId, "password">>}]
           s == [e EXCEPT !.slots = <<Slot("password", Combine(answer, None), None)>>]
           r == [e EXCEPT !.pc = "register", !.new = answer]
<1>1. Creation(d) /\ Base(d) /\ d.cfg.mode \in {1, 2}
  BY CreatingFacts DEF Creating, Creation, Sound, FactorInv, UsesPassword, AuthMode
<1>2. d.asked = <<"newpassword">>
  BY <1>1 DEF Prompted, PromptsOf, Creating, Creation
<1>3. /\ DOMAIN a = DOMAIN Idle /\ a.asked = d.asked /\ a.pc = d.pc
      /\ a.action = d.action /\ a.need = d.need /\ a.tried = d.tried /\ a.keys = d.keys
      /\ a.cfg = d.cfg /\ a.current = d.current /\ a.shown = d.shown /\ a.live = d.live
      /\ a.pending = d.pending /\ a.masters = d.masters /\ a.given = d.given
  BY <1>1, Fields DEF Base
<1>4. /\ DOMAIN s = DOMAIN Idle /\ s.asked = d.asked
      /\ s.action = d.action /\ s.need = d.need /\ s.tried = d.tried /\ s.keys = d.keys
      /\ s.cfg = d.cfg /\ s.current = d.current /\ s.shown = d.shown
      /\ s.pending = d.pending /\ s.masters = d.masters
      /\ s.given = d.given \cup {<<NewId, "password">>}
      /\ s.slots = <<Slot("password", Combine(answer, None), None)>>
  BY <1>1, Fields DEF Base
<1>5. /\ DOMAIN r = DOMAIN Idle /\ r.asked = d.asked /\ r.pc = "register"
      /\ r.action = d.action /\ r.need = d.need /\ r.tried = d.tried /\ r.keys = d.keys
      /\ r.cfg = d.cfg /\ r.current = d.current /\ r.shown = d.shown
      /\ r.pending = d.pending /\ r.masters = d.masters
      /\ r.given = d.given \cup {<<NewId, "password">>}
  BY <1>1, Fields DEF Base
<1>6. \/ \E error : NewPassword(d, answer) = End(d, error)
      \/ NewPassword(d, answer) = a
      \/ d.cfg.mode = 1 /\ NewPassword(d, answer) = AddRecovery(s)
      \/ d.cfg.mode # 1 /\ NewPassword(d, answer) = r
  BY <1>1, Fields DEF NewPassword, Base
<1> HIDE DEF a, e, s, r
<1>7. \A error : Good(End(d, error))
  BY <1>1, EndGood
<1>8. Good(a)
  <2>1. OpenInv(a) /\ PendingInv(a) /\ LiveInv(a)
    BY <1>3 DEF Sound, OpenInv, PendingInv, LiveInv, Existing
  <2>2. FactorInv(a) /\ PlanInv(a)
    BY <1>3 DEF Sound, FactorInv, PlanInv, Proven
  <2>3. Prompted(a, a.asked)
    BY <1>3 DEF Prompted, PromptsOf
  <2> QED
    BY <2>1, <2>2, <2>3, SameQuestion DEF Sound
<1>9. ASSUME d.cfg.mode = 1 PROVE Good(AddRecovery(s))
  <2>1. Creation(s) /\ Given(s)
    BY <1>1, <1>4, <1>9 DEF Creation, Given, UsesYubiKey
  <2>2. s.slots = <<s.slots[1]>>
    BY <1>4
  <2> QED
    BY <1>2, <1>4, <1>9, <2>1, <2>2, AddRecoveryGood
<1>10. ASSUME d.cfg.mode # 1 PROVE Good(r)
  <2>1. OpenInv(r) /\ PendingInv(r) /\ LiveInv(r) /\ PlanInv(r)
    BY <1>1, <1>5 DEF Creation, OpenInv, PendingInv, LiveInv, PlanInv, Existing, Creating, Asking
  <2>2. FactorInv(r)
    BY <1>1, <1>5, <1>10 DEF Creation, FactorInv, UsesYubiKey
  <2>3. Prompted(r, Remembered(r))
    <3>1. <<"newpassword">> # <<>> /\ <<"newpassword">>[Len(<<"newpassword">>)] # "register"
      OBVIOUS
    <3>2. Remembered(r) = Append(<<"newpassword">>, "register")
      BY <1>1, <1>2, <1>5, <3>1 DEF Remembered, Asking, Creation
    <3>3. Remembered(r) = <<"newpassword", "register">>
      BY <3>2, Prompts, Zenon
    <3> QED
      BY <1>1, <1>5, <1>10, <3>3 DEF Prompted, PromptsOf
  <2> QED
    BY <2>1, <2>2, <2>3 DEF Good, Sound
<1> QED
  BY <1>6, <1>7, <1>8, <1>9, <1>10

\* A YubiKey is registered after the password of its mode.
LEMMA RegisterGood ==
    ASSUME NEW d, NEW y, NEW result, Sound(d), Prompted(d, d.asked), d.pc = "register"
    PROVE  Good(RegisterYubiKey(d, y, result))
<1> DEFINE slot == Slot(RegularSlotType(d.cfg.mode), CombineWithPassword(d.new, y, NewId), None)
           e == [d EXCEPT !.live = @ \cup {<<"slot", NewId>>},
                          !.given = @ \cup {<<NewId, "yubikey">>}, !.slots = <<slot>>]
<1>1. Creation(d) /\ Base(d) /\ d.cfg.mode \in {2, 3}
  BY CreatingFacts DEF Creating, Creation, Sound, FactorInv, UsesYubiKey
<1>2. d.asked = IF d.cfg.mode = 2 THEN <<"newpassword", "register">> ELSE <<"register">>
  BY <1>1 DEF Prompted, PromptsOf, Creating, Creation
<1>3. /\ DOMAIN e = DOMAIN Idle /\ e.asked = d.asked
      /\ e.action = d.action /\ e.need = d.need /\ e.tried = d.tried /\ e.keys = d.keys
      /\ e.cfg = d.cfg /\ e.current = d.current /\ e.shown = d.shown
      /\ e.pending = d.pending /\ e.masters = d.masters /\ e.slots = <<slot>>
      /\ e.given = d.given \cup {<<NewId, "yubikey">>}
  BY <1>1, Fields DEF Base
<1>4. \/ \E error : RegisterYubiKey(d, y, result) = End(d, error)
      \/ RegisterYubiKey(d, y, result) = AddRecovery(e)
  BY DEF RegisterYubiKey
<1> HIDE DEF e, slot
<1>5. \A error : Good(End(d, error))
  BY <1>1, EndGood
<1>6. Good(AddRecovery(e))
  <2>1. Creation(e)
    BY <1>1, <1>3 DEF Creation
  <2>2. Given(e)
    BY <1>3 DEF Given, Sound, FactorInv
  <2>3. e.slots = <<e.slots[1]>>
    BY <1>3
  <2> QED
    BY <1>1, <1>2, <1>3, <2>1, <2>2, <2>3, AddRecoveryGood
<1> QED
  BY <1>4, <1>5, <1>6

\* Storing the recovery code is the last prompt; the keys then have every slot.
LEMMA ShowCodeGood ==
    ASSUME NEW d, NEW code, NEW stored, Sound(d), Prompted(d, d.asked), d.pc = "showcode"
    PROVE  Good(ShowRecoveryCode(d, code, stored))
<1> DEFINE slot == Slot("recovery", Combine(code, None), code.check)
           e == [d EXCEPT !.slots = Append(@, slot), !.given = @ \cup {<<NewId, "code">>}]
<1>1. Creation(d) /\ Base(d) /\ d.cfg.mode \in {1, 2, 3}
  BY CreatingFacts DEF Creating, Creation, AuthMode
<1>2. /\ DOMAIN e = DOMAIN Idle /\ e.asked = d.asked
      /\ e.action = d.action /\ e.need = d.need /\ e.tried = d.tried /\ e.keys = d.keys
      /\ e.cfg = d.cfg /\ e.current = d.current /\ e.shown = d.shown
      /\ e.pending = d.pending /\ e.masters = d.masters /\ e.slots = Append(d.slots, slot)
      /\ e.given = d.given \cup {<<NewId, "code">>}
  BY <1>1, Fields DEF Base
<1>3. slot.type = "recovery"
  BY DEF Slot
<1>4. ShowRecoveryCode(d, code, stored) = End(d, "cancelled") \/
      ShowRecoveryCode(d, code, stored) = CreateKeySet(e)
  BY DEF ShowRecoveryCode
<1> HIDE DEF e, slot
<1>5. Good(End(d, "cancelled"))
  BY <1>1, EndGood
<1>6. Good(CreateKeySet(e))
  <2>1. Creation(e)
    BY <1>1, <1>2 DEF Creation
  <2>2. Given(e)
    BY <1>2 DEF Given, Sound, FactorInv
  <2>3. \E i \in DOMAIN e.slots : e.slots[i].type = "recovery"
    <3>1. d.slots = <<d.slots[1]>>
      BY DEF Sound, FactorInv
    <3>2. PICK x : d.slots = <<x>>
      BY <3>1
    <3>3. e.slots = Append(<<x>>, slot)
      BY <1>2, <3>2
    <3>4. e.slots = <<x, slot>>
      BY <3>3, Prompts
    <3> QED
      BY <1>3, <3>4
  <2>4. e.asked = e.shown.prompts
    <3>1. CreatesRecoveryCode(d.cfg)
      BY DEF Sound, FactorInv
    <3>2. d.asked = PromptsOf(d) /\ d.shown.prompts = KeyPlan(d.cfg, None)
      BY <1>1 DEF Creation, Prompted, Creating
    <3>3. d.cfg.mode = 1 => d.cfg.recovery
      BY <3>1 DEF CreatesRecoveryCode, UsesYubiKey
    <3>4. CASE d.cfg.mode = 1
      BY <1>1, <1>2, <3>2, <3>3, <3>4, NewPrompts DEF Creation, PromptsOf
    <3>5. CASE d.cfg.mode = 2
      BY <1>1, <1>2, <3>2, <3>5, NewPrompts DEF Creation, PromptsOf
    <3>6. CASE d.cfg.mode = 3
      BY <1>1, <1>2, <3>2, <3>6, NewPrompts DEF Creation, PromptsOf
    <3> QED
      BY <1>1, <3>4, <3>5, <3>6
  <2> QED
    BY <1>2, <2>1, <2>2, <2>3, <2>4, CreateGood
<1> QED
  BY <1>4, <1>5, <1>6

-----------------------------------------------------------------------------
(* The operation.                                                          *)

\* The record before an operation starts.
LEMMA IdleFields ==
    /\ Idle.pc = "idle" /\ Idle.action = "none" /\ Idle.need = <<>> /\ Idle.pending = None
    /\ Idle.masters = {} /\ Idle.live = {} /\ Idle.tried = {} /\ Idle.asked = <<>>
  BY DEF Idle

\* Nothing is asked before an operation starts.
LEMMA DialogueInvInit == DialogueInit => DialogueInv
<1> SUFFICES ASSUME DialogueInit PROVE DialogueInv
  OBVIOUS
<1>1. dialogue = Idle
  BY DEF DialogueInit
<1>2. OpenInv(Idle) /\ PendingInv(Idle) /\ FactorInv(Idle) /\ LiveInv(Idle)
  BY IdleFields DEF OpenInv, PendingInv, FactorInv, LiveInv, Existing, Creating
<1>3. PlanInv(Idle) /\ Prompted(Idle, Idle.asked)
  BY IdleFields DEF PlanInv, Prompted
<1> QED
  BY <1>1, <1>2, <1>3 DEF DialogueInv, Sound

\* The first question of a restore or verification, and the first plan.
LEMMA StartReadInv ==
    ASSUME StartRead
    PROVE  DialogueInv'
<1>1. PICK n \in 1 .. MaxSets : \E sets \in [1 .. n -> Stored] :
         Becomes(NextKeySet([Idle EXCEPT !.action = "restore", !.need = sets]))
  BY DEF StartRead
<1>2. PICK sets \in [1 .. n -> Stored] :
         Becomes(NextKeySet([Idle EXCEPT !.action = "restore", !.need = sets]))
  BY <1>1
<1> DEFINE d == [Idle EXCEPT !.action = "restore", !.need = sets]
<1>3. /\ DOMAIN d = DOMAIN Idle /\ d.action = "restore" /\ d.need = sets /\ d.tried = {}
      /\ d.masters = {} /\ d.live = {} /\ d.pending = None
  BY Fields, IdleFields
<1> HIDE DEF d
<1>4. sets \in Seq(Stored)
  BY <1>2, UnlockAssumption
<1>5. Base(d) /\ MastersProven(d)
  BY <1>3, <1>4 DEF Base, MastersProven
<1>6. Good(NextKeySet(d))
  BY <1>3, <1>5, NextKeySetGood
<1> QED
  BY <1>2, <1>6, BecomesInv DEF d

\* The first plan of a backup, or its end when the plan is blocked.
LEMMA StartBackupInv ==
    ASSUME StartBackup
    PROVE  DialogueInv'
<1>1. PICK mode \in AuthMode, recovery \in BOOLEAN, newest \in Stored \cup {None},
           sources \in Sources, checked \in Free, free \in Free, connected \in 1 .. 2 :
         LET cfg == [mode |-> mode, recovery |-> recovery]
             current == KeysFor(cfg, newest) IN
         \E diffs \in SUBSET Backed(sources) :
            /\ diffs # {} => current # None
            /\ Becomes(ChoosePlan([Idle EXCEPT !.action = "backup", !.cfg = cfg,
                                               !.current = current,
                                               !.sources = sources, !.diffs = diffs],
                                  "automatic", checked, free, connected))
  BY Zenon DEF StartBackup
<1> DEFINE cfg == [mode |-> mode, recovery |-> recovery]
           current == KeysFor(cfg, newest)
           d(diffs) == [Idle EXCEPT !.action = "backup", !.cfg = cfg, !.current = current,
                                    !.sources = sources, !.diffs = diffs]
<1>2. PICK diffs : Becomes(ChoosePlan(d(diffs), "automatic", checked, free, connected))
  BY <1>1
<1>3. current \in Stored \cup {None}
  BY DEF KeysFor
<1> HIDE DEF current
<1>4. /\ DOMAIN d(diffs) = DOMAIN Idle /\ d(diffs).action = "backup" /\ d(diffs).need = <<>>
      /\ d(diffs).tried = {} /\ d(diffs).cfg = cfg /\ d(diffs).current = current
      /\ d(diffs).masters = {} /\ d(diffs).live = {} /\ d(diffs).pending = None
  BY Fields, IdleFields
<1> HIDE DEF d
<1>5. Empty(d(diffs))
  BY <1>3, <1>4 DEF Empty
<1> QED
  BY <1>2, <1>5, ChoosePlanGood, BecomesInv

\* Every answer keeps the invariant.
LEMMA StepInv == DialogueInv /\ Step => DialogueInv'
<1> SUFFICES ASSUME DialogueInv, Step PROVE DialogueInv'
  OBVIOUS
<1> USE DEF DialogueInv
<1>1. CASE AnswerPlan
  BY <1>1, ConfirmGood, BecomesInv DEF AnswerPlan
<1>2. CASE AnswerRefusal
  BY <1>2, RefusalGood, BecomesInv DEF AnswerRefusal
<1>3. CASE AnswerChoice
  BY <1>3, ChooseGood, BecomesInv DEF AnswerChoice
<1>4. CASE PendingAnswers
  BY <1>4, TakePendingGood, BecomesInv DEF PendingAnswers
<1>5. CASE AnswerPassword
  BY <1>5, TypedGood, BecomesInv DEF AnswerPassword
<1>6. CASE AnswerCode
  BY <1>6, RecoveryGood, BecomesInv DEF AnswerCode
<1>7. CASE TouchYubiKey
  BY <1>7, DeriveGood, BecomesInv DEF TouchYubiKey
<1>8. CASE AnswerNewPassword
  BY <1>8, NewPasswordGood, BecomesInv DEF AnswerNewPassword
<1>9. CASE TouchNewYubiKey
  BY <1>9, RegisterGood, BecomesInv DEF TouchNewYubiKey
<1>10. CASE AnswerShownCode
  BY <1>10, ShowCodeGood, BecomesInv DEF AnswerShownCode
<1>11. CASE Finish
  BY <1>11, SoundBase, EndGood, BecomesInv DEF Finish
<1> QED
  BY <1>1, <1>2, <1>3, <1>4, <1>5, <1>6, <1>7, <1>8, <1>9, <1>10, <1>11 DEF Step

\* The inductive invariant of the dialogue holds in every run.
THEOREM DialogueInvariant == DialogueSpec => []DialogueInv
<1>1. DialogueInv /\ [DialogueNext]_dialogue => DialogueInv'
  <2> SUFFICES ASSUME DialogueInv, [DialogueNext]_dialogue PROVE DialogueInv'
    OBVIOUS
  <2>1. CASE Ended \/ UNCHANGED dialogue
    BY <2>1 DEF Ended, DialogueInv
  <2> QED
    BY <2>1, StartReadInv, StartBackupInv, StepInv DEF DialogueNext
<1> QED
  BY <1>1, DialogueInvInit, PTL DEF DialogueSpec

\* No master key is held that was not proven with every factor of its mode or,
\* for a restore or verification, with its recovery code, whatever the answers.
THEOREM MasterKeysAreProven == DialogueSpec => []KeysProven
<1>1. DialogueInv => KeysProven
  <2> SUFFICES ASSUME DialogueInv, NEW id \in dialogue.masters PROVE Proven(dialogue, id, Known(id))
    BY DEF KeysProven
  <2>1. PICK ks \in IF id = NewId THEN {dialogue.keys} ELSE Stored :
           ks.id = id /\ Proven(dialogue, id, ks)
    BY DEF DialogueInv, Sound, FactorInv
  <2>2. Known(id) = ks
    <3>1. CASE id = NewId
      BY <2>1, <3>1 DEF Known
    <3>2. CASE id # NewId
      <4>1. \A other \in Stored : other.id = id => other = ks
        BY <2>1, <3>2, StoredAssumption
      <4>2. (CHOOSE other \in Stored : other.id = id) = ks
        BY <2>1, <3>2, <4>1
      <4> QED
        BY <3>2, <4>2 DEF Known
    <3> QED
      BY <3>1, <3>2
  <2> QED
    BY <2>1, <2>2
<1> QED
  BY <1>1, DialogueInvariant, PTL

\* However an operation ends, no secret is left in memory, and while it asks for
\* existing keys there are only the master keys it has and the YubiKey secret it
\* asks a password for.
THEOREM SecretsAreZeroed == DialogueSpec => []SecretsZeroed
<1>1. DialogueInv => SecretsZeroed
  BY DEF DialogueInv, Sound, LiveInv, SecretsZeroed, Existing
<1> QED
  BY <1>1, DialogueInvariant, PTL

\* A password is tried only on the key set it was typed for.
THEOREM PasswordsStayWithTheirKeys == DialogueSpec => []PasswordForItsKeys
<1>1. DialogueInv => PasswordForItsKeys
  BY DEF DialogueInv, Sound, PendingInv, PasswordForItsKeys
<1> QED
  BY <1>1, DialogueInvariant, PTL

\* A backup has the keys of the plan the user confirmed, after exactly the
\* prompts it announced.
THEOREM BackupKeysArePlanned == DialogueSpec => []KeysAsPlanned
<1>1. DialogueInv => KeysAsPlanned
  BY DEF DialogueInv, Sound, PlanInv, Prompted, PromptsOf, KeysAsPlanned, CreatesRecoveryCode
<1> QED
  BY <1>1, DialogueInvariant, PTL

-----------------------------------------------------------------------------
(* The plan that is shown.                                                 *)

\* Record e has the operation, the sources and the shown plan of d.
Same(d, e) ==
    /\ DOMAIN e = DOMAIN Idle
    /\ e.action = d.action /\ e.sources = d.sources /\ e.diffs = d.diffs /\ e.shown = d.shown

\* The plan a dialogue shows stays the same over two steps when it does over each.
LEMMA SameIsTransitive ==
    ASSUME NEW d, NEW e, NEW f, Same(d, e), Same(e, f)
    PROVE  Same(d, f)
  BY DEF Same

\* No answer after the plan changes it: the parts of unlock.KeySet ...
LEMMA EndSame ==
    ASSUME NEW d, DOMAIN d = DOMAIN Idle
    PROVE  /\ \A error : Same(d, End(d, error)) /\ Same(d, Refused(d, error))
           /\ Same(d, Again(d)) /\ Same(d, Regular(d))
<1>1. \A error : Same(d, End(d, error))
  BY Fields DEF Same, End
<1>2. \A error : Same(d, Refused(d, error))
  BY <1>1, Fields DEF Same, Refused
<1>3. Same(d, Again(d))
  BY <1>2, Fields DEF Same, Again
<1>4. Same(d, Regular(d))
  BY <1>1, Fields DEF Same, Regular
<1> QED
  BY <1>1, <1>2, <1>3, <1>4

\* Opening a key set, and going on to the next, leaves the plan alone ...
LEMMA KeySetSame ==
    ASSUME NEW d, DOMAIN d = DOMAIN Idle
    PROVE  Same(d, KeySet(d)) /\ Same(d, NextKeySet(d))
<1>1. ASSUME NEW c, DOMAIN c = DOMAIN Idle PROVE Same(c, KeySet(c))
  <2> DEFINE e == [c EXCEPT !.attempt = 1]
             f == [e EXCEPT !.pc = "choose"]
  <2>1. Same(c, e) /\ Same(e, f) /\ DOMAIN e = DOMAIN Idle
    BY <1>1, Fields DEF Same
  <2>2. KeySet(c) = f \/ KeySet(c) = Regular(e)
    BY DEF KeySet
  <2> HIDE DEF e, f
  <2> QED
    BY <2>1, <2>2, EndSame, SameIsTransitive
<1> DEFINE g(i) == [d EXCEPT !.need = SubSeq(@, i, Len(@))]
           u == [d EXCEPT !.need = <<>>, !.pc = "unlocked"]
<1>2. Same(d, u) /\ \A i : Same(d, g(i)) /\ DOMAIN g(i) = DOMAIN Idle
  BY Fields DEF Same
<1>3. NextKeySet(d) = u \/ \E i : NextKeySet(d) = KeySet(g(i))
  BY DEF NextKeySet
<1> HIDE DEF g, u
<1> QED
  BY <1>1, <1>2, <1>3, SameIsTransitive

\* ... and so does a master key that was unlocked ...
LEMMA UnlockedSame ==
    ASSUME NEW d, NEW factors, DOMAIN d = DOMAIN Idle
    PROVE  Same(d, Unlocked(d, factors))
<1> DEFINE id == Current(d).id
           e == [d EXCEPT !.masters = @ \cup {id}, !.yubi = None,
                          !.live = {b \in @ : b[1] = "master"} \cup {<<"master", id>>},
                          !.given = @ \cup {<<id, f>> : f \in factors},
                          !.keys = IF d.action = "backup" THEN Current(d) ELSE @]
<1>1. Same(d, e) /\ DOMAIN e = DOMAIN Idle
  BY Fields DEF Same
<1>2. Unlocked(d, factors) = NextKeySet(e)
  BY DEF Unlocked
<1> HIDE DEF e
<1> QED
  BY <1>1, <1>2, KeySetSame, SameIsTransitive

\* ... a password that was tried ...
LEMMA TryPasswordSame ==
    ASSUME NEW d, NEW typed, DOMAIN d = DOMAIN Idle
    PROVE  Same(d, TryPassword(d, typed))
<1> DEFINE e == [d EXCEPT !.pc = "password", !.tried = @ \cup {<<typed.for, Current(d).id>>}]
<1>1. Same(d, e) /\ DOMAIN e = DOMAIN Idle
  BY Fields DEF Same
<1>2. TryPassword(d, typed) = Again(e) \/ \E factors : TryPassword(d, typed) = Unlocked(e, factors)
  BY DEF TryPassword
<1> HIDE DEF e
<1> QED
  BY <1>1, <1>2, EndSame, UnlockedSame, SameIsTransitive

\* ... the answers to its questions ...
LEMMA AnswersSame ==
    ASSUME NEW d, DOMAIN d = DOMAIN Idle
    PROVE  /\ \A answer, pw : Same(d, ChooseUnlockMethod(d, answer, pw))
           /\ Same(d, TakePending(d)) /\ \A pw : Same(d, Typed(d, pw))
           /\ \A y, result : Same(d, DeriveYubiKeySecret(d, y, result))
           /\ \A code : Same(d, RecoveryCode(d, code))
<1>1. ASSUME NEW answer, NEW pw PROVE Same(d, ChooseUnlockMethod(d, answer, pw))
  <2> DEFINE c == [d EXCEPT !.pc = "code", !.pending = None]
             e == [d EXCEPT !.pending = IF Current(d).mode = 1
                                        THEN [pw |-> pw, for |-> Current(d).id] ELSE None]
  <2>1. Same(d, c) /\ Same(d, e) /\ DOMAIN e = DOMAIN Idle
    BY Fields DEF Same
  <2>2. ChooseUnlockMethod(d, answer, pw) \in {End(d, "cancelled"), c, Regular(e)}
    BY DEF ChooseUnlockMethod
  <2> HIDE DEF c, e
  <2> QED
    BY <2>1, <2>2, EndSame, SameIsTransitive
<1>2. Same(d, TakePending(d))
  <2> DEFINE e == [d EXCEPT !.pending = None]
  <2>1. Same(d, e) /\ DOMAIN e = DOMAIN Idle
    BY Fields DEF Same
  <2>2. TakePending(d) = TryPassword(e, d.pending)
    BY DEF TakePending
  <2> HIDE DEF e
  <2> QED
    BY <2>1, <2>2, TryPasswordSame, SameIsTransitive
<1>3. ASSUME NEW pw PROVE Same(d, Typed(d, pw))
  BY EndSame, TryPasswordSame DEF Typed
<1>4. ASSUME NEW y, NEW result PROVE Same(d, DeriveYubiKeySecret(d, y, result))
  <2> DEFINE ks == Current(d)
             hmac == IF result = "other" THEN HmacSecret(y, None) ELSE HmacSecret(y, ks.id)
             e == [d EXCEPT !.yubi = hmac, !.live = @ \cup {<<"yubi", ks.id>>}]
             p == [e EXCEPT !.pc = "password"]
  <2> HIDE DEF hmac
  <2>1. Same(d, e) /\ DOMAIN e = DOMAIN Idle /\ Same(e, p)
    BY Fields DEF Same
  <2>2. DeriveYubiKeySecret(d, y, result) \in
           {End(d, "required"), Refused(d, "yubikey"), p, Refused(e, "yubikey"), Unlocked(e, {"yubikey"})}
    BY DEF DeriveYubiKeySecret, hmac
  <2> HIDE DEF e, p
  <2> QED
    BY <2>1, <2>2, EndSame, UnlockedSame, SameIsTransitive
<1>5. ASSUME NEW code PROVE Same(d, RecoveryCode(d, code))
  <2>1. RecoveryCode(d, code) \in {End(d, "cancelled"), Again(d), Unlocked(d, {"code"})}
    BY DEF RecoveryCode
  <2> QED
    BY <2>1, EndSame, UnlockedSame
<1> QED
  BY <1>1, <1>2, <1>3, <1>4, <1>5

\* ... and the keys a backup gets or creates.
LEMMA ObtainSame ==
    ASSUME NEW d, DOMAIN d = DOMAIN Idle
    PROVE  Same(d, ObtainKeys(d))
<1> DEFINE e == [d EXCEPT !.asked = <<>>]
           f == [e EXCEPT !.need = <<d.shown.keys>>]
<1>1. Same(d, e) /\ DOMAIN e = DOMAIN Idle /\ Same(e, f) /\ DOMAIN f = DOMAIN Idle
  BY Fields DEF Same
<1>2. ObtainKeys(d) \in {KeySet(f), EnrollKeySet(e)}
  BY DEF ObtainKeys
<1> HIDE DEF e, f
<1>3. Same(e, EnrollKeySet(e))
  BY <1>1, Fields DEF Same, EnrollKeySet
<1> QED
  BY <1>1, <1>2, <1>3, KeySetSame, SameIsTransitive

\* ... new keys and a recovery code ...
LEMMA CreateSame ==
    ASSUME NEW d, DOMAIN d = DOMAIN Idle
    PROVE  Same(d, CreateKeySet(d)) /\ Same(d, AddRecovery(d))
<1>1. Same(d, CreateKeySet(d))
  <2> DEFINE ks == [id |-> NewId, mode |-> d.cfg.mode, slots |-> d.slots]
             e == [d EXCEPT !.pc = "unlocked", !.masters = {NewId}, !.keys = ks, !.need = <<>>,
                            !.live = {<<"master", NewId>>}, !.slots = <<>>, !.new = None]
  <2> HIDE DEF ks
  <2>1. Same(d, e)
    BY Fields DEF Same
  <2>2. CreateKeySet(d) \in {e, End(d, "internal")}
    BY DEF CreateKeySet, ks
  <2> QED
    BY <2>1, <2>2, EndSame
<1> DEFINE s == [d EXCEPT !.pc = "showcode", !.live = @ \cup {<<"code", NewId>>}]
<1>2. Same(d, s)
  BY Fields DEF Same
<1>3. AddRecovery(d) \in {s, CreateKeySet(d)}
  BY DEF AddRecovery
<1> QED
  BY <1>1, <1>2, <1>3

\* ... and each dialogue of enrolment.
LEMMA EnrollSame ==
    ASSUME NEW d, DOMAIN d = DOMAIN Idle
    PROVE  /\ \A answer : Same(d, NewPassword(d, answer))
           /\ \A y, result : Same(d, RegisterYubiKey(d, y, result))
           /\ \A code, stored : Same(d, ShowRecoveryCode(d, code, stored))
<1>1. ASSUME NEW answer PROVE Same(d, NewPassword(d, answer))
  <2> DEFINE a == [d EXCEPT !.attempt = @ + 1]
             e == [d EXCEPT !.live = @ \cup {<<"password", NewId>>},
                            !.given = @ \cup {<<NewId, "password">>}]
             f == [e EXCEPT !.slots = <<Slot("password", Combine(answer, None), None)>>]
             g == [e EXCEPT !.pc = "register", !.new = answer]
  <2>1. Same(d, a) /\ Same(d, e) /\ Same(e, f) /\ Same(e, g) /\ DOMAIN f = DOMAIN Idle
    BY Fields DEF Same
  <2>2. NewPassword(d, answer) \in {End(d, "cancelled"), a, End(d, "attempts"), AddRecovery(f), g}
    BY DEF NewPassword
  <2> HIDE DEF a, e, f, g
  <2> QED
    BY <2>1, <2>2, EndSame, CreateSame, SameIsTransitive
<1>2. ASSUME NEW y, NEW result PROVE Same(d, RegisterYubiKey(d, y, result))
  <2> DEFINE slot == Slot(RegularSlotType(d.cfg.mode), CombineWithPassword(d.new, y, NewId), None)
             e == [d EXCEPT !.live = @ \cup {<<"slot", NewId>>},
                            !.given = @ \cup {<<NewId, "yubikey">>}, !.slots = <<slot>>]
  <2> HIDE DEF slot
  <2>1. Same(d, e) /\ DOMAIN e = DOMAIN Idle
    BY Fields DEF Same
  <2>2. RegisterYubiKey(d, y, result) \in {End(d, "required"), End(d, "failed"), AddRecovery(e)}
    BY DEF RegisterYubiKey, slot
  <2> HIDE DEF e
  <2> QED
    BY <2>1, <2>2, EndSame, CreateSame, SameIsTransitive
<1>3. ASSUME NEW code, NEW stored PROVE Same(d, ShowRecoveryCode(d, code, stored))
  <2> DEFINE slot == Slot("recovery", Combine(code, None), code.check)
             e == [d EXCEPT !.slots = Append(@, slot), !.given = @ \cup {<<NewId, "code">>}]
  <2> HIDE DEF slot
  <2>1. Same(d, e) /\ DOMAIN e = DOMAIN Idle
    BY Fields DEF Same
  <2>2. ShowRecoveryCode(d, code, stored) \in {End(d, "cancelled"), CreateKeySet(e)}
    BY DEF ShowRecoveryCode, slot
  <2> HIDE DEF e
  <2> QED
    BY <2>1, <2>2, EndSame, CreateSame, SameIsTransitive
<1> QED
  BY <1>1, <1>2, <1>3

\* Remembering the prompts changes nothing else.
LEMMA BecomesShown ==
    ASSUME NEW e, DOMAIN e = DOMAIN Idle, ShownInv(e), Becomes(e)
    PROVE  EstimateInv'
<1> DEFINE f == [e EXCEPT !.asked = Remembered(e)]
<1>1. Same(e, f) /\ f.pc = e.pc
  BY Fields DEF Same
<1>2. dialogue' = f
  BY DEF Becomes
<1> HIDE DEF f
<1>3. ShownInv(f)
  BY <1>1 DEF ShownInv, Same, Blocked
<1> QED
  BY <1>2, <1>3 DEF EstimateInv

\* What has the plan of d keeps the invariant, when the operation ends or the
\* plan does not block.
LEMMA SameShown ==
    ASSUME NEW d, NEW e, ShownInv(d), Same(d, e),
           d.shown # None => ~Blocked(d) \/ e.pc = "ended"
    PROVE  ShownInv(e)
  BY DEF ShownInv, Same, Blocked

\* A new plan is estimated from the sources, and its block ends the backup
\* before it asks.
LEMMA ChoosePlanShown ==
    ASSUME NEW d, NEW mode, NEW checked \in Free, NEW free \in Free, NEW connected,
           DOMAIN d = DOMAIN Idle, d.action = "backup", d.sources \in Sources
    PROVE  LET e == ChoosePlan(d, mode, checked, free, connected) IN
           DOMAIN e = DOMAIN Idle /\ ShownInv(e)
<1> DEFINE keys == IF mode = "newkeys" THEN None ELSE d.current
           diffs == IF mode = "automatic" THEN d.diffs ELSE {}
           est == Estimate(MeasureSources(d.sources, d.diffs), diffs)
           several == SeveralYubiKeys(d.cfg, keys, connected)
           issues == BlockingIssues(d.sources, est, checked, several)
           plan == PlanShown(d.sources, est, checked, free, diffs, issues)
           shown == [mode |-> mode, keys |-> keys, prompts |-> KeyPlan(d.cfg, keys), plan |-> plan]
           e == [d EXCEPT !.pc = "plan", !.shown = shown]
<1>1. ChoosePlan(d, mode, checked, free, connected) \in {e, End(e, "blocked")}
  BY DEF ChoosePlan
<1>2. diffs \in {{}, d.diffs} /\ several \in BOOLEAN /\ shown.plan = plan
  BY DEF SeveralYubiKeys
<1> HIDE DEF several, shown, diffs
<1>3. /\ DOMAIN e = DOMAIN Idle /\ e.action = "backup" /\ e.pc = "plan"
      /\ e.sources = d.sources /\ e.diffs = d.diffs /\ e.shown = shown
  BY Fields
<1> HIDE DEF e
<1>4. ShownInv(e)
  BY <1>2, <1>3 DEF ShownInv
<1>5. Same(e, End(e, "blocked")) /\ End(e, "blocked").pc = "ended"
  BY <1>3, EndSame, EndFields
<1>6. ShownInv(End(e, "blocked"))
  BY <1>4, <1>5, SameShown
<1> QED
  BY <1>1, <1>3, <1>4, <1>5, <1>6 DEF Same

\* Every answer keeps the plan, or shows a new one.
LEMMA StepShown == DialogueInv /\ EstimateInv /\ Step => EstimateInv'
<1> SUFFICES ASSUME DialogueInv, EstimateInv, Step PROVE EstimateInv'
  OBVIOUS
<1> DEFINE d == dialogue
           c == [d EXCEPT !.turns = @ + 1]
<1>1. DOMAIN d = DOMAIN Idle /\ ShownInv(d)
  BY DEF DialogueInv, Sound, OpenInv, EstimateInv
<1>2. Same(d, c) /\ DOMAIN c = DOMAIN Idle
  BY <1>1, Fields DEF Same
<1>3. d.pc \in {"plan", "refused"} => d.action = "backup" /\ d.sources \in Sources
  BY <1>1 DEF DialogueInv, Sound, OpenInv, ShownInv
<1>4. d.pc \notin {"plan", "ended"} /\ d.shown # None => ~Blocked(d)
  BY <1>1 DEF ShownInv
<1> HIDE DEF c
<1>5. \A e : Same(d, e) /\ Becomes(e) /\ d.pc \notin {"plan", "ended"} => EstimateInv'
  BY <1>1, <1>4, SameShown, BecomesShown DEF Same
<1>6. \A error : Same(d, End(d, error)) /\ Becomes(End(d, error)) => EstimateInv'
  BY <1>1, EndFields, SameShown, BecomesShown DEF Same
<1>7. CASE AnswerPlan
  <2>1. PICK answer \in Buttons(d), checked \in Free, free \in Free, connected \in 1 .. 2 :
           Becomes(ConfirmBackupStart(d, answer, checked, free, connected))
    BY <1>7 DEF AnswerPlan
  <2>2. CASE answer = "cancel"
    BY <1>1, <1>6, <2>1, <2>2, EndSame DEF ConfirmBackupStart
  <2>3. CASE answer = "start"
    <3>1. ~Blocked(d)
      BY <2>1, <2>3 DEF Buttons
    <3>2. Same(d, ObtainKeys(d))
      BY <1>1, ObtainSame
    <3>3. Becomes(ObtainKeys(d))
      BY <2>1, <2>3 DEF ConfirmBackupStart
    <3> QED
      BY <1>1, <3>1, <3>2, <3>3, SameShown, BecomesShown DEF Same
  <2>4. CASE answer \notin {"cancel", "start"}
    <3>1. Becomes(ChoosePlan(c, answer, checked, free, connected))
      BY <2>1, <2>4 DEF ConfirmBackupStart, c
    <3>2. c.action = "backup" /\ c.sources \in Sources
      BY <1>2, <1>3, <1>7 DEF AnswerPlan, Same
    <3> QED
      BY <1>2, <2>1, <3>1, <3>2, ChoosePlanShown, BecomesShown
  <2> QED
    BY <2>2, <2>3, <2>4
<1>8. CASE AnswerRefusal
  <2>1. PICK answer \in {"retry", "newkeys", "cancel"}, checked \in Free, free \in Free,
             connected \in 1 .. 2 : Becomes(YubiKeyRefused(d, answer, checked, free, connected))
    BY <1>8 DEF AnswerRefusal
  <2>2. d.pc = "refused"
    BY <1>8 DEF AnswerRefusal
  <2>3. CASE answer = "retry"
    <3>1. Same(d, ObtainKeys(c))
      BY <1>2, ObtainSame, SameIsTransitive
    <3>2. Becomes(ObtainKeys(c))
      BY <2>1, <2>3 DEF YubiKeyRefused, c
    <3> QED
      BY <1>5, <2>2, <3>1, <3>2
  <2>4. CASE answer = "newkeys"
    <3>1. Becomes(ChoosePlan(c, "newkeys", checked, free, connected))
      BY <2>1, <2>4 DEF YubiKeyRefused, c
    <3>2. c.action = "backup" /\ c.sources \in Sources
      BY <1>2, <1>3, <2>2 DEF Same
    <3> QED
      BY <1>2, <2>1, <3>1, <3>2, ChoosePlanShown, BecomesShown
  <2>5. CASE answer \notin {"retry", "newkeys"}
    BY <1>1, <1>6, <2>1, <2>5, EndSame DEF YubiKeyRefused
  <2> QED
    BY <2>3, <2>4, <2>5
<1>9. CASE AnswerChoice
  BY <1>1, <1>5, <1>9, AnswersSame DEF AnswerChoice
<1>10. CASE PendingAnswers
  BY <1>1, <1>5, <1>10, AnswersSame DEF PendingAnswers
<1>11. CASE AnswerPassword
  BY <1>1, <1>5, <1>11, AnswersSame DEF AnswerPassword
<1>12. CASE AnswerCode
  BY <1>1, <1>5, <1>12, AnswersSame DEF AnswerCode
<1>13. CASE TouchYubiKey
  BY <1>1, <1>5, <1>13, AnswersSame DEF TouchYubiKey
<1>14. CASE AnswerNewPassword
  BY <1>1, <1>5, <1>14, EnrollSame DEF AnswerNewPassword
<1>15. CASE TouchNewYubiKey
  BY <1>1, <1>5, <1>15, EnrollSame DEF TouchNewYubiKey
<1>16. CASE AnswerShownCode
  BY <1>1, <1>5, <1>16, EnrollSame DEF AnswerShownCode
<1>17. CASE Finish
  BY <1>1, <1>6, <1>17, EndSame DEF Finish
<1> QED
  BY <1>7, <1>8, <1>9, <1>10, <1>11, <1>12, <1>13, <1>14, <1>15, <1>16, <1>17 DEF Step

\* A restore or verification shows no plan; a backup starts with the first one.
LEMMA StartShown == StartRead \/ StartBackup => EstimateInv'
<1>1. CASE StartRead
  <2>1. PICK n, sets : Becomes(NextKeySet([Idle EXCEPT !.action = "restore", !.need = sets]))
    BY <1>1 DEF StartRead
  <2> DEFINE d == [Idle EXCEPT !.action = "restore", !.need = sets]
  <2>2. DOMAIN d = DOMAIN Idle /\ d.action = "restore" /\ d.shown = None
    BY Fields DEF Idle
  <2> HIDE DEF d
  <2>3. Same(d, NextKeySet(d))
    BY <2>2, KeySetSame
  <2>4. ShownInv(NextKeySet(d))
    BY <2>2, <2>3 DEF Same, ShownInv
  <2> QED
    BY <2>1, <2>3, <2>4, BecomesShown DEF d, Same
<1>2. CASE StartBackup
  <2>1. PICK mode \in AuthMode, recovery \in BOOLEAN, newest \in Stored \cup {None},
              sources \in Sources, checked \in Free, free \in Free, connected \in 1 .. 2 :
          LET cfg == [mode |-> mode, recovery |-> recovery]
              current == KeysFor(cfg, newest) IN
          \E diffs \in SUBSET Backed(sources) :
             /\ diffs # {} => current # None
             /\ Becomes(ChoosePlan([Idle EXCEPT !.action = "backup", !.cfg = cfg,
                                                !.current = current,
                                                !.sources = sources, !.diffs = diffs],
                                   "automatic", checked, free, connected))
    BY <1>2, Zenon DEF StartBackup
  <2> DEFINE cfg == [mode |-> mode, recovery |-> recovery]
             current == KeysFor(cfg, newest)
  <2>0. PICK diffs : Becomes(ChoosePlan([Idle EXCEPT !.action = "backup", !.cfg = cfg,
                                                     !.current = current,
                                                     !.sources = sources, !.diffs = diffs],
                                        "automatic", checked, free, connected))
    BY <2>1
  <2> HIDE DEF cfg, current
  <2> DEFINE d == [Idle EXCEPT !.action = "backup", !.cfg = cfg, !.current = current,
                               !.sources = sources, !.diffs = diffs]
  <2>2. DOMAIN d = DOMAIN Idle /\ d.action = "backup" /\ d.sources = sources
    BY Fields DEF Idle
  <2> DEFINE p == ChoosePlan(d, "automatic", checked, free, connected)
  <2>3. Becomes(p)
    BY <2>0, Zenon
  <2> HIDE DEF d
  <2>4. DOMAIN p = DOMAIN Idle /\ ShownInv(p)
    BY <2>2, ChoosePlanShown
  <2> HIDE DEF p
  <2> QED
    BY <2>3, <2>4, BecomesShown
<1> QED
  BY <1>1, <1>2

\* Every plan that is shown stays the one that was estimated, and a backup goes
\* on only with a plan that nothing blocks.
THEOREM PlansAreEstimated == DialogueSpec => []EstimateInv
<1>1. DialogueInit => EstimateInv
  BY DEF DialogueInit, EstimateInv, ShownInv, Idle
<1>2. DialogueInv /\ EstimateInv /\ [DialogueNext]_dialogue => EstimateInv'
  <2> SUFFICES ASSUME DialogueInv, EstimateInv, [DialogueNext]_dialogue PROVE EstimateInv'
    OBVIOUS
  <2>1. CASE Ended \/ UNCHANGED dialogue
    BY <2>1 DEF Ended, EstimateInv
  <2> QED
    BY <2>1, StartShown, StepShown DEF DialogueNext
<1> QED
  BY <1>1, <1>2, DialogueInvariant, PTL DEF DialogueSpec

-----------------------------------------------------------------------------
(* Sums over finite sets, by counting: a sum is the number of pairs of an  *)
(* element and one of its units.                                           *)

Units(S, g) == UNION {{x} \X (1 .. g[x]) : x \in S}

\* A nonempty set of subsets of a finite set has a smallest member.
LEMMA SmallestExists ==
    ASSUME NEW S, IsFiniteSet(S), NEW T \in SUBSET (SUBSET S), T # {}
    PROVE  \E s \in T : \A t \in T : Cardinality(s) <= Cardinality(t)
<1> DEFINE C == {Cardinality(s) : s \in T}
<1>1. \A s \in T : Cardinality(s) \in Nat
  BY FS_Subset, FS_CardinalityType
<1>2. C \in SUBSET Nat /\ C # {}
  BY <1>1
<1>3. PICK i \in C : \A j \in C : i <= j
  BY <1>2, LeastExists
<1> QED
  BY <1>3

\* One element more.
LEMMA UnitsStep ==
    ASSUME NEW S, NEW g, NEW x \in S, g[x] \in Nat, IsFiniteSet(Units(S \ {x}, g))
    PROVE  /\ IsFiniteSet(Units(S, g))
           /\ Cardinality(Units(S, g)) = g[x] + Cardinality(Units(S \ {x}, g))
<1> DEFINE A == {x} \X (1 .. g[x])
           B == Units(S \ {x}, g)
<1>1. IsFiniteSet({x}) /\ Cardinality({x}) = 1
  BY FS_Singleton
<1>2. IsFiniteSet(1 .. g[x]) /\ Cardinality(1 .. g[x]) = g[x]
  BY FS_Interval
<1>3. IsFiniteSet(A) /\ Cardinality(A) = g[x]
  <2>1. IsFiniteSet(A) /\ Cardinality(A) = Cardinality({x}) * Cardinality(1 .. g[x])
    BY <1>1, <1>2, FS_Product, Zenon
  <2> QED
    BY <1>1, <1>2, <2>1
<1>4. Units(S, g) = A \cup B
  BY DEF Units
<1>5. A \cap B = {}
  BY DEF Units
<1> HIDE DEF A, B
<1>6. IsFiniteSet(B) /\ Cardinality(B) \in Nat
  BY FS_CardinalityType DEF B
<1>7. Cardinality(A \cap B) = 0
  BY <1>5, FS_EmptySet
<1>8. IsFiniteSet(A \cup B) /\ Cardinality(A \cup B) = g[x] + Cardinality(B) - 0
  BY <1>3, <1>6, <1>7, FS_Union
<1> QED
  BY <1>4, <1>6, <1>8 DEF B

\* The units of a finite set are finitely many.
LEMMA UnitsFinite ==
    ASSUME NEW S, NEW g, IsFiniteSet(S), \A x \in S : g[x] \in Nat
    PROVE  \A s \in SUBSET S : IsFiniteSet(Units(s, g))
<1> DEFINE T == {s \in SUBSET S : ~IsFiniteSet(Units(s, g))}
<1> SUFFICES ASSUME T # {} PROVE FALSE
  OBVIOUS
<1>1. PICK s \in T : \A t \in T : Cardinality(s) <= Cardinality(t)
  BY SmallestExists
<1>2. s # {}
  <2>1. Units({}, g) = {}
    BY DEF Units
  <2> QED
    BY <2>1, FS_EmptySet
<1>3. PICK x \in s : TRUE
  BY <1>2
<1>4. IsFiniteSet(s) /\ Cardinality(s) \in Nat /\ Cardinality(s \ {x}) = Cardinality(s) - 1
  BY FS_Subset, FS_CardinalityType, FS_RemoveElement
<1>5. s \ {x} \notin T
  BY <1>1, <1>4
<1> QED
  BY <1>3, <1>5, UnitsStep

\* The sum as MapThenFoldSet computes it, one element after the other.
LEMMA OverIsCount ==
    ASSUME NEW S, NEW g, IsFiniteSet(S), \A x \in S : g[x] \in Nat
    PROVE  Over(S, g) = Cardinality(Units(S, g)) /\ Over(S, g) \in Nat
<1> DEFINE pick(s) == CHOOSE x \in s : TRUE
           body(f) == [s \in SUBSET S |-> IF s = {} THEN 0 ELSE g[pick(s)] + f[s \ {pick(s)}]]
           count == [s \in SUBSET S |-> Cardinality(Units(s, g))]
           iter == CHOOSE f : f = body(f)
<1>1. Over(S, g) = iter[S]
  BY DEF Over, MapThenSumSet, MapThenFoldSet
<1>2. \A s \in SUBSET S : s # {} => pick(s) \in s /\ s \ {pick(s)} \in SUBSET S
  OBVIOUS
<1>3. \A s \in SUBSET S : Cardinality(Units(s, g)) \in Nat
  BY UnitsFinite, FS_CardinalityType
<1>4. Cardinality(Units({}, g)) = 0
  BY FS_EmptySet DEF Units
<1> HIDE DEF pick
<1>5. \A s \in SUBSET S : s # {} =>
         Cardinality(Units(s, g)) = g[pick(s)] + Cardinality(Units(s \ {pick(s)}, g))
  BY <1>2, UnitsFinite, UnitsStep
<1>6. count = body(count)
  BY <1>2, <1>4, <1>5
<1>7. iter = body(iter)
  BY <1>6
<1> HIDE DEF iter
<1> DEFINE T == {s \in SUBSET S : iter[s] # count[s]}
<1>8. T = {}
  <2> SUFFICES ASSUME T # {} PROVE FALSE
    OBVIOUS
  <2>1. PICK s \in T : \A t \in T : Cardinality(s) <= Cardinality(t)
    BY SmallestExists
  <2>2. iter[s] = IF s = {} THEN 0 ELSE g[pick(s)] + iter[s \ {pick(s)}]
    BY <1>7
  <2>3. s # {}
    BY <1>4, <2>2
  <2>4. pick(s) \in s /\ s \ {pick(s)} \in SUBSET S
    BY <1>2, <2>3
  <2>5. Cardinality(s) \in Nat /\ Cardinality(s \ {pick(s)}) = Cardinality(s) - 1
    BY <2>4, FS_Subset, FS_CardinalityType, FS_RemoveElement
  <2>6. iter[s \ {pick(s)}] = count[s \ {pick(s)}]
    <3>1. ~ (Cardinality(s) <= Cardinality(s \ {pick(s)}))
      BY <2>5
    <3>2. s \ {pick(s)} \notin T
      BY <2>1, <3>1, Zenon
    <3> QED
      BY <2>4, <3>2
  <2> QED
    BY <1>5, <2>2, <2>3, <2>4, <2>6
<1> QED
  BY <1>1, <1>3, <1>8

\* Elements that count nothing can be left out of a sum.
LEMMA OverWithoutZeros ==
    ASSUME NEW S, NEW g, NEW R \in SUBSET S, NEW h, IsFiniteSet(S), \A x \in S : g[x] \in Nat,
           \A x \in R : h[x] = g[x], \A x \in S \ R : g[x] = 0
    PROVE  Over(S, g) = Over(R, h)
<1>1. IsFiniteSet(R) /\ \A x \in R : h[x] \in Nat
  BY FS_Subset
<1>2. Units(S, g) = Units(R, h)
  BY DEF Units
<1> QED
  BY <1>1, <1>2, OverIsCount

\* The size of finitely many files is a number.
LEMMA SizeIsNat ==
    ASSUME NEW files, IsFiniteSet(files), \A f \in files : f.size \in Nat
    PROVE  SizeOf(files) \in Nat
<1> DEFINE g == [f \in files |-> f.size]
<1>1. \A f \in files : g[f] \in Nat
  OBVIOUS
<1>2. SizeOf(files) = Over(files, g)
  BY DEF SizeOf
<1> HIDE DEF g
<1> QED
  BY <1>1, <1>2, OverIsCount

\* A plan that nothing blocks fits: for every measured folder the estimate has
\* what the kind of backup in its row stores, and a folder that was not measured
\* adds nothing.
LEMMA UnblockedPlanFits ==
    ASSUME NEW sources \in Sources, NEW base, NEW diffs \in {{}, base},
           NEW checked \in Free, NEW free \in Free, NEW several \in BOOLEAN, NEW p,
           p = LET est == Estimate(MeasureSources(sources, base), diffs) IN
               PlanShown(sources, est, checked, free, diffs,
                         BlockingIssues(sources, est, checked, several)),
           p.issues = {}
    PROVE  Fits(sources, p)
<1> DEFINE B == Backed(sources)
           M == {n \in B : ~sources[n].gone}
           files(n) == {f \in sources[n].files : f.listed /\ ~f.excluded}
           total(n) == SizeOf(files(n))
           changed(n) == SizeOf({f \in files(n) : f.new})
           full == [n \in M |-> total(n)]
           likely == [n \in M |-> IF n \in diffs THEN changed(n) ELSE total(n)]
           sizes == MeasureSources(sources, base)
           issues(e) == BlockingIssues(sources, e, checked, several)
<1>1. /\ IsFiniteSet(B) /\ B \subseteq DOMAIN sources
      /\ IsFiniteSet(M) /\ M \in SUBSET B
  BY MeasuredAssumption, FS_Subset DEF Backed
<1>2. \A n \in M : total(n) \in Nat /\ changed(n) \in Nat
  <2> SUFFICES ASSUME NEW n \in M PROVE total(n) \in Nat /\ changed(n) \in Nat
    OBVIOUS
  <2>1. IsFiniteSet(sources[n].files) /\ \A f \in sources[n].files : f.size \in Nat
    BY <1>1, MeasuredAssumption
  <2>2. /\ files(n) \in SUBSET sources[n].files
        /\ {f \in files(n) : f.new} \in SUBSET sources[n].files
    OBVIOUS
  <2>3. IsFiniteSet(files(n)) /\ IsFiniteSet({f \in files(n) : f.new})
    BY <2>1, <2>2, FS_Subset
  <2> HIDE DEF files
  <2> QED
    BY <2>1, <2>2, <2>3, SizeIsNat
<1> HIDE DEF total, changed
<1>3. /\ DOMAIN sizes = M
      /\ \A n \in M : /\ sizes[n].measure.total = total(n) /\ sizes[n].measure.changed = changed(n)
                      /\ sizes[n].diff = (n \in base)
  BY DEF MeasureSources, MeasureSource, total, changed
<1> HIDE DEF sizes
<1> DEFINE e == Estimate(sizes, diffs)
<1>4. /\ e.full = Over(M, full) /\ e.likely = Over(M, likely) /\ e.folders = likely
      /\ e.anyDiff = \E n \in M : n \in diffs
  <2>1. [n \in DOMAIN sizes |-> sizes[n].measure.total] = full
    BY <1>3
  <2>2. [n \in DOMAIN sizes |-> IF n \in diffs /\ sizes[n].diff THEN sizes[n].measure.changed
                                ELSE full[n]] = likely
    BY <1>3
  <2> HIDE DEF full, likely, M
  <2> QED
    BY <1>3, <2>1, <2>2 DEF Estimate
<1>5. Over(M, full) \in Nat /\ Over(M, likely) \in Nat
  BY <1>1, <1>2, OverIsCount
<1> DEFINE row == [n \in B |-> PlanRow(n, e, diffs)]
<1>6. /\ p.rows = row /\ p.needed = e.likely /\ p.checked = checked
      /\ p.issues = issues(e) /\ p.tone = SpaceTone(e, checked, issues(e))
  BY DEF PlanShown, sizes
<1> HIDE DEF e
<1>7. TargetSpace(e, checked) # "error"
  BY <1>6 DEF BlockingIssues
<1>8. checked # None => /\ Over(M, likely) <= checked
                        /\ p.tone = "success" /\ e.anyDiff => Over(M, full) <= checked
  <2> HIDE DEF M, full, likely
  <2> QED
    BY <1>4, <1>5, <1>6, <1>7, MeasuredAssumption DEF TargetSpace, SpaceTone
<1>9. ~e.anyDiff => full = likely
  BY <1>4
<1> DEFINE about == [n \in B |-> row[n].about]
<1>10. Over(B, about) = Over(M, likely)
  <2>1. \A n \in B : about[n] = IF n \in M THEN likely[n] ELSE 0
    BY <1>4 DEF PlanRow
  <2>2. \A n \in M : likely[n] \in Nat
    BY <1>2
  <2> HIDE DEF about, likely, M, B
  <2> QED
    BY <1>1, <2>1, <2>2, OverWithoutZeros
<1>11. \A n \in M : row[n].differential <=> n \in diffs
  BY DEF PlanRow
<1>12. DOMAIN p.rows = B /\ \A n \in B : p.rows[n] = row[n]
  BY <1>6
<1> DEFINE stored == [n \in M |-> SizeOf({f \in files(n) : row[n].differential => f.new})]
<1>13. stored = likely
  <2>1. \A n \in M : {f \in files(n) : row[n].differential => f.new} =
                        IF n \in diffs THEN {f \in files(n) : f.new} ELSE files(n)
    BY <1>11
  <2> QED
    BY <2>1 DEF total, changed
<1>14. /\ [n \in DOMAIN p.rows |-> p.rows[n].about] = about
       /\ {n \in DOMAIN p.rows : ~sources[n].gone} = M
       /\ [n \in M |-> SizeOf({f \in files(n) : p.rows[n].differential => f.new})] = stored
       /\ [n \in M |-> SizeOf(files(n))] = full
  BY <1>12 DEF total
<1>15. checked # None => /\ Over(M, likely) <= checked
                         /\ p.tone = "success" => Over(M, full) <= checked
  <2> HIDE DEF M, full, likely
  <2> QED
    BY <1>8, <1>9
<1> HIDE DEF about, stored, full, likely, M, row
<1> QED
  BY <1>4, <1>6, <1>10, <1>12, <1>13, <1>14, <1>15 DEF Fits

\* A backup that was started fits into the free space the check of its plan found;
\* the number the window shows is queried after that and is not what decides.
THEOREM StartedPlansFit == DialogueSpec => []PlanFits
<1>1. EstimateInv => PlanFits
  <2> SUFFICES ASSUME EstimateInv,
                      dialogue.shown # None, dialogue.pc \notin {"plan", "ended"}
               PROVE  ~Blocked(dialogue) /\ Fits(dialogue.sources, dialogue.shown.plan)
    BY DEF PlanFits
  <2> DEFINE d == dialogue
  <2>1. PICK diffs \in {{}, d.diffs}, checked \in Free, free \in Free, several \in BOOLEAN :
           d.shown.plan =
              LET est == Estimate(MeasureSources(d.sources, d.diffs), diffs) IN
              PlanShown(d.sources, est, checked, free, diffs,
                        BlockingIssues(d.sources, est, checked, several))
    BY DEF EstimateInv, ShownInv
  <2>2. d.sources \in Sources /\ ~Blocked(d)
    BY DEF EstimateInv, ShownInv
  <2>3. d.shown.plan.issues = {}
    BY <2>2 DEF Blocked
  <2> QED
    BY <2>1, <2>2, <2>3, UnblockedPlanFits
<1> QED
  BY <1>1, PlansAreEstimated, PTL
=============================================================================
