------------------------------- MODULE Unlock -------------------------------
(***************************************************************************)
(* The dialogue that unlocks or creates the keys of an operation           *)
(* (workflow/unlock, workflow/backup/keys.go and choose.go) on key sets    *)
(* (format/container/keyset.go), through the questions of gui/flow/ui.go.  *)
(*                                                                         *)
(* The workflow runs between two answers without meeting anyone, so a step *)
(* is one answer of the user or of the YubiKey, and what the code does     *)
(* until the next question is a function of the dialogue record: `pc' is   *)
(* the question that is open (or "yubikey" and "register" while Windows    *)
(* asks for the YubiKey), `need' the key sets still to unlock, `live' the  *)
(* secret byte slices in memory that nobody has zeroed.                    *)
(*                                                                         *)
(* Cryptography is ideal: a slot opens with its secret and no other.  A    *)
(* secret is the pair of what was typed and what the YubiKey derived.      *)
(***************************************************************************)
EXTENDS FiniteSets, Preflight

CONSTANTS
    Password,   \* passwords the user types
    YubiKey,    \* the YubiKeys there are
    Stored,     \* the key sets of the backups in the backup directory
    Sources,    \* what the source directories may hold (see Preflight)
    Free,       \* free bytes of the backup directory; None when Windows does not say
    MaxSets,    \* bound: how many backup sets a request names
    MaxRetries  \* bound: how often a refused YubiKey is tried again, or the
                \* plan is changed

VARIABLE dialogue   \* of the operation

ASSUME UnlockAssumption ==
    /\ MaxRetries \in Nat /\ MaxSets \in Nat
    /\ None \notin Password \cup YubiKey \cup Stored

maxPasswordAttempts == 3
maxEnrollAttempts == 3

AuthMode == 1 .. 3      \* password, password + YubiKey, YubiKey only
UsesYubiKey(mode) == mode \in {2, 3}
UsesPassword(mode) == mode # 3

\* KeySet.ID of keys created in this operation.
NewId == "new"

\* recovery.Code: its data and its checksum, which two codes may share.
Code(data, check) == [data |-> data, check |-> check]

\* What recovery.Parse refuses: a wrong character or length, or a checksum
\* that is not the one of the data.
Typo == Code("typo", None)

-----------------------------------------------------------------------------
(* Key sets and their slots.                                               *)

RegularSlotType(mode) ==
    CASE mode = 2 -> "password_yubikey" [] mode = 3 -> "yubikey" [] OTHER -> "password"

\* The hmac-secret of a credential that key set id registered on YubiKey y.
HmacSecret(y, id) == <<y, id>>

\* CombinePasswordWithSecret: the password followed by the YubiKey's secret.
Combine(password, hmac) == <<password, hmac>>

SlotIndexes(ks, type) == {i \in DOMAIN ks.slots : ks.slots[i].type = type}
HasSlotType(ks, type) == SlotIndexes(ks, type) # {}
FirstIndex(ks, type) == CHOOSE i \in SlotIndexes(ks, type) :
                            \A j \in SlotIndexes(ks, type) : i <= j

Slot(type, secret, check) == [type |-> type, secret |-> secret, check |-> check]

\* KeySet.Unlock: the master key, here the key set's ID, or None for
\* cryptox.ErrWrongPassword.
OpenSlot(ks, i, secret) == IF ks.slots[i].secret = secret THEN ks.id ELSE None

\* KeySet.Validate and validateSlot.
Validate(ks) ==
    /\ ks.mode \in AuthMode
    /\ \A i \in DOMAIN ks.slots :
          /\ ks.slots[i].type \in {RegularSlotType(ks.mode), "recovery"}
          /\ (ks.slots[i].check # None) <=> (ks.slots[i].type = "recovery")
    /\ Cardinality(SlotIndexes(ks, RegularSlotType(ks.mode))) = 1
    /\ Cardinality(SlotIndexes(ks, "recovery")) <= 1

\* Headers are validated when they are read (Header.Validate).  The ID of a key
\* set is random, so it tells key sets apart, new ones too; the secret of a
\* YubiKey is never Go's nil.
ASSUME StoredAssumption ==
    /\ \A ks \in Stored : Validate(ks) /\ ks.id # NewId
    /\ \A ks, other \in Stored : ks.id = other.id => ks = other
    /\ None \notin YubiKey \X ({ks.id : ks \in Stored} \cup {None})

\* What is measured are finitely many files with the sizes Windows reports.
ASSUME MeasuredAssumption ==
    /\ Free \subseteq Nat \cup {None}
    /\ \A sources \in Sources :
          /\ IsFiniteSet(DOMAIN sources)
          /\ \A n \in DOMAIN sources :
                IsFiniteSet(sources[n].files) /\ \A f \in sources[n].files : f.size \in Nat

CreatesRecoveryCode(cfg) == cfg.recovery \/ UsesYubiKey(cfg.mode)

\* KeySetMismatch: recovery_code counts only without a YubiKey.
KeySetMismatch(cfg, ks) ==
    \/ ks.mode # cfg.mode
    \/ ~UsesYubiKey(cfg.mode) /\ cfg.recovery # HasSlotType(ks, "recovery")

\* plan.KeysFor, from the key set of the newest complete backup.
KeysFor(cfg, ks) == IF ks = None THEN None ELSE IF KeySetMismatch(cfg, ks) THEN None ELSE ks

-----------------------------------------------------------------------------
(* The dialogue.                                                           *)

\* pc, and the record of an operation that has not started.
Asking == {"plan", "choose", "yubikey", "password", "code", "refused",
           "newpassword", "register", "showcode"}
Idle == [action |-> "none", pc |-> "idle", need |-> <<>>, attempt |-> 0,
         pending |-> None, new |-> None, yubi |-> None, masters |-> {}, live |-> {},
         given |-> {}, tried |-> {}, cfg |-> None, current |-> None,
         sources |-> <<>>, diffs |-> {}, shown |-> None, asked |-> <<>>,
         slots |-> <<>>, keys |-> None, turns |-> 0, error |-> None]

Current(d) == Head(d.need)

\* Faulty variant: an error return leaves the master keys in memory.
FaultyEnd(d, error) ==
    [d EXCEPT !.pc = "ended", !.error = error, !.masters = {}, !.yubi = None,
              !.live = {b \in @ : b[1] = "master"}, !.slots = <<>>, !.new = None]

\* A return with an error: every deferred ZeroBytes runs, MasterKeys.Zero too.
End(d, error) ==
    [d EXCEPT !.pc = "ended", !.error = error, !.masters = {}, !.yubi = None,
              !.live = {}, !.slots = <<>>, !.new = None]

\* askAfterYubiKeyRefusal: only a YubiKey that did not unlock existing keys
\* of a backup is asked about; KeySet itself has returned and zeroed.
Refused(d, error) ==
    IF d.action = "backup" /\ error = "yubikey"
    THEN [d EXCEPT !.pc = "refused", !.yubi = None, !.live = {}]
    ELSE End(d, error)

\* Faulty variant: after the last attempt the first one comes again.
FaultyAgain(d) == [d EXCEPT !.attempt = (@ % maxPasswordAttempts) + 1]

\* A question for a secret, up to maxPasswordAttempts times (attemptOf).
Again(d) ==
    IF d.attempt < maxPasswordAttempts THEN [d EXCEPT !.attempt = @ + 1]
                                       ELSE Refused(d, "attempts")

\* The start of unlock.KeySet.
Regular(d) ==
    LET type == RegularSlotType(Current(d).mode) IN
    IF ~HasSlotType(Current(d), type) THEN End(d, "noslot")
    ELSE [d EXCEPT !.pc = IF type = "password" THEN "password" ELSE "yubikey"]

\* Faulty variant: the recovery code is offered for a backup too.
FaultyKeySet(d) ==
    LET e == [d EXCEPT !.attempt = 1] IN
    IF HasSlotType(Current(d), "recovery") THEN [e EXCEPT !.pc = "choose"] ELSE Regular(e)

\* unlock.KeySet: Options.AllowRecovery is set by restore and verification.
KeySet(d) ==
    LET e == [d EXCEPT !.attempt = 1] IN
    IF d.action # "backup" /\ HasSlotType(Current(d), "recovery")
    THEN [e EXCEPT !.pc = "choose"]
    ELSE Regular(e)

\* The loop of KeySets: the next key set that is not unlocked yet.
NextKeySet(d) ==
    LET left == {i \in DOMAIN d.need : d.need[i].id \notin d.masters}
        next == CHOOSE i \in left : \A j \in left : i <= j IN
    IF left = {} THEN [d EXCEPT !.need = <<>>, !.pc = "unlocked"]
                 ELSE KeySet([d EXCEPT !.need = SubSeq(@, next, Len(@))])

\* KeySet returns a master key; `given' remembers with which factors.
Unlocked(d, factors) ==
    LET id == Current(d).id IN
    NextKeySet([d EXCEPT !.masters = @ \cup {id}, !.yubi = None,
                         !.live = {b \in @ : b[1] = "master"} \cup {<<"master", id>>},
                         !.given = @ \cup {<<id, f>> : f \in factors},
                         !.keys = IF d.action = "backup" THEN Current(d) ELSE @])

\* A password, typed now or with the choice of the method, for the key set
\* `for'.  `tried' remembers which key set the user typed it for.
TryPassword(d, typed) ==
    LET ks == Current(d)
        i == FirstIndex(ks, RegularSlotType(ks.mode))
        secret == Combine(typed.pw, d.yubi)
        e == [d EXCEPT !.pc = "password",
                       !.tried = @ \cup {<<typed.for, ks.id>>}] IN
    IF OpenSlot(ks, i, secret) = None THEN Again(e)
    ELSE Unlocked(e, {"password"} \cup (IF d.yubi = None THEN {} ELSE {"yubikey"}))

-----------------------------------------------------------------------------
(* Answers to the questions of unlock.KeySet.                              *)

\* Faulty variant: the password is kept whatever the user chose.
FaultyChooseUnlockMethod(d, answer, pw) ==
    LET e == [d EXCEPT !.pending = IF Current(d).mode = 1
                                   THEN [pw |-> pw, for |-> Current(d).id] ELSE None] IN
    CASE answer = "cancel" -> End(d, "cancelled")
      [] answer = "code" -> [e EXCEPT !.pc = "code"]
      [] OTHER -> Regular(e)

\* The dialog of the unlock method: the link to the recovery code, cancel, or
\* the regular way, where the dialog of password-only keys takes the password,
\* which the UI keeps for the next question for a password.
ChooseUnlockMethod(d, answer, pw) ==
    CASE answer = "cancel" -> End(d, "cancelled")
      [] answer = "code" -> [d EXCEPT !.pc = "code", !.pending = None]
      [] OTHER -> Regular([d EXCEPT !.pending =
                             IF Current(d).mode = 1
                             THEN [pw |-> pw, for |-> Current(d).id] ELSE None])

\* UI.Password: a pending secret answers without a question.
TakePending(d) == TryPassword([d EXCEPT !.pending = None], d.pending)

Typed(d, pw) ==
    IF pw = None THEN End(d, "cancelled")
                 ELSE TryPassword(d, [pw |-> pw, for |-> Current(d).id])

\* deriveYubiKeySecret: no YubiKey, Windows refuses it, or the secret of the
\* YubiKey that was touched.
DeriveYubiKeySecret(d, y, result) ==
    LET ks == Current(d)
        hmac == IF result = "other" THEN HmacSecret(y, None) ELSE HmacSecret(y, ks.id) IN
    CASE result = "absent" -> End(d, "required")
      [] result = "refused" -> Refused(d, "yubikey")
      [] OTHER ->
           LET e == [d EXCEPT !.yubi = hmac, !.live = @ \cup {<<"yubi", ks.id>>}] IN
           IF ks.mode = 2 THEN [e EXCEPT !.pc = "password"]
           ELSE IF OpenSlot(ks, FirstIndex(ks, "yubikey"), Combine(None, hmac)) = None
                THEN Refused(e, "yubikey")
                ELSE Unlocked(e, {"yubikey"})

\* unlockWithRecoveryCode: a typo, the code of other keys, a code with the
\* same checksum, or the code.
RecoveryCode(d, code) ==
    LET ks == Current(d)
        i == FirstIndex(ks, "recovery") IN
    CASE code = None -> End(d, "cancelled")
      [] code = Typo -> Again(d)
      [] OTHER -> IF \/ code.check # ks.slots[i].check
                     \/ OpenSlot(ks, i, Combine(code, None)) = None
                  THEN Again(d)
                  ELSE Unlocked(d, {"code"})

-----------------------------------------------------------------------------
(* A backup: its plan, obtainKeys and the keys it creates.                 *)

\* severalYubiKeys, for the keys of a plan (None: new ones).
SeveralYubiKeys(cfg, keys, connected) ==
    UsesYubiKey(IF keys = None THEN cfg.mode ELSE keys.mode) /\ connected > 1

\* keyPlanFor: the prompts the plan announces.
KeyPlan(cfg, keys) ==
    IF keys = None
    THEN UnlockText(TRUE, UsesPassword(cfg.mode), UsesYubiKey(cfg.mode), CreatesRecoveryCode(cfg))
    ELSE UnlockText(FALSE, UsesPassword(keys.mode), UsesYubiKey(keys.mode), FALSE)

\* choosePlan: the plan of one of the modes with the keys it uses, from the
\* sources measured for the automatic plan; the YubiKeys are looked up for every
\* plan, and the free space twice: for its check, and for the window.  A blocked
\* automatic plan ends the backup before it asks.
ChoosePlan(d, mode, checked, free, connected) ==
    LET keys == IF mode = "newkeys" THEN None ELSE d.current
        diffs == IF mode = "automatic" THEN d.diffs ELSE {}
        est == Estimate(MeasureSources(d.sources, d.diffs), diffs)
        issues == BlockingIssues(d.sources, est, checked, SeveralYubiKeys(d.cfg, keys, connected))
        e == [d EXCEPT !.pc = "plan",
                       !.shown = [mode |-> mode, keys |-> keys, prompts |-> KeyPlan(d.cfg, keys),
                                  plan |-> PlanShown(d.sources, est, checked, free, diffs, issues)]] IN
    IF mode = "automatic" /\ issues # {} THEN End(e, "blocked") ELSE e

Blocked(d) == d.shown.plan.issues # {}

\* The answers choosePlan offers (BackupStartOptions); full backups only instead of the
\* differentials of the automatic plan.
Offered(d) ==
    {"cancel"}
      \cup (IF Blocked(d) THEN {} ELSE {"start"})
      \cup (IF d.shown.mode # "automatic" THEN {"automatic"}
            ELSE IF d.diffs # {} THEN {"full"} ELSE {})
      \cup (IF d.shown.mode # "newkeys" /\ d.current # None THEN {"newkeys"} ELSE {})

\* BackupPlanOf: the window has no button but Cancel for a blocked plan, not
\* even the one back to the automatic plan.
Buttons(d) == IF Blocked(d) THEN {"cancel"} ELSE Offered(d)

\* enrollKeySet, up to its first question.
EnrollKeySet(d) ==
    [d EXCEPT !.attempt = 1, !.slots = <<>>,
              !.pc = IF UsesPassword(d.cfg.mode) THEN "newpassword" ELSE "register"]

\* obtainKeys: the keys of the plan that was confirmed.
ObtainKeys(d) ==
    LET e == [d EXCEPT !.asked = <<>>] IN
    IF d.shown.keys # None THEN KeySet([e EXCEPT !.need = <<d.shown.keys>>])
                           ELSE EnrollKeySet(e)

ConfirmBackupStart(d, answer, checked, free, connected) ==
    CASE answer = "cancel" -> End(d, "cancelled")
      [] answer = "start" -> ObtainKeys(d)
      [] OTHER -> ChoosePlan([d EXCEPT !.turns = @ + 1], answer, checked, free, connected)

YubiKeyRefused(d, answer, checked, free, connected) ==
    CASE answer = "retry" -> ObtainKeys([d EXCEPT !.turns = @ + 1])
      [] answer = "newkeys" -> ChoosePlan([d EXCEPT !.turns = @ + 1], "newkeys", checked, free, connected)
      [] OTHER -> End(d, "yubikey")

\* The end of enrollKeySet: every slot is proved to open before the keys are
\* used, and the key set is validated.
CreateKeySet(d) ==
    LET ks == [id |-> NewId, mode |-> d.cfg.mode, slots |-> d.slots] IN
    IF /\ \A i \in DOMAIN ks.slots : OpenSlot(ks, i, d.slots[i].secret) = NewId
       /\ Validate(ks)
    THEN [d EXCEPT !.pc = "unlocked", !.masters = {NewId}, !.keys = ks, !.need = <<>>,
                   !.live = {<<"master", NewId>>}, !.slots = <<>>, !.new = None]
    ELSE End(d, "internal")

\* Faulty variant: the setting alone decides about the recovery code.
FaultyAddRecovery(d) == IF d.cfg.recovery THEN [d EXCEPT !.pc = "showcode"] ELSE CreateKeySet(d)

\* The recovery slot of new keys.
AddRecovery(d) ==
    IF CreatesRecoveryCode(d.cfg)
    THEN [d EXCEPT !.pc = "showcode", !.live = @ \cup {<<"code", NewId>>}]
    ELSE CreateKeySet(d)

\* readNewPassword: cancelled, an answer that can be corrected (empty, not
\* confirmed, too short), or a password.
NewPassword(d, answer) ==
    CASE answer = None -> End(d, "cancelled")
      [] answer = "refused" -> IF d.attempt < maxEnrollAttempts
                               THEN [d EXCEPT !.attempt = @ + 1] ELSE End(d, "attempts")
      [] OTHER ->
           LET e == [d EXCEPT !.live = @ \cup {<<"password", NewId>>},
                              !.given = @ \cup {<<NewId, "password">>}] IN
           IF d.cfg.mode = 1
           THEN AddRecovery([e EXCEPT !.slots = <<Slot("password", Combine(answer, None), None)>>])
           ELSE [e EXCEPT !.pc = "register", !.new = answer]

\* yubikey.CombineWithPassword: a new credential on the YubiKey that is touched,
\* its secret after the password.
CombineWithPassword(password, y, id) == Combine(password, HmacSecret(y, id))

\* registerYubiKey: no YubiKey, Windows refuses it, or a slot with its secret.
RegisterYubiKey(d, y, result) ==
    CASE result = "absent" -> End(d, "required")
      [] result = "refused" -> End(d, "failed")
      [] OTHER -> AddRecovery(
            [d EXCEPT !.live = @ \cup {<<"slot", NewId>>},
                      !.given = @ \cup {<<NewId, "yubikey">>},
                      !.slots = <<Slot(RegularSlotType(d.cfg.mode),
                                       CombineWithPassword(d.new, y, NewId), None)>>])

\* createRecoveryCode: closing the dialog cancels; the code is then zeroed.
ShowRecoveryCode(d, code, stored) ==
    IF ~stored THEN End(d, "cancelled")
    ELSE CreateKeySet([d EXCEPT !.slots = Append(@, Slot("recovery", Combine(code, None), code.check)),
                                !.given = @ \cup {<<NewId, "code">>}])

-----------------------------------------------------------------------------
(* The operation: one action per question.                                 *)

CodesOf(ks) == {Code(ks.slots[i].secret[1].data, ks.slots[i].check) : i \in SlotIndexes(ks, "recovery")}
\* What the user types for a recovery code: a typo, or a code of some keys,
\* or one that shares its checksum.
Typeable ==
    {Typo} \cup UNION {CodesOf(ks) : ks \in Stored}
      \cup {Code("other", c.check) : c \in UNION {CodesOf(ks) : ks \in Stored}}

DialogueInit == dialogue = Idle

\* `asked' remembers the prompts of a backup, without repetitions.
Remembered(e) ==
    IF e.action = "backup" /\ e.pc \in Asking \ {"plan", "refused"}
       /\ (e.asked = <<>> \/ e.asked[Len(e.asked)] # e.pc)
    THEN Append(e.asked, e.pc) ELSE e.asked

Becomes(e) == dialogue' = [e EXCEPT !.asked = Remembered(e)]

StartRead ==
    /\ dialogue.pc = "idle"
    /\ \E n \in 1 .. MaxSets : \E sets \in [1 .. n -> Stored] :
          Becomes(NextKeySet([Idle EXCEPT !.action = "restore", !.need = sets]))

StartBackup ==
    /\ dialogue.pc = "idle"
    /\ \E mode \in AuthMode, recovery \in BOOLEAN, newest \in Stored \cup {None},
          sources \in Sources, checked, free \in Free, connected \in 1 .. 2 :
          LET cfg == [mode |-> mode, recovery |-> recovery]
              current == KeysFor(cfg, newest) IN
          \E diffs \in SUBSET Backed(sources) :
             /\ diffs # {} => current # None
             /\ Becomes(ChoosePlan([Idle EXCEPT !.action = "backup", !.cfg = cfg, !.current = current,
                                                !.sources = sources, !.diffs = diffs],
                                   "automatic", checked, free, connected))

\* MaxRetries bounds the answers that lead back.
AnswerPlan ==
    /\ dialogue.pc = "plan"
    /\ \E answer \in Buttons(dialogue), checked, free \in Free, connected \in 1 .. 2 :
          /\ answer \notin {"start", "cancel"} => dialogue.turns < MaxRetries
          /\ Becomes(ConfirmBackupStart(dialogue, answer, checked, free, connected))

AnswerRefusal ==
    /\ dialogue.pc = "refused"
    /\ \E answer \in {"retry", "newkeys", "cancel"}, checked, free \in Free, connected \in 1 .. 2 :
          /\ answer # "cancel" => dialogue.turns < MaxRetries
          /\ Becomes(YubiKeyRefused(dialogue, answer, checked, free, connected))

AnswerChoice ==
    /\ dialogue.pc = "choose"
    /\ \E answer \in {"regular", "code", "cancel"}, pw \in Password :
          Becomes(ChooseUnlockMethod(dialogue, answer, pw))

PendingAnswers ==
    /\ dialogue.pc = "password" /\ dialogue.pending # None
    /\ Becomes(TakePending(dialogue))

AnswerPassword ==
    /\ dialogue.pc = "password" /\ dialogue.pending = None
    /\ \E pw \in Password \cup {None} : Becomes(Typed(dialogue, pw))

AnswerCode ==
    /\ dialogue.pc = "code"
    /\ \E code \in Typeable \cup {None} : Becomes(RecoveryCode(dialogue, code))

TouchYubiKey ==
    /\ dialogue.pc = "yubikey"
    /\ \E y \in YubiKey, result \in {"absent", "refused", "other", "right"} :
          Becomes(DeriveYubiKeySecret(dialogue, y, result))

AnswerNewPassword ==
    /\ dialogue.pc = "newpassword"
    /\ \E answer \in Password \cup {None, "refused"} : Becomes(NewPassword(dialogue, answer))

TouchNewYubiKey ==
    /\ dialogue.pc = "register"
    /\ \E y \in YubiKey, result \in {"absent", "refused", "right"} :
          Becomes(RegisterYubiKey(dialogue, y, result))

AnswerShownCode ==
    /\ dialogue.pc = "showcode"
    /\ \E stored \in BOOLEAN : Becomes(ShowRecoveryCode(dialogue, Code("new", "nc"), stored))

\* The operation has used its keys and returns: masters.Zero.
Finish == dialogue.pc = "unlocked" /\ Becomes(End(dialogue, None))

Ended == dialogue.pc = "ended" /\ UNCHANGED dialogue

Step ==
    \/ AnswerPlan \/ AnswerRefusal \/ AnswerChoice \/ PendingAnswers \/ AnswerPassword
    \/ AnswerCode \/ TouchYubiKey \/ AnswerNewPassword \/ TouchNewYubiKey
    \/ AnswerShownCode \/ Finish

DialogueNext == StartRead \/ StartBackup \/ Step \/ Ended

\* Every question is answered: a closing window answers it with cancel.
DialogueSpec == DialogueInit /\ [][DialogueNext]_dialogue /\ WF_dialogue(Step)

-----------------------------------------------------------------------------
(* Properties.                                                             *)

Known(id) == IF id = NewId THEN dialogue.keys ELSE CHOOSE ks \in Stored : ks.id = id

\* The factors of the mode of key set ks were given for id, or its recovery code.
Proven(d, id, ks) ==
    LET has(f) == <<id, f>> \in d.given IN
    \/ d.action # "backup" /\ has("code")
    \/ /\ UsesPassword(ks.mode) => has("password")
       /\ UsesYubiKey(ks.mode) => has("yubikey")

\* A master key is held only after every factor of its key set's mode was
\* given for that key set, or, for a restore or verification, its recovery
\* code (unlock.KeySet, enrollKeySet); a password for password-and-YubiKey
\* keys alone, or the code of other keys, never gets there.
KeysProven == \A id \in dialogue.masters : Proven(dialogue, id, Known(id))

\* No secret outlives its use: an operation that ended, however it ended, has
\* zeroed every one; while the next key set is asked for, only the master keys
\* it keeps and the YubiKey secret of that key set are in memory.
SecretsZeroed ==
    /\ dialogue.pc \in {"idle", "ended"} => dialogue.live = {}
    /\ dialogue.pc \in {"plan", "refused", "choose", "yubikey", "password", "code"} =>
          dialogue.live \subseteq
             {<<"master", id>> : id \in dialogue.masters}
               \cup (IF dialogue.pc = "password" THEN {<<"yubi", Current(dialogue).id>>} ELSE {})

\* A password typed for one key set is never tried on another one, although
\* the UI keeps a typed password for a later question (UI.pendingSecret).
PasswordForItsKeys == \A t \in dialogue.tried : t[1] = t[2]

\* A backup that got its keys has the keys of the plan the user confirmed,
\* through refused YubiKeys and changed plans: the existing ones it showed, or
\* new ones for the configured mode whose every slot opens, with a recovery
\* code the user has stored whenever a YubiKey could be lost.  The prompts were
\* the ones the plan window announced, in its order (unlockText).
KeysAsPlanned ==
    dialogue.pc = "unlocked" /\ dialogue.action = "backup" =>
       LET ks == dialogue.keys IN
       /\ dialogue.masters = {ks.id}
       /\ dialogue.asked = dialogue.shown.prompts
       /\ IF dialogue.shown.keys # None THEN ks = dialogue.shown.keys
          ELSE /\ ks.id = NewId /\ ks.mode = dialogue.cfg.mode /\ Validate(ks)
               /\ UsesYubiKey(ks.mode) \/ dialogue.cfg.recovery =>
                     HasSlotType(ks, "recovery") /\ <<NewId, "code">> \in dialogue.given

\* The plan p of the sources adds up, and fits into the free space its check found.
Fits(sources, p) ==
    LET measured == {n \in DOMAIN p.rows : ~sources[n].gone}
        files(n) == {f \in sources[n].files : f.listed /\ ~f.excluded}
        stored == [n \in measured |-> SizeOf({f \in files(n) : p.rows[n].differential => f.new})]
        all == [n \in measured |-> SizeOf(files(n))] IN
    /\ Over(DOMAIN p.rows, [n \in DOMAIN p.rows |-> p.rows[n].about]) = p.needed
    /\ p.checked # None => /\ Over(measured, stored) <= p.checked
                           /\ p.tone = "success" => Over(measured, all) <= p.checked

\* A plan that was started fits: the folders that could be measured, with what
\* the confirmed kind of backup stores of each, need no more than the free space
\* that the check of this very plan found, whatever plans were looked at before
\* it, and all of their files fit when the space line is green; its rows add up
\* to the space line.  The sources were measured for the automatic plan,
\* whatever plan was chosen then (measureSources, estimate).  Nothing is promised
\* when the query of the check failed, nor of the number the window shows: it is
\* queried after the check (proposal.plan) and may have changed by then.
PlanFits ==
    dialogue.shown # None /\ dialogue.pc \notin {"plan", "ended"} =>
       ~Blocked(dialogue) /\ Fits(dialogue.sources, dialogue.shown.plan)

\* Whatever is answered, the dialogue ends: a secret is asked for at most three
\* times per key set, and no answer leads round for ever.
DialogueEnds == dialogue.pc # "idle" ~> dialogue.pc = "ended"
-----------------------------------------------------------------------------
(* The inductive invariant, a predicate of the dialogue record d.  Its     *)
(* parts before Prompted do not read `asked', which Becomes sets last.     *)

Existing == {"choose", "yubikey", "password", "code"}
Creating == {"newpassword", "register", "showcode"}

\* What is open: a key set that is needed, or the plan or the new keys of a
\* backup.
OpenInv(d) ==
    /\ DOMAIN d = DOMAIN Idle
    /\ d.pc \in Asking \cup {"idle", "unlocked", "ended"}
    /\ d.need \in Seq(Stored)
    /\ d.pc \in Existing => d.need # <<>>
    /\ d.pc \in Creating \cup {"plan", "refused"} => d.action = "backup"
    /\ d.pc \in {"choose", "code"} => d.action # "backup"

\* A kept password is for the key set that is asked for.
PendingInv(d) ==
    /\ d.pending # None => d.pc \in {"password", "ended"}
    /\ d.pending # None /\ d.pc = "password" => d.pending.for = Current(d).id
    /\ \A t \in d.tried : t[1] = t[2]

\* The question that is open is one of the mode, and comes after the factors
\* before it; every master key is one of key sets that were proven.
FactorInv(d) ==
    /\ d.pc = "yubikey" => UsesYubiKey(Current(d).mode)
    /\ d.pc = "password" => /\ UsesPassword(Current(d).mode)
                            /\ UsesYubiKey(Current(d).mode) => d.yubi # None
    /\ d.pc = "newpassword" => UsesPassword(d.cfg.mode)
    /\ d.pc = "register" => UsesYubiKey(d.cfg.mode)
    /\ d.pc \in {"register", "showcode"} /\ UsesPassword(d.cfg.mode) =>
          <<NewId, "password">> \in d.given
    /\ d.pc = "showcode" /\ UsesYubiKey(d.cfg.mode) => <<NewId, "yubikey">> \in d.given
    /\ d.pc = "showcode" => CreatesRecoveryCode(d.cfg) /\ d.slots = <<d.slots[1]>>
    /\ \A id \in d.masters : \E ks \in IF id = NewId THEN {d.keys} ELSE Stored :
          ks.id = id /\ Proven(d, id, ks)

\* The secrets in memory, as SecretsZeroed has them.
LiveInv(d) ==
    /\ d.pc \in {"idle", "ended", "plan", "refused"} => d.live = {}
    /\ d.pc \in Existing =>
          d.live \subseteq {<<"master", id>> : id \in d.masters}
             \cup (IF d.pc = "password" THEN {<<"yubi", Current(d).id>>} ELSE {})

\* A backup asks for the keys of the plan it shows and holds no master key
\* before it has them.
PlanInv(d) ==
    d.action = "backup" =>
       /\ d.cfg \in [mode : AuthMode, recovery : BOOLEAN]
       /\ d.current \in Stored \cup {None} /\ d.shown.keys \in Stored \cup {None}
       /\ d.shown.prompts = KeyPlan(d.cfg, d.shown.keys)
       /\ d.pc # "unlocked" => d.masters = {}
       /\ d.pc \in Existing => d.shown.keys # None /\ d.need = <<d.shown.keys>>
       /\ d.pc \in Creating => d.shown.keys = None
       /\ d.pc = "unlocked" =>
             /\ d.masters = {d.keys.id}
             /\ IF d.shown.keys # None THEN d.keys = d.shown.keys
                ELSE /\ d.keys.id = NewId /\ d.keys.mode = d.cfg.mode /\ Validate(d.keys)
                     /\ CreatesRecoveryCode(d.cfg) =>
                           HasSlotType(d.keys, "recovery") /\ <<NewId, "code">> \in d.given

\* The plan that is shown is estimated from the sources as they were measured,
\* for the automatic plan or without its differentials; a backup goes on only
\* with one that nothing blocks.
ShownInv(d) ==
    /\ d.action = "backup" => d.sources \in Sources
    /\ d.shown # None =>
          /\ d.action = "backup"
          /\ \E diffs \in {{}, d.diffs}, checked, free \in Free, several \in BOOLEAN :
                LET est == Estimate(MeasureSources(d.sources, d.diffs), diffs) IN
                d.shown.plan = PlanShown(d.sources, est, checked, free, diffs,
                                         BlockingIssues(d.sources, est, checked, several))
          /\ d.pc \notin {"plan", "ended"} => ~Blocked(d)

\* The prompts up to the open one.
PromptsOf(d) ==
    CASE d.pc = "unlocked" -> d.shown.prompts
      [] d.pc = "password" /\ d.shown.keys.mode = 2 -> <<"yubikey", "password">>
      [] d.pc = "register" /\ d.cfg.mode = 2 -> <<"newpassword", "register">>
      [] d.pc = "showcode" /\ d.cfg.mode = 1 -> <<"newpassword", "showcode">>
      [] d.pc = "showcode" /\ d.cfg.mode = 2 -> <<"newpassword", "register", "showcode">>
      [] d.pc = "showcode" /\ d.cfg.mode = 3 -> <<"register", "showcode">>
      [] OTHER -> <<d.pc>>

Prompted(d, asked) ==
    d.action = "backup" /\ d.pc \in Existing \cup Creating \cup {"unlocked"} =>
       asked = PromptsOf(d)

Sound(d) == OpenInv(d) /\ PendingInv(d) /\ FactorInv(d) /\ LiveInv(d) /\ PlanInv(d)

DialogueInv == Sound(dialogue) /\ Prompted(dialogue, dialogue.asked)

EstimateInv == ShownInv(dialogue)
=============================================================================
