----------------------------- MODULE Preflight ------------------------------
(***************************************************************************)
(* The checks before a backup (workflow/backup/preflight.go) and the       *)
(* window that shows its plan (gui/view/plan.go): the sources are measured *)
(* once, for the automatic plan, and the space of every plan the user      *)
(* looks at is estimated from that measurement.  The free space is queried *)
(* anew for the check, which decides, and for the number the window shows. *)
(*                                                                         *)
(* A source is what the file system holds for a source directory: `state'  *)
(* says whether it resolved ("ok", "err", or "skip" for a duplicate),      *)
(* `gone' that it cannot be opened any more; a file has a size, the newer  *)
(* of its write and creation times as `new' (since the full backup or not) *)
(* and the marks `excluded' and `listed' (its entry can be read).          *)
(***************************************************************************)
EXTENDS Naturals, Sequences, FiniteSetsExt

CONSTANTS
    None,             \* no value (Go's nil)
    MaxPartSequence,  \* naming.MaxPartSequence
    SplitSize         \* split_size_mb

ASSUME PreflightAssumption == {MaxPartSequence, SplitSize} \subseteq Nat \ {0}

partCountSafetyMarginPercent == 5

Over(names, size) == MapThenSumSet(LAMBDA n : size[n], names)
SizeOf(files) == Over(files, [f \in files |-> f.size])

\* The sources the run backs up.
Backed(sources) == {n \in DOMAIN sources : sources[n].state = "ok"}

-----------------------------------------------------------------------------
(* Measuring                                                               *)

\* MeasureSource with a base: all files that would be backed up, and those of
\* them written or created since.
MeasureSource(src) ==
    LET kept == {f \in src.files : f.listed /\ ~f.excluded} IN
    [total |-> SizeOf(kept), changed |-> SizeOf({f \in kept : f.new})]

\* measureSources: `diffs' are the folders with a differential in the automatic
\* plan.  A source that cannot be opened is left out, with a warning.
MeasureSources(sources, diffs) ==
    [n \in {m \in Backed(sources) : ~sources[m].gone} |->
        [measure |-> MeasureSource(sources[n]), diff |-> n \in diffs]]

\* Faulty variant: what was measured for a differential is used for full backups.
FaultyEstimate(sizes, diffs) ==
    LET likely == [n \in DOMAIN sizes |-> IF sizes[n].diff THEN sizes[n].measure.changed
                                                          ELSE sizes[n].measure.total]
        full == [n \in DOMAIN sizes |-> sizes[n].measure.total] IN
    [full |-> Over(DOMAIN sizes, full), likely |-> Over(DOMAIN sizes, likely),
     anyDiff |-> \E n \in DOMAIN sizes : sizes[n].diff, folders |-> likely]

\* sourceSizes.estimate for a plan whose differentials are `diffs'.
Estimate(sizes, diffs) ==
    LET full == [n \in DOMAIN sizes |-> sizes[n].measure.total]
        isDiff(n) == n \in diffs /\ sizes[n].diff
        likely == [n \in DOMAIN sizes |-> IF isDiff(n) THEN sizes[n].measure.changed ELSE full[n]] IN
    [full    |-> Over(DOMAIN sizes, full),
     likely  |-> Over(DOMAIN sizes, likely),
     anyDiff |-> \E n \in DOMAIN sizes : isDiff(n),
     folders |-> likely]

-----------------------------------------------------------------------------
(* The checks                                                              *)

estimatePartCount(size) == (size + SplitSize - 1) \div SplitSize
estimatePartCountWithMargin(size) ==
    estimatePartCount(size + (size * partCountSafetyMarginPercent) \div 100)

\* validateBackupPartCount: DirectorySizeBytes counts excluded files too, and
\* fails on an entry it cannot read; the source is then not checked.
PartLimit(sources) ==
    \E n \in Backed(sources) :
       /\ ~sources[n].gone /\ \A f \in sources[n].files : f.listed
       /\ estimatePartCountWithMargin(SizeOf(sources[n].files)) > MaxPartSequence

\* validateTargetSpaceForBackup with the free space its own query finds; nothing
\* is said when the query fails.
TargetSpace(est, checked) ==
    IF checked = None THEN "ok"
    ELSE IF est.likely > checked THEN "error"
    ELSE IF est.anyDiff /\ est.full > checked THEN "warning"
    ELSE "ok"

\* backupPreflightIssues: the codes of the checks that block.
BlockingIssues(sources, est, checked, severalYubiKeys) ==
    (IF \E n \in DOMAIN sources : sources[n].state = "err" THEN {"SourceInvalid"} ELSE {})
      \cup (IF TargetSpace(est, checked) = "error" THEN {"SpaceInsufficient"} ELSE {})
      \cup (IF PartLimit(sources) THEN {"PartLimit"} ELSE {})
      \cup (IF severalYubiKeys THEN {"YubiKeysConnected"} ELSE {})

-----------------------------------------------------------------------------
(* The plan window                                                         *)

\* planRow: the planned type and the size the folder likely needs.
PlanRow(n, est, diffs) ==
    [differential |-> n \in diffs,
     about        |-> IF n \in DOMAIN est.folders THEN est.folders[n] ELSE 0]

\* spaceLine: its tone comes from the issues of the check, never from the number
\* it shows.
SpaceTone(est, checked, issues) ==
    IF "SpaceInsufficient" \in issues THEN "error"
    ELSE IF TargetSpace(est, checked) = "warning" THEN "warning"
    ELSE "success"

\* proposal.plan, as BackupPlanOf shows it: `free' is the answer of one more
\* query, after the checks; `checked', what their query found, is history.
PlanShown(sources, est, checked, free, diffs, issues) ==
    [rows    |-> [n \in Backed(sources) |-> PlanRow(n, est, diffs)],
     needed  |-> est.likely,
     free    |-> free,
     checked |-> checked,
     issues  |-> issues,
     tone    |-> SpaceTone(est, checked, issues)]

\* unlockText: the prompts that follow Start, in their order.
UnlockText(new, password, yubikey, recovery) ==
    IF new
    THEN (IF password THEN <<"newpassword">> ELSE <<>>)
           \o (IF yubikey THEN <<"register">> ELSE <<>>)
           \o (IF recovery THEN <<"showcode">> ELSE <<>>)
    ELSE (IF yubikey THEN <<"yubikey">> ELSE <<>>)
           \o (IF password THEN <<"password">> ELSE <<>>)
=============================================================================
