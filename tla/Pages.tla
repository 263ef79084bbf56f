-------------------------------- MODULE Pages --------------------------------
(***************************************************************************)
(* What the main window shows of a snapshot and of a run, and what it lets *)
(* the user start: the hero and the notes of Create backup, the list and   *)
(* the selection of Restore backup, the result card                        *)
(* (internal/gui/view).  Backup runs, lost files, edits of config.yaml,    *)
(* drives and YubiKeys change what is shown; the window shows a snapshot   *)
(* of the current state (module Window has the delays).                    *)
(***************************************************************************)
EXTENDS Health

CONSTANTS
  MaxChanges       \* bound: changes of the sources, the drive, the YubiKeys and
                   \* config.yaml, parts lost or damaged, bases that
                   \* cannot be loaded, crashes

VARIABLES
  run,             \* the operation of the flow (flow.Run), a backup
  changes

envVars == <<readable, drive, yubikeys, now, changes>>
dirVars == <<disk, log, failed, unread>>
pagesVars == <<configVars, envVars, dirVars, run>>

-----------------------------------------------------------------------------
(* Create backup *)

\* backupProblems: the hero leaves out what the Restore backup page lists.
HeroProblems(snap) ==
  {p \in snap.problems : p.code \notin {"BASE_MISSING", "SET_INCOMPLETE", "INCOMPLETE_NEWEST"}}

\* The order of problems, the most urgent first: errors, then warnings.
ErrorOrder == <<"YUBIKEYS_CONNECTED", "BACKUP_DIR_UNREACHABLE", "BACKUP_DIR_NOT_WRITABLE",
                "SOURCE_INVALID", "VERIFY_FAILED">>
WarningOrder == <<"OVERDUE", "FOLDER_NOT_BACKED_UP", "SKIPPED_FILES", "SPACE_LOW",
                  "BACKUP_DIR_NOT_WRITABLE">>
MostUrgent(problems) ==
  LET errors == {p.code : p \in {q \in problems : q.error}}
      codes == IF errors = {} THEN {p.code : p \in problems} ELSE errors
      order == IF errors = {} THEN WarningOrder ELSE ErrorOrder
      first == CHOOSE i \in DOMAIN order :
                 order[i] \in codes /\ \A j \in 1 .. i - 1 : order[j] \notin codes
  IN order[first]

\* problemHero: the fix of the most urgent problem.
FixOf(code) ==
  CASE code \in {"VERIFY_FAILED", "OVERDUE", "FOLDER_NOT_BACKED_UP", "SKIPPED_FILES"} -> "backUp"
    [] code = "SPACE_LOW" -> "showBackups"
    [] OTHER -> "checkAgain"

HeroWith(title, primary, snap) ==
  [title |-> title, primary |-> primary, enabled |-> primary = "backUp" => ~snap.blocksBackup]

\* Faulty variant: problems of existing backups leave the hero green.
HeroIgnoringBackups(snap) ==
  LET problems == HeroProblems(snap)
  IN IF reloadErr THEN HeroWith("reload", "editConfig", snap)
     ELSE IF snap.state = "empty" THEN HeroWith("empty", "backUp", snap)
     ELSE IF problems = {} THEN HeroWith("protected", "backUp", snap)
     ELSE HeroWith("problem", FixOf(MostUrgent(problems)), snap)

\* heroOf and ReloadErrorHero.
HeroOf(snap) ==
  LET problems == HeroProblems(snap)
  IN IF reloadErr THEN HeroWith("reload", "editConfig", snap)
     ELSE IF snap.state = "empty" THEN HeroWith("empty", "backUp", snap)
     ELSE IF problems = {}
          THEN HeroWith(IF snap.problems = {} THEN "protected" ELSE "ready", "backUp", snap)
     ELSE HeroWith("problem", FixOf(MostUrgent(problems)), snap)

\* lastRunNote and laterRunNote: the newest run with sets failed or was
\* cancelled, or a later one left only its log.
Bad(r) == log[r].result \in {"failed", "cancelled"}

LastRunNote ==
  LET newest == CHOOSE r \in Runs : \A q \in Runs : RunCreated(q) <= RunCreated(r)
      later(t) == \E r \in RunId : Bad(r) /\ log[r].time > t
  IN Listed /\ IF Runs = {} THEN later(0) ELSE Bad(newest) \/ later(RunCreated(newest))

-----------------------------------------------------------------------------
(* Restore backup *)

\* rowOf: a set of the list can be restored and verified.
Usable(e) == Complete(e) /\ ~BaseLost(e)

\* groupsOf without the groups that have no rows: the sets of each run, and the
\* sets that are not complete, by day.
Groups ==
  {SetsOfRun(r) : r \in Runs}
    \cup {{f \in Sets \ CompleteSeen : Created(f) = Created(e)} : e \in Sets \ CompleteSeen}

\* Faulty variant: a filtered selection claims to be the whole backup.
FilteredSelection(r, name) ==
  LET rows == {e \in SetsOfRun(r) : name = 0 \/ e.dir = name}
  IN [sets |-> {e \in rows : Usable(e)}, whole |-> \A e \in rows : Usable(e)]

\* SelectionOf: the sets of run r under the folder filter (0: all folders) that
\* can be restored, and whether they are the whole backup.
Selection(r, name) ==
  LET all == SetsOfRun(r)
      rows == {e \in all : name = 0 \/ e.dir = name}
  IN [sets  |-> {e \in rows : Usable(e)},
      whole |-> (\A e \in rows : Usable(e)) /\ rows = all]

\* problemLines: the problems with an error that the page lists.
ErrorLines ==
  {p \in Snapshot.problems : p.error /\ p.code \in {"BASE_MISSING", "SET_INCOMPLETE", "VERIFY_FAILED"}}

-----------------------------------------------------------------------------
(* The run and its result card *)

\* A change or a fault, within the bound.
Change == changes < MaxChanges /\ changes' = changes + 1

NoRun == [stage |-> "none"]
Finished(result) == [run EXCEPT !.stage = "finished", !.result = result]

\* ResultCardOf: a run without error is green without warnings; NoneRemoved is
\* the line of keptLines on the older backups (module Progress has its folders);
\* Hint is that of AddProblemHint.
Green == run.result = "ok" /\ run.warnings = 0
NoneRemoved == run.result = "cancelled" \/ (run.result = "failed" /\ run.done > 0)
Hint == Green /\ ErrorLines # {}

-----------------------------------------------------------------------------
(* A backup run.  Module BackupDir has its steps in the directory one by one. *)

\* backupPreflightIssues: invalid sources; several YubiKeys for the keys the run
\* uses.  The space and the part count are measured, not read from the snapshot.
PreflightBlocks ==
  LET folders == Folders
      yubikey == IF ExistingKeys = None THEN cfg.yubikey ELSE NeedsYubiKey[ExistingKeys]
  IN (\E i \in DOMAIN folders : folders[i].err) \/ (yubikey /\ yubikeys > 1)

\* The folders of the run in the order of config.yaml, with the entries planned.
PlanOf(folders, id, ks) ==
  LET runnable == Runnable(folders)
      nth(k) == CHOOSE i \in runnable : Cardinality({j \in runnable : j < i}) = k - 1
  IN [k \in 1 .. Cardinality(runnable) |->
        [path  |-> folders[nth(k)].path,
         entry |-> PlanFolder(folders[nth(k)].name, id, now + 1, ks, FALSE)]]

\* The user starts a backup from the hero: removeLeftoverTempParts, choosePlan
\* and the keys.  The clock moves on between two runs.
BackUp ==
  /\ run = NoRun /\ updater = NotUpdating
  /\ now < MaxTime
  /\ LET hero == HeroOf(Snapshot) IN hero.primary = "backUp" /\ hero.enabled
  /\ ~PreflightBlocks
  /\ now' = now + 1
  /\ drive' = IF drive = "new" THEN "ok" ELSE drive
  /\ disk' = [e \in Entry |-> [disk[e] EXCEPT !.temp = {}]]
  /\ \E id \in {r \in RunId : log[r] = NoFact} \ UsedIds, ks \in Key :
       /\ IF ExistingKeys # None THEN ks = ExistingKeys
          ELSE /\ NeedsYubiKey[ks] = cfg.yubikey
               /\ \A e \in Entry : disk[e].key # ks
       /\ run' = [stage    |-> "running",
                  id       |-> id,
                  key      |-> ks,
                  plan     |-> PlanOf(Folders, id, ExistingKeys),
                  done     |-> 0,
                  held     |-> {},
                  warnings |-> Cardinality({i \in DOMAIN Folders : Folders[i].skip}),
                  older    |-> {e \in Entry : Present(e)},
                  result   |-> None]
  /\ UNCHANGED <<configVars, readable, yubikeys, changes, log, failed, unread>>

Running == run.stage = "running"
Current == run.plan[run.done + 1]
SetOfRun(final, parts) ==
  [final |-> final, temp |-> {}, created |-> now, run |-> run.id, key |-> run.key,
   parts |-> parts, large |-> FALSE]

\* The base of the folder's differential cannot be loaded: a full backup is made
\* instead, with a warning, of every folder still to come with that name.
BaseUnusable ==
  /\ Running /\ run.done < Len(run.plan) /\ Change
  /\ IsDiff(Current.entry)
  /\ \A i \in 1 .. run.done : run.plan[i].entry # Current.entry
  /\ LET full == [dir |-> Current.entry.dir, chain |-> run.id, n |-> 0]
         instead(f) == IF f.entry = Current.entry THEN [f EXCEPT !.entry = full] ELSE f
     IN run' = [run EXCEPT !.plan = [i \in DOMAIN run.plan |-> instead(run.plan[i])],
                           !.warnings = @ + 1]
  /\ UNCHANGED <<configVars, readable, drive, yubikeys, now, dirVars>>

\* backupDirectory succeeds, with or without files it could not read.  The name
\* of a set has its date too: what the logs say of an earlier set of the entry is
\* not about the one written now.
FolderDone ==
  /\ Running /\ run.done < Len(run.plan)
  /\ disk' = [disk EXCEPT ![Current.entry] = SetOfRun(1 .. MaxParts, MaxParts)]
  /\ \E skipped \in BOOLEAN :
       /\ unread' = IF skipped THEN unread \cup {Current.entry} ELSE unread \ {Current.entry}
       /\ run' = [run EXCEPT
                    !.done = @ + 1,
                    !.warnings = IF skipped THEN @ + 1 ELSE @,
                    !.held = IF skipped THEN @ \cup {Current.entry.dir} ELSE @]
  /\ failed' = failed \ {Current.entry}
  /\ UNCHANGED <<configVars, envVars, log>>

\* backupFailed: the unfinished set is removed, the older backups are left alone.
\* A cancellation is noticed after the last folder too, before retention.
RunStops ==
  /\ Running
  /\ \E result \in {"failed", "cancelled"} :
       /\ result = "failed" => run.done < Len(run.plan)
       /\ run' = Finished(result)
       /\ log' = [log EXCEPT ![run.id] = [result |-> result, time |-> now]]
  /\ UNCHANGED <<configVars, envVars, disk, failed, unread>>

\* The program ends, also while parts are renamed or written.
Crash ==
  /\ Running /\ Change
  /\ run' = NoRun
  /\ \/ UNCHANGED dirVars
     \/ /\ run.done < Len(run.plan)
        /\ disk' = [disk EXCEPT ![Current.entry] = SetOfRun({1}, 0)]
        /\ failed' = failed \ {Current.entry} /\ unread' = unread \ {Current.entry}
        /\ UNCHANGED log
     \/ /\ run.done < Len(run.plan)
        /\ disk' = [disk EXCEPT ![Current.entry].temp = {1}]
        /\ UNCHANGED <<log, failed, unread>>
  /\ UNCHANGED <<configVars, readable, drive, yubikeys, now>>

\* Faulty variant: retention ignores the folders whose new backup lacks files.
RemovedUnheld ==
  {r.entry : r \in UNION {RetentionCandidates(run.plan[i].entry.dir) : i \in DOMAIN run.plan}}

\* applyRetentionPolicy: what it removes of the folders of the run, the ones
\* whose new backup lacks files left out.
Removed ==
  LET names == {run.plan[i].entry.dir : i \in DOMAIN run.plan}
  IN {r.entry : r \in UNION {RetentionCandidates(d) : d \in names \ run.held}}

\* verifyBackupAfterWrite: the sets of the run that fail, each a warning; there
\* is damage on the disk then.
VerifyAfterWrite(bad) ==
  /\ IF bad = {} THEN UNCHANGED changes ELSE Change
  /\ failed' = failed \cup bad

\* The end of a run that wrote every folder: verification, retention, which a
\* failed verification skips, the logs of runs without sets, the fact and the
\* result.  Retention that gives up on an unreadable set is no warning; one that
\* cannot delete is.
RunEnds ==
  /\ Running /\ run.done = Len(run.plan)
  /\ \E bad \in {{}} \cup {{run.plan[i].entry} : i \in DOMAIN run.plan} :
       LET names == {run.plan[i].entry.dir : i \in DOMAIN run.plan}
           skipped == bad # {} \/ RetentionRefused(names)
           fails == ~skipped /\ drive = "sticky" /\ Removed # {}
           warnings == run.warnings + Cardinality(bad) + (IF fails THEN 1 ELSE 0)
           fact == [result |-> IF warnings = 0 THEN "ok" ELSE "warnings", time |-> now]
       IN /\ VerifyAfterWrite(bad)
          /\ disk' = IF skipped \/ fails THEN disk
                     ELSE [e \in Entry |-> IF e \in Removed THEN Nothing ELSE disk[e]]
          /\ run' = [run EXCEPT !.stage = "finished", !.result = "ok", !.warnings = warnings]
          /\ log' = [r \in RunId |-> IF r = run.id THEN fact
                                     ELSE IF skipped \/ drive = "sticky" \/ r \in UsedIds'
                                     THEN log[r] ELSE NoFact]
  /\ UNCHANGED <<configVars, readable, drive, yubikeys, now, unread>>

\* The user closes the result card.
Done ==
  /\ run.stage = "finished"
  /\ run' = NoRun
  /\ UNCHANGED <<configVars, envVars, dirVars>>

-----------------------------------------------------------------------------
(* The user and the machine, between runs *)

Quiet == run = NoRun /\ updater = NotUpdating

\* The user verifies a set of the list, intact or damaged since; the log has the
\* result.
Verify ==
  /\ Quiet /\ ~Snapshot.blocksRestore
  /\ \E e \in {f \in Sets : Usable(f)} :
       \/ failed' = failed \cup {e} /\ Change
       \/ failed' = failed \ {e} /\ UNCHANGED changes
  /\ UNCHANGED <<configVars, readable, drive, yubikeys, now, disk, log, unread, run>>

\* A part file gets lost.
LosePart ==
  /\ Quiet /\ Change
  /\ \E e \in Entry : \E k \in disk[e].final :
       disk' = [disk EXCEPT ![e].final = @ \ {k}]
  /\ UNCHANGED <<configVars, readable, drive, yubikeys, now, log, failed, unread, run>>

\* A source directory is moved away or comes back, under all its spellings.
SourceChanges ==
  /\ Quiet /\ Change
  /\ \E p \in Path :
       LET same == {q \in Path : PathKey[q] = PathKey[p]}
       IN readable' = IF p \in readable THEN readable \ same ELSE readable \cup same
  /\ UNCHANGED <<configVars, drive, yubikeys, now, dirVars, run>>

DriveChanges ==
  /\ Quiet /\ Change
  /\ drive' \in Drive \ {"new", drive}
  /\ UNCHANGED <<configVars, readable, yubikeys, now, dirVars, run>>

YubiKeysChange ==
  /\ Quiet /\ Change
  /\ yubikeys' \in (0 .. 2) \ {yubikeys}
  /\ UNCHANGED <<configVars, readable, drive, now, dirVars, run>>

Tick ==
  /\ Quiet /\ now < MaxTime
  /\ now' = now + 1
  /\ UNCHANGED <<configVars, readable, drive, yubikeys, changes, dirVars, run>>

\* config.yaml changes; a reload is refused while a run is active.
ConfigChanges ==
  /\ run = NoRun
  /\ ConfigNext
  /\ IF file' = file THEN changes' = changes ELSE Change
  /\ UNCHANGED <<readable, drive, yubikeys, now, dirVars, run>>

PagesInit ==
  /\ ConfigInit
  /\ readable = Path /\ drive = "new" /\ yubikeys = 1 /\ now = 0 /\ changes = 0
  /\ disk = [e \in Entry |-> Nothing]
  /\ log = [r \in RunId |-> NoFact]
  /\ failed = {}
  /\ unread = {}
  /\ run = NoRun

PagesNext ==
  \/ BackUp \/ BaseUnusable \/ FolderDone \/ RunStops \/ Crash \/ RunEnds \/ Done
  \/ Verify \/ LosePart \/ SourceChanges \/ DriveChanges \/ YubiKeysChange \/ Tick
  \/ ConfigChanges

PagesSpec == PagesInit /\ [][PagesNext]_pagesVars

-----------------------------------------------------------------------------
(* Properties *)

\* A green hero is true: every configured folder can be read, and its newest
\* backup can be restored with its full backup, lacks no file, has not failed a
\* verification and is not followed by an unfinished one; nor is there a set
\* anywhere in the directory that cannot be used (SPEC-gui 3.5).
ProtectedIsRestorable ==
  HeroOf(Snapshot).title = "protected" =>
    /\ drive \in {"ok", "low"}
    /\ \A i \in DOMAIN cfg.sources : cfg.sources[i] \in readable
    /\ \A i \in Runnable(Folders) :
         \E e \in Backups(Folders[i].name) :
           /\ IsDiff(e) => Complete(FullOf(e)) /\ disk[FullOf(e)].key = disk[e].key
           /\ e \notin unread /\ e \notin failed
           /\ \A f \in Entry : f.dir = e.dir /\ Present(f) => Created(f) <= Created(e)
    /\ \A e \in Entry : ~Unreadable(e) /\ (Complete(e) /\ IsDiff(e) => Complete(FullOf(e)))

\* "Back up now" can be pressed only when the preflight of the run, which looks
\* again and at the keys the run uses, has nothing against the sources and the
\* YubiKeys (OV-2); the space and the part limit are measured only then, and may
\* block the run all the same.
ButtonIsHonest ==
  PreflightBlocks \/ drive \notin {"ok", "low", "new", "sticky"} =>
    LET hero == HeroOf(Snapshot) IN ~(hero.primary = "backUp" /\ hero.enabled)

\* Every backup set in the directory is in exactly one group of Restore backup,
\* and what a selected run offers can be restored: each set is complete, its full
\* backup too and under the same keys.  A selection that claims to be the whole
\* backup has every set of the run.
ListMatchesDisk ==
  /\ LET groups == Groups IN \A e \in Sets : Cardinality({g \in groups : e \in g}) = 1
  /\ \A r \in Runs, name \in Dir \cup {0} :
       LET s == Selection(r, name)
       IN /\ \A e \in s.sets : /\ Complete(e) /\ Complete(FullOf(e))
                               /\ disk[FullOf(e)].key = disk[e].key
          /\ s.whole => s.sets = {e \in Entry : disk[e].run = r /\ Complete(e)}

\* The result card says what the run left in the directory: green means that
\* every folder has its new set with all files, that everything else there can be
\* used or the hint says otherwise; a run that says it removed none of the older
\* backups removed none, nor did one whose new backup lacks files (BR-7).  When
\* the newest backup failed or was cancelled, the Folders card tells it, whether
\* or not the run left a complete set (OV-5).
CardIsTrue ==
  /\ \A r \in RunId : /\ Listed /\ Bad(r)
                      /\ \A e \in CompleteSets : Created(e) <= log[r].time
                      => LastRunNote
  /\ run.stage = "finished" =>
    /\ Green =>
         /\ \A i \in DOMAIN run.plan : /\ Complete(run.plan[i].entry)
                                       /\ run.plan[i].entry \notin unread
         /\ ~Hint => \A e \in Sets : ~Unreadable(e) /\ e \notin failed
    /\ NoneRemoved => \A e \in run.older : Present(e)
    /\ \A d \in run.held : \A e \in run.older : e.dir = d => Present(e)

-----------------------------------------------------------------------------
(* The inductive invariant.                                                *)

Results == {"ok", "warnings", "failed", "cancelled"}
Facts == [result : Results \cup {None}, time : 0 .. MaxTime]

DirectoryType ==
  /\ disk \in [Entry -> SetFiles]
  /\ log \in [RunId -> Facts]
  /\ readable \subseteq Path /\ drive \in Drive /\ yubikeys \in 0 .. 2 /\ now \in 0 .. MaxTime

RunType ==
  run # NoRun =>
    /\ DOMAIN run = {"stage", "id", "key", "plan", "done", "held", "warnings", "older", "result"}
    /\ run.stage \in {"running", "finished"} /\ run.id \in RunId /\ run.key \in Key
    /\ run.plan \in Seq([path : Path, entry : Entry]) /\ run.done \in 0 .. Len(run.plan)
    /\ run.warnings \in Nat

\* A chain has one key set: a differential is planned only with the keys of its
\* full backup, and a chain ID is new when a full backup takes it.
ChainKeys ==
  \A e \in Entry : Present(e) /\ IsDiff(e) /\ Present(FullOf(e)) => disk[FullOf(e)].key = disk[e].key

\* No two runs have the same time, so the sets created when a run logged its
\* result are its own.
RunTimes ==
  /\ \A e \in Entry : Present(e) => Created(e) <= now
  /\ \A r \in RunId : log[r].result # None =>
       /\ log[r].time \in 1 .. now
       /\ \A e \in Entry : Present(e) /\ Created(e) = log[r].time => disk[e].run = r

\* What a run planned still fits the directory, and what it wrote is there.
Planned(e) ==
  IF IsDiff(e)
  THEN /\ FullOf(e) \in Fulls(e.dir) /\ disk[FullOf(e)].key = run.key
       /\ \A b \in Fulls(e.dir) : Created(b) <= Created(FullOf(e))
       /\ \A f \in DiffsOf(FullOf(e)) : f.n <= e.n
  ELSE e.chain = run.id

Written(e) ==
  /\ Complete(e) /\ Created(e) = now
  /\ run.warnings = 0 => e \notin unread

RunningInv ==
  Running =>
    /\ \A r \in RunId : log[r].result # None => log[r].time < now
    /\ now >= 1
    /\ \A e \in Entry : Present(e) => /\ Created(e) = now => disk[e].run = run.id
                                      /\ e.chain = run.id => disk[e].key = run.key
    /\ \A e \in run.older : e \in Entry /\ Present(e)
    /\ \A i \in DOMAIN run.plan : Planned(run.plan[i].entry)
    /\ \A i \in 1 .. run.done : Written(run.plan[i].entry)
    /\ \A i, j \in DOMAIN run.plan :
         run.plan[i].entry.dir = run.plan[j].entry.dir => run.plan[i].entry = run.plan[j].entry

\* A finished run stays on the card; nothing else happens before it is closed.
FinishedInv ==
  run.stage = "finished" =>
    /\ Green => \A i \in DOMAIN run.plan : /\ Complete(run.plan[i].entry)
                                           /\ run.plan[i].entry \notin unread
    /\ NoneRemoved => \A e \in run.older : Present(e)
    /\ \A d \in run.held : \A e \in run.older : e.dir = d => Present(e)

PagesInv ==
  /\ ConfigInv /\ DirectoryType /\ RunType
  /\ ChainKeys /\ RunTimes /\ RunningInv /\ FinishedInv
==============================================================================
