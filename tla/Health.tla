------------------------------- MODULE Health --------------------------------
(***************************************************************************)
(* The health check and the snapshot of the backup state                   *)
(* (internal/workflow/health): functions of the configuration in use, the  *)
(* source directories, the backup directory and its files, the facts in    *)
(* the run logs, the YubiKeys and the clock.                               *)
(***************************************************************************)
EXTENDS Catalog, Sources, Config

CONSTANTS
  NeedsYubiKey,    \* NeedsYubiKey[k]: the authentication mode of key set k
  ReminderLimit    \* reminder_days (0: off)

ASSUME HealthAssumption ==
  /\ Values \subseteq [sources : Seq(Path), yubikey : BOOLEAN]
  /\ \A p \in Path : {Plain[p], Aliased[p]} \subseteq Dir
  /\ DOMAIN NeedsYubiKey = Key
  /\ ReminderLimit \in Nat

VARIABLES
  readable,  \* the paths that ValidateSourceDirectory accepts
  drive,     \* the backup directory: see Drive
  yubikeys,  \* connected YubiKeys
  log,       \* log[r]: the backup fact of the log of run r
  failed,    \* the sets whose newest verification in the logs failed
  unread,    \* the sets whose log fact counts skipped or stale files
  now

\* The backup directory is fine; has too little space for new full backups;
\* does not exist yet; its drive is not connected; it cannot be written; files
\* in it cannot be removed; it does not respond.
Drive == {"ok", "low", "new", "away", "readonly", "sticky", "hung"}

NoFact == [result |-> None, time |-> 0]

-----------------------------------------------------------------------------
(* What the check reads *)

\* catalog.Inventory; the error of a directory that is not there leaves it empty.
Listed == drive \notin {"new", "away", "hung"}
Sets == IF Listed THEN {e \in Entry : Present(e)} ELSE {}
CompleteSeen == {e \in Sets : Complete(e)}

\* BackupRunSummaries: the runs with a complete set, and when they were created.
Runs == {disk[e].run : e \in CompleteSeen}
SetsOfRun(r) == {e \in CompleteSeen : disk[e].run = r}
RunCreated(r) == Created(NewestOf(SetsOfRun(r)))

\* folderStatuses: the newest complete set of a backup name.
Backups(name) == {e \in CompleteSeen : e.dir = name}
Newest(name) == NewestOf(Backups(name))

\* KeysFor: the current keys when they match the configuration, or new ones.
ExistingKeys ==
  LET ks == IF Listed THEN CurrentKeySet ELSE None
  IN IF ks # None /\ NeedsYubiKey[ks] = cfg.yubikey THEN ks ELSE None

\* Checker: a check that does not end in time has read nothing.
Folders == IF drive = "hung" THEN <<>> ELSE ResolveSources(cfg.sources, readable)

-----------------------------------------------------------------------------
(* The health check *)

Item(error, code, scope) == [error |-> error, code |-> code, scope |-> scope]
When(P, x) == IF P THEN {x} ELSE {}

\* checkConfigFileHealth is left out: the file is there.
SourceItems(folders) ==
  {Item(TRUE, "SOURCE_INVALID", "Source") : i \in {j \in DOMAIN folders : folders[j].err}}
    \cup {Item(FALSE, "SOURCE_DUPLICATE", "Source") :
            i \in {j \in DOMAIN folders : ~folders[j].err /\ folders[j].skip}}

\* checkBackupDirectoryHealth and probeWriteAccess; unresponsive.
DirectoryItems ==
  CASE drive \in {"away", "hung"} -> {Item(TRUE, "BACKUP_DIR_UNREACHABLE", "BackupDir")}
    [] drive = "new"              -> {Item(FALSE, "BACKUP_DIR_NEW", "BackupDir")}
    [] drive = "readonly"         -> {Item(TRUE, "BACKUP_DIR_NOT_WRITABLE", "BackupDir")}
    [] drive = "sticky"           -> {Item(FALSE, "BACKUP_DIR_NOT_WRITABLE", "BackupDir")}
    [] OTHER                      -> {}

\* Faulty variant: several YubiKeys are only a warning.
YubiKeyWarnings ==
  When(cfg.yubikey /\ drive # "hung" /\ yubikeys # 1, Item(FALSE, "YUBIKEYS", "YubiKeys"))

\* checkYubiKeyHealth.
YubiKeyItems ==
  IF ~cfg.yubikey \/ drive = "hung" THEN {}
  ELSE CASE yubikeys = 0 -> {Item(FALSE, "YUBIKEY_NOT_CONNECTED", "YubiKey")}
         [] yubikeys > 1 -> {Item(TRUE, "YUBIKEYS_CONNECTED", "YubiKeys")}
         [] OTHER        -> {}

\* inventoryItems and checkKeyHealth.  Errors of a backup set block nothing.
BaseLost(e) == IsDiff(e) /\ ~Complete(FullOf(e))
InventoryItems ==
  When(Sets # CompleteSeen, Item(TRUE, "SET_INCOMPLETE", "Set"))
    \cup When(\E e \in CompleteSeen : BaseLost(e), Item(TRUE, "BASE_MISSING", "Set"))
    \cup When(Sets = {}, Item(FALSE, "NO_BACKUPS", "Inventory"))
    \cup When(Listed /\ \E e \in Entry : disk[e].temp # {},
              Item(FALSE, "LEFTOVER_TEMP_FILES", "Inventory"))
    \cup When(CompleteSeen # {} /\ ExistingKeys = None, Item(FALSE, "NEW_KEYS_NEEDED", "Keys"))

Items(folders) == SourceItems(folders) \cup DirectoryItems \cup YubiKeyItems \cup InventoryItems

ErrorScopes(items) == {i.scope : i \in {j \in items : j.error}}
BlocksBackup(items) ==
  ErrorScopes(items) \cap {"Config", "Source", "BackupDir", "YubiKey", "YubiKeys"} # {}
BlocksRestoreOrVerify(items) == ErrorScopes(items) \cap {"Config", "BackupDir", "YubiKey"} # {}

-----------------------------------------------------------------------------
(* Problems and state *)

NoSet == [dir |-> 0, chain |-> None, n |-> 0]
Problem(error, code, name, set) ==
  [error |-> error, code |-> code, folder |-> name, set |-> set]

DirectoryProblems(items) ==
  {Problem(i.error, i.code, 0, NoSet) :
     i \in {j \in items : j.code \in {"BACKUP_DIR_UNREACHABLE", "BACKUP_DIR_NOT_WRITABLE",
                                      "YUBIKEYS_CONNECTED"}}}

FolderProblems(folders) ==
  {Problem(TRUE, "SOURCE_INVALID", folders[i].name, NoSet) :
     i \in {j \in DOMAIN folders : folders[j].err}}

\* baseMissing: one problem per chain, identified by its full backup, whether that
\* is there and can't be used or is gone.
BaseProblems ==
  {Problem(TRUE, "BASE_MISSING", e.dir, FullOf(e)) : e \in {f \in CompleteSeen : BaseLost(f)}}

\* invalidSets: broken, not just incomplete, and not named by a BASE_MISSING.
InvalidSets ==
  {Problem(TRUE, "SET_INCOMPLETE", e.dir, e) :
     e \in {f \in Sets : Unreadable(f) /\ \A p \in BaseProblems : p.set # f}}

\* verifyFailed.
FailedSets ==
  {Problem(TRUE, "VERIFY_FAILED", e.dir, e) : e \in Sets \cap failed}

\* overdue: the newest complete set, of whatever folder, is too old.
Overdue ==
  When(/\ ReminderLimit > 0
       /\ CompleteSeen # {}
       /\ now - Created(NewestOf(CompleteSeen)) >= ReminderLimit,
       Problem(FALSE, "OVERDUE", 0, NoSet))

NotBackedUp(folders) ==
  {Problem(FALSE, "FOLDER_NOT_BACKED_UP", folders[i].name, NoSet) :
     i \in {j \in Runnable(folders) : Runs # {} /\ Backups(folders[j].name) = {}}}

SkippedFiles(folders) ==
  {Problem(FALSE, "SKIPPED_FILES", folders[i].name, Newest(folders[i].name)) :
     i \in {j \in DOMAIN folders : /\ ~folders[j].skip
                                   /\ Backups(folders[j].name) # {}
                                   /\ Newest(folders[j].name) \in unread}}

\* incompleteNewest: probably a crash.
IncompleteNewest(folders) ==
  {Problem(FALSE, "INCOMPLETE_NEWEST", e.dir, e) :
     e \in {f \in Sets : /\ Incomplete(f)
                         /\ \E i \in DOMAIN folders : folders[i].name = f.dir
                         /\ \A g \in Backups(f.dir) : Created(g) < Created(f)}}

\* The free space is compared with the newest full backups of the folders.
SpaceLow(folders) ==
  When(/\ drive = "low"
       /\ \E i \in DOMAIN folders : ~folders[i].skip /\ Fulls(folders[i].name) # {},
       Problem(FALSE, "SPACE_LOW", 0, NoSet))

ProblemsOf(folders, items) ==
  DirectoryProblems(items) \cup FolderProblems(folders) \cup BaseProblems \cup InvalidSets
    \cup FailedSets \cup Overdue \cup NotBackedUp(folders) \cup SkippedFiles(folders)
    \cup IncompleteNewest(folders) \cup SpaceLow(folders)

\* blindingError: it is unknown whether backups exist.
Blinding(p) == p.error /\ p.code \in {"BACKUP_DIR_UNREACHABLE", "BACKUP_DIR_NOT_WRITABLE"}

StateOf(problems) ==
  IF Runs = {} /\ ~(\E p \in problems : Blinding(p)) THEN "empty"
  ELSE IF \E p \in problems : p.error THEN "error"
  ELSE IF problems # {} THEN "warning"
  ELSE "protected"

\* Checker.Run: the snapshot the pages of the window show.
Snapshot ==
  LET folders == Folders
      items == Items(folders)
      problems == ProblemsOf(folders, items)
  IN [folders       |-> folders,
      blocksBackup  |-> BlocksBackup(items),
      blocksRestore |-> BlocksRestoreOrVerify(items),
      problems      |-> problems,
      state         |-> StateOf(problems)]
=============================================================================
