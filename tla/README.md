# RestoreSafe: a verification project

RestoreSafe is a Windows program that backs up directories into encrypted
backup sets, full or differential, and restores and verifies them. This
directory holds TLA+ models of its core, TLC configurations that check them on
small instances, and proofs checked by TLAPS. `PROJECT.json` lists components,
runs, faulty variants, the source lines behind every definition, findings,
hazards and theorems.

## 1. The system

| Component | State | Operations | Hard parts |
|---|---|---|---|
| Backup directory lock (`fsx/lock.go`, `workflow/job/lock.go`) | `restoresafe.lock`, handles and locks of processes | acquire exclusively (backup) or shared (restore, verify), release | several processes; release is three system calls; crashes; read-only media |
| Catalog (`format/catalog`, `format/naming`) | none: reads the part files | inventory, classification of sets, runs | sets with missing, damaged or renamed parts |
| Planning (`workflow/plan`, `backup/preflight.go`) | none | full or differential, key set, number, retention and its preview, space and part limit | decisions from stale headers and sizes, boundaries, order of deletion |
| Backup run (`workflow/backup`) | part files, temporary parts, logs; plan, keys, retention hold | start, unlock, write each set, verify, clean up | killed or failing between any two file operations |
| Set writer (`format/setwriter`, `format/container`) | two pipes, two channels, buffer, parts | build TAR, encrypt, split, trailer, rename | three goroutines, late errors, cancellation |
| Container and chunk streams (`format/container`, `security/cryptox`) | header, chunks, trailer in part files | open, authenticate, decrypt | truncation, parts of other sets |
| Reading a section (`restorepoint/decrypt_pipeline.go`, `container/set.go`) | pipe, error channel | decrypt into a consumer | either side stops first |
| Archive (`format/archive`, `format/manifest`) | source tree, manifest, base manifest, target tree | build, restore, verify | files that change or vanish during the copy |
| Unlocking and enrolment (`workflow/unlock`, `backup/keys.go`, `container/keyset.go`, `gui/flow/ui.go`) | slots, attempts, secrets in memory | password, YubiKey, recovery code, new keys | orders of answers, refusals, changed plans |
| Restore and verify (`workflow/restore`, `workflow/verify`, `workflow/restorepoint`) | target directory, facts in logs | choose, check, extract, report | failure half-way, folders that appear, cancelling |
| Source naming (`Sources`' files in PROJECT.json) | none | backup names, aliases, duplicates | collisions |
| Configuration (`config`, `gui/reload.go`) | `config.yaml` and its copies | load, update | edits and crashes between the steps of an update |
| Health check (`workflow/health`) | snapshot of directory, logs, sources, drive, YubiKeys | report | combinations of faults |
| Main window (`gui/app.go`, `gui/reload.go`, `gui/yubikey.go`, `health/checker.go`) | configuration in use and waiting, snapshot, running check, YubiKey test | reload, check, test, start and end an operation | answers of goroutines that arrive late, timeouts, drives that do not answer |
| GUI flow (`gui/flow`, `gui/operation.go`, dialogs) | running operation, pending question, progress, windows | ask, answer, report, cancel, close | worker and window threads, nested message loops, coalesced reports |
| Pages and cards (`gui/view`) | what is claimed and enabled | hero, list, selection, cards, plan window | claims about a directory that changes |
| Widgets and Windows calls, YubiKey access, CI tools | | | drawing and I/O |

How they interact: a backup run takes the exclusive lock, reads the catalog,
plans, asks for the keys, writes one set per source directory with the set
writer (which reads the source through the archive builder and encrypts chunks
into parts), optionally verifies them through the reading pipeline, and applies
retention. Restore and verify take the shared lock, read sets through the same
pipeline and append facts to the logs, from which the health check later tells
what is sound. The GUI runs each of them in a worker goroutine, answers its
questions through a bridge, and shows snapshots and results.

What makes them correct: a backup never overlaps another operation in its
directory; every differential on offer can be restored with one unlock; an
interrupted run never looks complete and never blocks the next one; retention
removes old chains only, safely, and what was announced; a set reported as
written is whole; what is reported as read is what was written; keys are had
only for their factors; nobody waits forever; and what the windows claim of
backups, folders and results is true.

## 2. Modules

| Module | Models | Uses |
|---|---|---|
| `RWLock` | abstract reader-writer lock | |
| `BackupLock` | lock file, one action per system call | refines `RWLock` |
| `Catalog` | inventory, planning and retention as functions of `disk` | |
| `BackupDir` | backup runs on the directory, one action per file operation | extends `Catalog`, refines `RestorePoints` |
| `RestorePoints` | abstract set of restore points | |
| `SetWriter` | `setwriter.Write` and its goroutines | |
| `Container` | header, chunks, trailer and part files; what opens and authenticates | |
| `ReadPipeline` | decryption goroutine and consumer | |
| `WriteAndRead` | a set is written, its files meet accidents, it is opened and read | extends `SetWriter`, `Container`, instance of `ReadPipeline` |
| `Archive` | `BuildTar` over a source directory that changes meanwhile; manifest entries | |
| `Restore` | restoring and checking the sets of `Archive` | extends `Archive` |
| `Preflight` | sizes, space, part limit and rows of a backup plan, as operators | |
| `Unlock` | the dialogue that unlocks or creates keys and settles the plan | extends `Preflight` |
| `ReadRun` | restores and verifications of several processes, from lock to log | |
| `Sources` | backup names of the configured paths, as operators | |
| `Config` | `config.yaml`: edits, loading, update with its copy | |
| `Health` | what a snapshot reports, as operators | extends `Catalog`, `Sources`, `Config` |
| `Pages` | pages and result card over runs, faults and changes | extends `Health` |
| `Progress` | reports of the worker, bridge, machine, folders claimed | |
| `RestoreWindow` | the Restore window, its checks and the operations it starts | extends `Progress` |
| `Window` | what the main window knows: configuration, snapshot, YubiKey test | |
| `Flow` | an operation between its worker and the UI thread: questions, dialogs, cancelling, closing | |
| `MCBackupLock`, `MCBackupDir`, `MCRestore`, `MCUnlock`, `MCReadRun`, `MCPages`, `MCWindow` | instances for TLC | |
| `BackupDirProofs`, `WriteAndReadProofs`, `RestoreProofs`, `ReadRunProofs`, `RestoreWindowProofs`, `FlowProofs` | theorems | each extends its module |
| `GatewayProofs` | theorems about what comes before any file is touched: lock and keys | extends `BackupLock`, `Unlock` |
| `WindowProofs` | theorems about the main window and its pages | extends `Window`, `Pages` |

### BackupLock
A process is `idle`, has `opened` the file, is `running`, has `unlocked` or
`closed` it. `file` is the identity of the file at the lock's path; a lock
belongs to that identity and not to the path, which is what makes removing the
file delicate. `Open`, `OpenReadOnly` and `RunWithoutLock` are the three ways
`AcquireReadLock` can go; a backup only has the first. `Grantable` and
`Removable` are Windows' rules (external). The model keeps the removal race:
between `Close` and `Remove` another process may open the file, and Windows then
refuses the removal.

### Catalog and BackupDir
A set is identified by directory, chain (the run ID of its full backup) and
number. `disk[e]` has the numbers of its parts under final and temporary names
and the content the header and trailer would show. A set with a gap is
`Unreadable` (`ErrMissingParts`), one without a trailer is `Incomplete`
(`ErrIncomplete`); retention treats them differently. `PlanFolder` and
`RetentionCandidates` translate `planFolder` and `retentionCandidates`;
`Foreseen` evaluates the latter on the imagined inventory of the preview.

A run goes through `planned`, `running`, `writing`, `renaming` and `cleaning`;
each step creates, renames or deletes one file, and `Crash` may follow any. The
directory is locked (module `BackupLock`), so there is one run at a time.
`Lose` is another program that deletes a part file. `top` is a history variable:
the highest number a differential of each full backup ever had.

Abstractions: the date in file names is left out (chain and number identify a
set); time is counted in ticks, the parts of a set have the tick of its header;
`large` stands for "at least `max_size_percent` of the full backup"; directories
are numbered in alphabetical order; damaged or renamed sets and 1.x files are
left out.

### SetWriter
The TAR goroutine (`tpc`), the manifest goroutine (`fpc`) and the caller (`pc`)
over a data pipe, a manifest pipe, `tarErrCh` and `fnErr`. Pipes are
synchronous: a write is an offer the reader takes or refuses. Data is counted in
units (header, chunk, trailer), parts are `PartSize` units, and the buffer in
front of the split writer holds `BufSize`: an error surfaces when the buffer is
flushed, perhaps several units late. `Flush` may fail after any number of units,
with or without having opened the next part.

### Container, ReadPipeline and WriteAndRead
A set is a sequence of units: its header, the chunks of the data and of the
manifest section, the trailer; part files hold `PartSize` units each. A chunk
carries what it was sealed for: set (header hash and derived key), section,
index, final flag. `Fault` is what `OpenSet` says without a key, in the order of
its checks; `Open` measures the part files once, so that later reads go by the
places of that moment (`Layout`, `ReadAt`). `Decrypted` is how far
`DecryptStream` gets.

`ReadPipeline` has the decryption (`dpc`) and the consumer (`cpc`): `size` chunks
can be decrypted, `damage` says that the section then ends badly, and a part may
become unreadable at any moment. `section` selects the rule by which the two
errors are ranked.

`WriteAndRead` runs `SetWriter`, puts the renamed parts on the disk, lets
accidents happen before the set is opened and between its sections (a part lost,
cut off or damaged, parts exchanged with each other or with those of a set of
the same length and the same keys), and reads manifest and data. `got` is what
was decrypted. Parts that grow after the set was opened are left out.

### Archive
A file is a sequence of blocks, each the time of its last write; `disk` also has
its last-write time, which a program may set back, and its change time, which
nobody can. Other programs overwrite, extend and shorten files, delete and
create them and empty folders at any moment, except that a file `BuildTar` has
open can't be deleted (`openSource` shares reading and writing only). `BuildTar`
takes one step per observation: listing a directory (with the sizes `d.Info`
returns later), metadata of a folder, of a file of the full backup, opening a
file and its times, its size, every block, the probe for one more byte.
Every one may fail; `skipUnreadable` then decides. SHA-256 is the content
itself. The entries of a directory come in any order, because names are model
values. On Windows `d.Info` returns what the listing said and does not fail, so
`unstatable` has no action. Excludes, special files and path rules only decide
which paths there are.

The change time is taken to be new for every write, as `unchanged` says of NTFS.
NTFS may update it as late as the writer closes its handle; until then the
properties hold for the content at the last update only.

### Restore
`Begin` covers `read` up to `NewRestorer`: in this model the full backup is
always the differential's own (`checkBaseLink`). `ReadEntry` is one turn of the
loop of `ExtractSection`: `refused` means the restorer found the backup damaged.
Damaged data and cancelled reads are `ReadPipeline`'s subject; here any step may
fail. The source directory rests during a restore, which reads nothing of it.

### Preflight and Unlock
`Preflight` translates the sizes behind a plan: the sources are measured once,
for the automatic plan, and every plan the user may choose is estimated from
that. Sizes are small numbers; the part size and the part limit are scaled with
them (`SplitSize`, `MaxPartSequence`), the 5 % margin is not. The free space is
queried three times for one plan: for the text of the details, for the check,
and for the number the window shows. The model has the last two as values of
their own, `checked` and `free`, each of which may be unknown; the check decides
about the plan and the tone of its space line.

`Unlock` is one record, `dialogue`. Between two answers the workflow meets
nobody, so an action is one answer of the user or of the YubiKey, and a function
from record to record is what the code does until the next question. A slot
opens with its secret and no other; a secret is what was typed together with
what the YubiKey derived. `live` has every secret byte slice that nobody has
zeroed. `given`, `tried` and `asked` are history: the factors behind each master
key, the keys each password was tried on, the prompts shown. An answer of the
window is an answer of the workflow here: a password typed into a dialog whose
run has been cancelled beneath it (`gui/questions.go:118`) never reaches it.

### ReadRun
A process goes from the lock through inventory, log, checks, start question and
keys to its entries; `Restore`, `ReadPipeline` and `Unlock` are outcomes here.
`disk` says of each piece of a set (header and trailer, manifest section, data
section) whether it is sound, damaged or gone. An entry opens its set and the
full backup, then reads one section after the other (`Sections`); a piece may go
bad before, while and after it is read. `fit` says whether a section was sound as
its reading began: only then can it be read to its end. What is read is logged in
a later step. Every entry may also stop with an error of the moment: a file that
can't be opened or read, a folder that can't be made, a destination that can't be
written. `was` is history: whether the restore point was sound when its entry
began. `dest[f]` says who wrote into a folder of the destination and whether it
is whole; `log` has the facts in file order. A backup's retention removes parts
only while nobody holds the lock, except of processes that run without one
(read-only media).

### Sources, Config, Health and Pages
`Sources` and `Health` are functions of the state: names, items, problems,
state and blocked actions, in the order of the code. `Pages` adds what the
window makes of a snapshot (hero, notes, list, selection, card), a backup run in
a few steps (`BackupDir` has the fine ones), and the environment: crashes, lost
and damaged parts, full backups that can't be loaded as a base (`BaseUnusable`),
sources, drive, YubiKeys, the user's edits. The snapshot is
always of the current state; `Window` has its delays. In `Config` the update is
reading, copying and replacing, each a step; edits and a restart may come in
between. A text is its effective values, whether it is outdated, and who wrote
it.

What the logs say of a set is a fact of the set's name, and the name has its
date: `FolderDone` and a crash while parts are written therefore drop what
`failed` and `unread` say of an earlier set of the same entry. Two sets of one
entry on one day, which would share a name, are left out with the date. Two
folders of a run never have the same name unless an alias equals another
folder's base name; their base is then loaded once for both.

### Progress and RestoreWindow
The worker reports its step and folder; the bridge keeps one report and one
message announces it; `machine` concludes from the reports it happens to take
which folders are done. `whole` is the truth on disk. `RestoreWindow` adds the
window with its choices and their number (`win.seq`), the goroutines that check
choices, the one answer the main window keeps (`pending`) and the restore whose
plan replaces the check. All messages go through one queue (`posted`).

### Window
Handlers of the UI thread are actions; so are the steps of five goroutines: the
reader of the file (`reload`), the caller of a check (`caller`), the attempt on
the drive it waits for (`flight`), the operation (`op`) and the YubiKey test
(`yk.tester`). `checking`, `reloading`, `Busy` and `testing` are the flags of
`app`, which are set exactly while the goroutine or its unhandled answer exists.
`startCheck` does nothing while a check runs; `useConfig` then asks for another
one (`recheck`). The caller gives up after `SnapshotTimeout`, the attempt goes
on, and the next caller waits for it instead of starting one: `own` tells
whether a snapshot comes from an attempt its caller started. Keys are numbers
that stand for their creation time, 0 for none; `yk.created` is `keysCreated`.
`alone` tells that no check overlapped a YubiKey test. The file may hold
anything whenever it is read. An operation ends with new keys or without, with
or without having started. Posted messages arrive (the code ignores the error
of `PostMessage`).

### Flow
`worker` is the goroutine of `startOperation`: it shows a plan, asks to start,
asks for credentials, works, and may end at any point; what it asks is a choice
of the model within these phases. `app` is the state of the UI thread: the run
of `Machine` (`stage`, `op`, `started`, `closing`), `app.run` with its `Bridge`,
the plan, Verify and Restore windows with the question each holds, the disabled
windows, the posted messages in their order, and `frames`. A credential dialog
or a confirmation runs a message loop inside the handler that opened it. The top
loop dispatches messages for every window, so a dialog below it can be answered,
but its handler goes on (`Continue`) only when the loops above have ended
(`Return`). The handlers and their helpers are functions from `app` to `app`
that keep the names and the order of the code's calls. Queueing a question and
announcing it are two steps, and so are sending the worker's end and posting its
message. `WM_CLOSE` reaches the window whether it is disabled or not; buttons
need their window enabled. Windows' rule for the owner of a task dialog
(disabled while it is open, enabled again if it was) is external. After
`onEndSession` Windows ends the process.

## 3. Runs

| Run | Instance | Shows |
|---|---|---|
| `lock` | 3 processes, 2 file identities | `NoSilentOverlap`, refinement of `RWLock` (`ImplementsRWLock`) |
| `directory` | 1 directory, 3 run IDs, 4 ticks, 2 parts, numbers up to 2, keep 1 chain and 1 differential, one part lost to others | `DifferentialsUsable`, `NumberNotReused`, `LogsKept`, `PreviewKept`, `RetentionIsSafe`, refinement of `RestorePoints` (`ImplementsRestorePoints`) |
| `cleanup_blocked` | as `directory` | finding: `CleanupNeverBlocked` is violated, see 5 |
| `archive_restore` | 2 files of 2 and 1 blocks, one in a folder, 2 changes by other programs | `UnchangedIsSame`, `SoundSetsAccepted`, `RestoredAsBackedUp` |
| `write_and_read` | up to 3 full chunks of data and 2 of the manifest, buffer 2, parts of 2, one accident | `WholeSetOnSuccess`, `SuccessMeansAll`, `WriteReturns`, `ReadReturns` |
| `window` | 2 configurations with keys, one backup with new keys | `ConfigHeld`, `SnapshotOfConfig`, `TestOfShownKeys`, `CheckEnds` |
| `old_snapshot` | same, no new keys | finding: `SnapshotForCaller` is violated, see 5 |
| `flow` | 2 operations of 4 questions each, 2 loops open when a confirmation is opened | `NoLostMessage`, `WorkIsConfirmed`, `CancelCompletes` |
| `unlock` | 4 stored key sets of all modes, 2 passwords, 1 YubiKey, 5 pairs of sources, 3 values of free space | `KeysProven`, `SecretsZeroed`, `PasswordForItsKeys`, `KeysAsPlanned`, `PlanFits`, `DialogueEnds` |
| `operations` | 2 processes, 3 sets, one of them a differential, 1 fault | `FactsTrue`, `RestoredWhole`, `FailureHasCause` |
| `pages` | 3 paths (two of one directory), 2 runs, 2 key sets, 3 texts of `config.yaml`, 2 ticks, 2 changes | `ProtectedIsRestorable`, `ButtonIsHonest`, `ListMatchesDisk`, `CardIsTrue`, `UpdateHasCopy` |
| `restore_window` | 2 windows, 3 sets, 2 checks, 1 operation of up to 2 folders | `ClaimsAreTrue`, `LatestIsShown`, `CheckIsOfChoices`, `StartSettles` |

Bounds. Two file identities are enough for "the file at the path and another
one"; three processes give a holder, a waiter and a remover. Four ticks
(`MaxTime`) are four runs: a full backup, a differential, one more of each, so
that a chain becomes old, a differential surplus, a number free and the interval
(3) elapses. Two parts give a set with its first part, with its last part, and
with both; `MaxLosses` 1 lets somebody else break one set. `MaxDiffNumber` 2
makes the limit of the chain reachable. With three chunks and parts of two
units, sets end inside a part and exactly at its end, and a blocked goroutine
still has a chunk to offer when a write fails; one accident (`MaxDamages`) may
exchange any parts with another set's at once. In `archive_restore` two blocks
let a file be torn, grow and shrink, two changes fall before, during or between
the runs, and a second file lets TAR streams hold several entries. In `window`,
two configurations are the old and the new one; reloads, checks, tests and
operations are not bounded, only new keys (`MaxKeys`). In `flow`, two operations
let a dialog of the first meet the second; four questions (`MaxAsks`) are a plan,
its start, a credential dialog and one more; with two loops open (`MaxFrames`), a
third can still be opened by a question of the worker. In `unlock`, requests name
up to three sets (`MaxSets`), so that key sets repeat and follow each other;
`MaxRetries` bounds only retries of a refused YubiKey and changes of plan, which
the code does not bound; free space lies below, between and unknown relative to
the needs, and a source sits at the part limit. In `operations`, one fault
(`MaxFaults`) breaks any piece of any set before, while or after either process
reads it; errors of the moment and cancellations are not bounded. The one
selection there is a differential, read with its full backup, and a set of another
folder; two sets of one folder in a selection, of which the second meets what the
first has made, are left to the theorem (`FailuresHaveCauses`). In `pages`, two
changes (`MaxChanges`) meet each other or a run; two runs give a full backup and a
differential or a failed run after a good one. In `restore_window`, two windows (`MaxWindows`) with one
check each (`MaxChecks`), up to three changes of the choices (`MaxSeq`) and one
operation (`MaxRuns`) let an earlier check end after a later one, and
`MaxFolders` 2 is a folder that is done and one under way.

`BackupDir` and `Pages` runs may end because time, run IDs and changes are
bounded, so deadlock is not checked there; it is in all the others.

Symmetry: run IDs and keys are only compared for equality, as are processes and
file identities. `NewestOf` chooses by time, and the sets it chooses among in a
directory have different times.

Fairness. `SetWriter` and `ReadPipeline` assume weak fairness of each goroutine:
the Go scheduler runs every runnable goroutine, and file operations return.
Nothing is assumed of the user: `Cancel` has no fairness. `Window` assumes that
the goroutine of a check runs, that its context ends after `SnapshotTimeout` and
that its message is handled; the attempt on the drive may block for ever.
`Flow` assumes that the worker's steps happen, that its workflow ends when it
need not wait for an answer (it reads finite directories and checks its
context), that posted messages are handled and that an answered dialog's loop
ends. `RestoreWindow` assumes the same of worker and UI thread, that a check ends
and that a timer fires. `Unlock` assumes that an open question is answered
somehow, since modal dialogs wait for it; which answer is free. No other user
action is fair: open confirmations may stay open for ever.

Faulty variants. Every property has a variant of a definition (marked "Faulty
variant" in the modules) under which TLC finds it violated.

## 4. Proofs

Every theorem holds for all values of the constants that satisfy the named
assumptions, the bounds included. A property is seldom inductive as it stands;
the module of the component defines the invariant that is, as a conjunction of
named parts, and TLC has checked it on the instance of the run before it was
proved.

`GatewayProofs`, the lock: `LockInv` is inductive (`LockInvariant`) for any number of processes and file
identities. The property of interest, `NoSilentOverlap`, is not inductive alone:
it needs that every open handle is on the file at the path, which holds because
a file that is open can't be deleted. `LockRefinement` shows that every step is
a step or a stutter of `RWLock`.

`GatewayProofs`, the dialogue: `DialogueInv` and `EstimateInv` are inductive
(`DialogueInvariant`) for any key sets, passwords, YubiKeys, requests and
sources. An action is a composition of functions from record to record, so a
lemma for each function says what it keeps of `Sound`, whose parts say that a
master key of a key set is there only with the factors of a slot (`FactorInv`),
that a password kept for another attempt is for the key set that is asked for
(`PendingInv`), which secrets may be in memory at each question (`LiveInv`), and
that a backup asks for the keys of the plan it shows (`PlanInv`). `asked` is
compared with the prompts last (`Prompted`), because every answer sets it after
all else. `MasterKeysAreProven`, `SecretsAreZeroed`,
`PasswordsStayWithTheirKeys` and `BackupKeysArePlanned` follow.

`PlansAreEstimated` (`EstimateInv`) is a second pass over the same functions: no
answer after the plan changes it (`Same` and its lemmas), and what is shown is
estimated from the sources as they were measured, for the automatic plan or
without its differentials. For `StartedPlansFit` it remains that an estimate
with no blocking issue fits into the free space its check found; nothing is said
of the number the window shows. The sum of the sizes of finitely many files is
defined by a fold; as induction over data is out of the prover's reach, it is
shown to be the number of units the files have, pairs of a file and a number up
to its size (`OverIsCount`), of which the library's theorems on finite sets say
what is needed. A smallest counterexample (`SmallestExists`) takes the place of
the induction.

`BackupDirProofs`: `DirInv` is inductive (`DirInvariant`) for all sets of directories, run IDs
and keys and all values of the settings. `DifferentialsUsable` needs that
- parts are within the part count (`PartsInRange`): a set with parts left over
  would become complete again;
- nothing is from the future and nothing of this run exists yet where it has
  still to write (`TimesInOrder`): the base is older than the differential, and
  an old chain has a newer one;
- planned entries are free (`PlanFits`) and the one being written has a base
  (`CurrentUsable`);
- a full backup is on the list of removals only together with all its complete
  differentials, which come before it, and a set whose deletion has begun has
  lost its first part (`RemovalsClosed`).

From it follow `UsableDifferentials`, `NoClash` (a new set never meets its own
part names) and `PointsRefinement`: until somebody else removes files, completing
a set adds a restore point whose base is there, deleting the first part of a set
removes one that nothing needs. `LogsStay` has an invariant of its own, `LogInv`:
a run has opened its log before its first set is complete, and a log is deleted
only when no set on the disk names its run.

`NumbersNotReused` and `SafeRetention` rest on `NumberInv`. A number is one more
than the highest on the disk, so that the proof has to show why the highest one
ever given is still there: retention keeps the newest chain, and of that chain
the differential with the highest number, complete or not (`TopKept`). This needs
the order of creation times and numbers within a directory (`SetsInOrder`), that
a plan continues the newest chain (`PlanInOrder`, `CurrentInOrder`) and that for
every set to be removed a later one stays (`RemovalsSafe`). `PreviewIsExact`
needs `ForeseenInv`: from the plan to the cleanup, the imagined inventory differs
from the disk only in the sets of the run, and there only in ways that
`RetentionCandidates` does not see.

`WriteAndReadProofs`: `WriterInv` says, for every step of the three goroutines,
what the pipes' ends and channels tell of each result, which goroutine lives,
and how many units have passed into the buffer and beyond it (`UnitsInOrder`,
with `Emitted` for each step); an output error that has not surfaced yet breaks
only the last. `AWrittenSetIsWhole` follows at the return. For
`WhatIsReadWasWritten`, a part file never holds a unit sealed for this set that
its writer didn't write (`FilesInOrder`); the chunks that decrypt are therefore a
beginning of the section, and the final flag makes it the whole one
(`OpenedInOrder`); `ReadInv` has who may report which error.

`RestoreProofs`: `ArchiveInv` and `RestoreInv` are inductive (`RestoreInvariant`)
for all files, folders, sizes and changes. A change time is never given twice,
so that a file with the change time that was read when it was opened has not
changed since, and what was copied is a beginning of it (`CopyInv`). The walk
comes to each path once, to a folder before its files (`WalkInv`), so the TAR has
each file once and as its entry says, or an entry that was cut off and is marked
(`SoundSet`). A file that nobody has touched since the run began is ahead of the
walk or told by the manifest (`TrueSoFar`), which at the end of the run becomes
`TrueSince`; other programs keep it, because each change gives a new change time
(`LaterSource`). `TheTestIsRight` and the first half of `WhatIsWrittenIsAccepted`
follow. A restore has extracted exactly the files of the set that the section
already passed (`RestoreInv`); each path is in a section once, and a file that
the differential takes over is in the full backup with the same hash and size,
so that no entry is refused and nothing is missing at the end
(`RestoresAreFaithful`).

`ReadRunProofs`: `ReadRunInv` says for each process what it has accepted, holds
and has made (`RunInOrder`, `DestInOrder`), that a folder has one owner, and that
the log has only true facts (`FactsInOrder`). A piece that was not sound when its
entry began is still to be read, or is being read and can't be read to its end
(`ReadInOrder`), so that a restore point that has been read was sound then:
"verified" needs every section, of the full backup too. An error is true from
where it arises until the run has returned (`ErrorInOrder`): pieces don't get
sound again, no part goes while the lock is held, and a folder that is in the way
was made by somebody else or for an earlier set of the run. `LogsAreTrue`,
`RestoresAreWhole` and `FailuresHaveCauses` follow.

`RestoreWindowProofs`: `ProgressInv` compares the machine, which sees some of the
reports, with the worker: a folder before the one reported is whole
(`ReportInOrder`), and when the machine is at another folder than the report that
waits, its own is whole (`MachineInOrder`). `WindowInv` adds the queue of
messages and that a check numbered like the latest one is of the choices shown
(`ChecksInOrder`); numbers start again in each window, so this holds per window.
`TheWindowIsHonest`, `TheLatestIsShown` and `ChecksAreOfTheChoices` follow.

`WindowProofs`, the window: `WindowInv` is inductive (`WindowInvariant`) for any configurations and keys.
`SnapshotOfConfig` alone is not: it needs that a check which runs, unless
another is due, has the configuration in use, and that a caller waits for an
attempt of its own configuration if it started it (`CheckOfConfig`).
`TestOfShownKeys` needs that the noted keys are those of the snapshot shown and
that a test no check overlapped runs with them (`KeysNoted`). From it follow
`OperationKeepsConfig`, `OwnCheckShowsConfig` and `TestFitsKeys`.

`WindowProofs`, the pages: most of what a page claims is a function of one state,
and follows from few facts on it. `TheButtonIsHonest` needs only that an error of
a source, the directory or the YubiKeys is among the items that block a backup
(`Unblocked`). `GreenIsRestorable` needs that no problem of any kind is there
when none is reported (`NoProblem`), and one fact on the past: a chain has one
key set (`ChainKeys`). `TheListMatches` needs the same fact. `TheCardIsTrue` needs
that a set created when a run logged its result is that run's own (`RunTimes`),
so that the note of a failed newest run is not about another one, and that a
finished run's card is about the directory it left (`FinishedInv`).

`PagesInv` is the invariant these facts need (`PagesInvariant`). It holds while a
run writes because what was planned fits until it is written (`RunningInv`): the
full backup of a planned differential is the newest one of its name, has the
run's keys, and no number of its chain is higher; a full backup starts a chain
with an ID nobody uses; and no two folders of a run have the same name. At the
end of the run, retention keeps what it wrote (`WrittenKept`), since it belongs
to the newest chain and is the newest differential of it. `UpdatesHaveCopies`
rests on `ConfigInv` alone: the worker has parsed the text it updates, and has
saved it before it replaces the file.

The proof attempt changed the model in one place: a green card did not follow
while a set kept the facts of an earlier set of its entry (see `Pages` in 2).

`FlowProofs`: the handlers are functions of the UI thread's state, built from a
few helpers, and a lemma for each helper says what it keeps. `FlowInv` is
inductive (`FlowInvariant`) for any number of operations, questions and nested
loops: the worker's question is queued, shown or answered, once (`OneQuestion`);
a queued one is announced (`Messages`); what windows and dialogs hold was shown
(`Holders`), and the question shown is held by one of them. While a handler
answers a question it holds for a moment no longer, which `HeldUnless` allows for
that one. `NoMessageIsLost` follows. `TheStageIsTrue` has the further invariant
`StageInv`: the stage fits the phase of the worker, and an open dialog about a
refused YubiKey belongs to the question that waits. Its proof needed the premise
`[]NoOldLink`, and without it the property is false: see 5.

Assumptions: constants are of the right kind (`CatalogAssumption`,
`MaxLossesAssumption`, `FileIdAssumption`, `FirstKeysAssumption`,
`MaxKeysAssumption`, `NoConfigAssumption`, `SizesAssumption`,
`ArchiveAssumption`, `ReadRunAssumption`, `ProgressAssumption`,
`WindowAssumption`, `BoundsAssumption`, `UnlockAssumption`,
`PreflightAssumption`, `SourcesAssumption`, `ConfigAssumption`,
`HealthAssumption`); stored key sets pass `Validate`, which is called when a
header is read, and their random IDs tell them apart (`StoredAssumption`); what
is measured are finitely many files with sizes (`MeasuredAssumption`);
configurations are sequences of paths, whose base names and aliases are backup
names (`HealthAssumption`); run IDs and the sets in a Restore window
are finitely many; the clock moves forward between runs.

Only model-checked: the liveness properties (`WriteReturns`, `ReadReturns`,
`CheckEnds`, `CancelCompletes`, `DialogueEnds`, `StartSettles`), because fairness
is beyond the prover. About the two runs that show a finding nothing is proved.

## 5. Findings

Each is a run that TLC ends with a violation.

1. `cleanup_blocked`: a cleanup cut short after the first part of a set makes
   every later cleanup refuse to run.
2. `old_snapshot`: after a check that timed out and a reload, the next check
   joins the attempt still running for the previous configuration, and the
   window shows the backups of the previous directory as those of the new one.

More divergences were met while modelling and have no run:
- A full backup that lost its last part is removed as incomplete when a newer
  complete set exists, although differentials that need it are kept
  (`plan/retention.go`: "a full backup is never removed while a kept
  differential depends on it").
- When the worker ends while "Close RestoreSafe?" is open, **Cancel and close**
  marks a run that is over and the window stays open (SPEC-gui 6.4: "then
  closes"). `CancelCompletes` is therefore stated for a busy run.
- A credential dialog that appears over an open confirmation enables the main
  window when it ends. The confirmation can outlive its run, and its **Yes**
  then cancels whichever operation is running.
- **New keys** in the dialog about a refused YubiKey calls `Machine.Replan` when
  the dialog's handler returns (`questions.go:97`), which may be after its backup
  was cancelled and another one was started and confirmed. The stage of that one
  is then planning, and Cancel ends it without asking, although it has its keys
  and works (`flow/machine.go`: "StagePlanning: the workflow plans and asks;
  nothing is written yet"). It takes a credential dialog over the cancel
  confirmation, whose end enables the main window, the Restore window opened
  beside it, and the confirmation of the second backup left open: `StageIsTrue`
  in `Flow` is violated with three operations of three questions and three open
  loops (`MaxRuns`, `MaxAsks`, `MaxFrames` 3). The proof of `WorkIsConfirmed`
  stopped at exactly this step; `NoOldLink` says from which dialogs on it does
  not hold.
- When a part can't be renamed, `setwriter.Write` leaves all parts, although its
  comment says "On error, all parts written so far are removed".
- When a part can't be written, the error of the TAR goroutine, "backup
  aborted", hides the cause that SPEC-gui figure 6.4 shows.
- A folder that is deleted between `addDir` and its listing stays in the
  manifest, although the log counts it as "not in this backup"
  (`backup/workflow.go`).
- The log of an incomplete differential's run is not kept
  (`deleteOrphanLogFiles` says "while any remaining set was written by its run";
  the header of an incomplete set is not read).
- `reading.decrypt` may report the error of the side that failed second ("the
  error of the side that failed first is reported").
- A YubiKey test that a check overlaps keeps its result although the check shows
  other keys (SPEC-gui YK-6); this is why `TestOfShownKeys` asks for `alone`.
- The check after an operation is dropped while another check runs, which may
  have read the directory before the operation ended (SPEC-gui OV-8).
- Numbers of destination checks start again in every Restore window
  (`restoredialog_check.go:53`): the late answer for an earlier window is shown
  as the new one's (`StartIsChecked` in `RestoreWindow` is violated). The main
  window keeps one answer (`app.go:428`), so an older check that ends last
  overwrites the newest, and the window stays at "Checking..."
  (`CheckArrives` is violated; SPEC-gui 16.3).
- `Machine.Done` finishes the current step only without an error, and reports
  are ignored while cancelling: a set that is complete is called unfinished and
  removed, a folder that is complete "incomplete" (`result.go:336`, `449`;
  `UnfinishedIsUnfinished` in `Progress` is violated).
- The 999-part limit rests on an estimate (`preflight.go:213`): it counts
  excluded files and the backup directory, is skipped for a source with an
  unreadable entry, and many tiny files exceed its 5 % margin, so that a source
  can pass and still need part 1000, whose name `naming.go:35` does not accept.
- The space line of the plan is green when the free space is unknown; in a
  restore plan the same is an error of the report. The number it shows is queried
  after the check (`preflight.go:200`, `:411`): when the free space changes in
  between, or one of the queries fails, the line may show a number the plan does
  not fit into, in green, or a sufficient one in red. `PlanFits` is therefore
  about the number the check found.
- A verification that meets an error of the moment (a file another program has
  open, a drive that is pulled out) logs the set as failed, with that error, and
  the window then asks for a new backup (`verify/workflow.go:174`). One that ends
  well says nothing of what went bad behind the reader. `FactsTrue` allows for
  both; data on the disk that is sound but read wrong once is left out.
- "Protected" matches folders by backup name only (`snapshot.go:265`): after a
  configured path is replaced by another with the same base name, the backups of
  the old one protect the new one (SPEC-gui 3.5).
- Base names are grouped case-sensitively; a source that goes missing changes
  the name of another one with the same base name.
- `config.Update` overwrites an edit that the user saved after it had read the
  file; the copy has the text before the edit.
- A verification counts skipped files, a restore skipped and stale ones; the
  facts of a verification go to the log of the first set's run, and the last in
  file order counts as the newest (`facts.go:70`).
- That only one YubiKey is connected is checked with the plan and not again.

## 6. Not modelled

- The YubiKey page with its diagnosis: request numbers guard both sides, and
  what it shows is text about Windows' answers. Its test is in `Window`, the
  answers a YubiKey gives in `Unlock`.
- Widgets, layout, wording and Windows calls of the GUI; CI tools.
- Cryptographic strength, Argon2 parameters, the spelling of recovery codes.
- Parsing: config values and exclude patterns, part file names, manifest lines
  and log lines; the models start from what they mean.
- File attributes, creation times, special files and path rules of the archive;
  they decide which paths exist.
- Clocks that are set back: every order by `created_utc` rests on time moving
  forward.
- Messages that Windows refuses to post (`app.go:301`).

## 7. Plan

Modelled and checked: every component except those of section 6. Proved: every
safety property and both refinements that the runs check, for all values of the
constants; liveness is checked by TLC only.

What is worth doing next:
1. One model of the pages over the steps of `BackupDir` instead of the few steps
   of `Pages`, with the invariants of both: most lemmas of `BackupDirProofs` are
   about the operators of `Catalog` and would serve it.
2. Dates in the names of sets, so that clocks that are set back and two runs of
   one day can be told from runs in order.
3. The YubiKey page and its diagnosis.
