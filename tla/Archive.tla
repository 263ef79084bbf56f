------------------------------- MODULE Archive -------------------------------
(***************************************************************************)
(* Building the content of a backup set (internal/format/archive BuildTar) *)
(* from a source directory whose files are written, cut off, extended,     *)
(* deleted and created while it is read: first a full backup, then a       *)
(* differential against it.                                                *)
(*                                                                         *)
(* A file is a sequence of blocks; a block is the time of its last write,  *)
(* so different contents are different sequences.  SHA-256 is modelled as  *)
(* the content itself.  The change time (NTFS ChangeTime) is the time of   *)
(* the last write and can't be set back; the last-write time can.          *)
(***************************************************************************)
EXTENDS Integers, Sequences

CONSTANTS
  File, Folder,  \* paths in the source directory
  FolderOf,      \* the folder of a file, or Root
  Root,          \* the source directory itself
  MaxSize,       \* bound: blocks of each file
  MaxTime        \* bound: changes of the source directory

ASSUME ArchiveAssumption ==
  /\ File \cap Folder = {} /\ Root \notin File \cup Folder
  /\ FolderOf \in [File -> Folder \cup {Root}]
  /\ MaxSize \in [File -> Nat \ {0}] /\ MaxTime \in Nat

VARIABLES
  \* the source directory
  disk,     \* per file; chg of a deleted file is the time of its deletion
  folders,  \* the folders that exist
  clock,
  \* the sets written: a function on a subset of {"full", "diff"}
  sets,
  \* the run (tarBuilder)
  skipUnreadable,  \* on_unreadable_file: skip
  kind,     \* "idle", "full" or "diff"
  start,    \* when it began
  pending,  \* listed and still to visit
  listed,   \* sizes, as listed
  step, cur,  \* what happens next, and to which path
  meta, size, copied,  \* of the file being copied
  entries, tar  \* manifest and TAR stream so far

srcVars == <<disk, folders, clock>>
copyVars == <<meta, size, copied>>
runVars == <<kind, start, pending, listed, step, cur, copyVars, entries, tar>>
vars == <<srcVars, sets, skipUnreadable, runVars>>

None == "none"

Put(m, k, v) == [x \in DOMAIN m \cup {k} |-> IF x = k THEN v ELSE m[x]]

Children(d) == {f \in File : FolderOf[f] = d /\ disk[f].exists}

Init ==
  /\ disk = [f \in File |-> [exists |-> TRUE, blocks |-> <<0>>, mod |-> 0, chg |-> 0]]
  /\ folders = Folder
  /\ clock = 0
  /\ sets = [k \in {} |-> None]
  /\ skipUnreadable \in BOOLEAN
  /\ kind = "idle" /\ start = 0
  /\ pending = {} /\ listed = [f \in File |-> 0]
  /\ step = "next" /\ cur = Root
  /\ meta = [mod |-> 0, chg |-> 0] /\ size = 0 /\ copied = <<>>
  /\ entries = [p \in {} |-> None] /\ tar = <<>>

-----------------------------------------------------------------------------
(* Other programs *)

Tick == clock < MaxTime /\ clock' = clock + 1

\* openSource shares reading and writing, not deleting.
HeldOpen(f) == step \in {"size", "copy"} /\ cur = f

\* A block is overwritten or added, or the last one cut off.
Rewritten(f) ==
  LET b == disk[f].blocks
  IN {[b EXCEPT ![i] = clock'] : i \in DOMAIN b}
       \cup {c \in {Append(b, clock')} : Len(b) < MaxSize[f]}
       \cup {SubSeq(b, 1, n) : n \in {Len(b) - 1} \cap Nat}

\* A program changes a file, and may set its last-write time back.
Change(f) ==
  /\ Tick
  /\ disk[f].exists
  /\ \E b \in Rewritten(f), m \in {clock', disk[f].mod} :
       disk' = [disk EXCEPT ![f] = [exists |-> TRUE, blocks |-> b, mod |-> m,
                                    chg |-> clock']]
  /\ UNCHANGED <<folders, sets, skipUnreadable, runVars>>

Create(f) ==
  /\ Tick
  /\ ~disk[f].exists
  /\ FolderOf[f] \in folders \cup {Root}
  /\ disk' = [disk EXCEPT ![f] = [exists |-> TRUE, blocks |-> <<clock'>>,
                                  mod |-> clock', chg |-> clock']]
  /\ UNCHANGED <<folders, sets, skipUnreadable, runVars>>

Delete(f) ==
  /\ Tick
  /\ disk[f].exists /\ ~HeldOpen(f)
  /\ disk' = [disk EXCEPT ![f] = [exists |-> FALSE, blocks |-> <<>>, mod |-> 0,
                                  chg |-> clock']]
  /\ UNCHANGED <<folders, sets, skipUnreadable, runVars>>

\* A folder without files is deleted, or created again.
ToggleFolder(d) ==
  /\ Tick
  /\ Children(d) = {}
  /\ folders' = IF d \in folders THEN folders \ {d} ELSE folders \cup {d}
  /\ UNCHANGED <<disk, sets, skipUnreadable, runVars>>

-----------------------------------------------------------------------------
(* Manifest entries *)

DirEntry == [type |-> "dir"]
SkippedEntry(void) == [type |-> "skipped", void |-> void]
\* Faulty variant: the times are those at the end of the copy.
FileEntryTimedLate ==
  [type |-> "file", size |-> size, mod |-> disk[cur].mod, chg |-> disk[cur].chg,
   hash |-> copied, origin |-> kind, inSet |-> TRUE, stale |-> FALSE, void |-> FALSE]

FileEntry == [type |-> "file", size |-> size, mod |-> meta.mod, chg |-> meta.chg,
              hash |-> copied, origin |-> kind, inSet |-> TRUE,
              stale |-> FALSE, void |-> FALSE]

IsFile(m, p) == p \in DOMAIN m /\ m[p].type = "file"

\* baseFiles: the file is in the full backup of this differential.
InBase(f) == kind = "diff" /\ IsFile(sets["full"].entries, f)
Base(f) == sets["full"].entries[f]

\* fromBase
FromBase(f, stale, void) ==
  [Base(f) EXCEPT !.origin = "full", !.inSet = FALSE, !.stale = stale, !.void = void]

\* Faulty variant: the change time is not compared.
UnchangedByModTime(f) ==
  Base(f).size = listed[f] /\ Base(f).mod = disk[f].mod

\* unchanged: the size is the listed one, the times are read now.
Unchanged(f) ==
  /\ Base(f).size = listed[f]
  /\ Base(f).mod = disk[f].mod
  /\ Base(f).chg = disk[f].chg

\* skipFile: an unreadable file; header tells whether its TAR entry was begun.
Skipped(f, header) ==
  IF InBase(f) THEN FromBase(f, TRUE, header) ELSE SkippedEntry(header)

-----------------------------------------------------------------------------
(* The run: filepath.WalkDir calls visit.  Names are model values, so that    *)
(* the entries of a directory come in any order.                              *)

RunIdle ==
  /\ kind' = "idle" /\ start' = 0
  /\ pending' = {} /\ listed' = [f \in File |-> 0]
  /\ step' = "next" /\ cur' = Root
  /\ meta' = [mod |-> 0, chg |-> 0] /\ size' = 0 /\ copied' = <<>>
  /\ entries' = [p \in {} |-> None] /\ tar' = <<>>

Listing(S) == [f \in File |-> IF f \in S THEN Len(disk[f].blocks) ELSE listed[f]]

\* The source directory is listed.
Start(k) ==
  /\ kind = "idle"
  /\ k = IF DOMAIN sets = {} THEN "full" ELSE "diff"
  /\ k \notin DOMAIN sets
  /\ kind' = k /\ start' = clock
  /\ pending' = folders \cup Children(Root)
  /\ listed' = Listing(Children(Root))
  /\ UNCHANGED <<srcVars, sets, skipUnreadable, step, cur, copyVars, entries, tar>>

\* The walk goes on after path p.
Go(p, entries2, tar2) ==
  /\ entries' = entries2 /\ tar' = tar2
  /\ pending' = pending \ {p}
  /\ step' = "next" /\ cur' = Root
  /\ meta' = [mod |-> 0, chg |-> 0] /\ size' = 0 /\ copied' = <<>>
  /\ UNCHANGED <<kind, start, listed>>

\* on_unreadable_file: the walk goes on with these, or ends with an error.
SkipOrAbort(p, entries2, tar2) ==
  \/ skipUnreadable /\ Go(p, entries2, tar2)
  \/ ~skipUnreadable /\ RunIdle

\* ctx is cancelled, or the TAR stream can't be written.
Stop ==
  /\ kind # "idle"
  /\ RunIdle
  /\ UNCHANGED <<srcVars, sets, skipUnreadable>>

\* WalkDir calls visit for p.
Visit(p) == step = "next" /\ p \in pending

\* p goes on with step s1 after its visit.
Proceed(p, s1) ==
  /\ pending' = pending \ {p}
  /\ cur' = p /\ step' = s1
  /\ UNCHANGED <<srcVars, sets, skipUnreadable, kind, start, listed, tar>>

\* addDir; then WalkDir lists the folder.
AddDir(d) ==
  /\ Visit(d) /\ d \in folders
  /\ entries' = Put(entries, d, DirEntry)
  /\ Proceed(d, "list")
  /\ UNCHANGED copyVars

ListFolder ==
  /\ step = "list" /\ cur \in folders
  /\ pending' = pending \cup Children(cur)
  /\ listed' = Listing(Children(cur))
  /\ step' = "next" /\ cur' = Root
  /\ UNCHANGED <<srcVars, sets, skipUnreadable, kind, start, copyVars, entries, tar>>

\* In addDir or while WalkDir lists it.
Reading(d) == Visit(d) \/ (step = "list" /\ cur = d)

\* addDir or unlisted: the folder was deleted.  One that was recorded stays.
FolderVanished(d) ==
  /\ Reading(d) /\ d \notin folders
  /\ Go(d, entries, tar)
  /\ UNCHANGED <<srcVars, sets, skipUnreadable>>

\* addDir or unlisted: the folder can't be read; SkipLastDirectory converts an
\* entry that was recorded.
FolderUnreadable(d) ==
  /\ Reading(d) /\ d \in folders
  /\ SkipOrAbort(d, Put(entries, d, SkippedEntry(FALSE)), tar)
  /\ UNCHANGED <<srcVars, sets, skipUnreadable>>

\* addFile: statBasic finds the file as the full backup recorded it.
KeepUnchanged(f) ==
  /\ Visit(f) /\ InBase(f)
  /\ disk[f].exists /\ Unchanged(f)
  /\ Go(f, Put(entries, f, FromBase(f, FALSE, FALSE)), tar)
  /\ UNCHANGED <<srcVars, sets, skipUnreadable>>

\* addFile: it has changed, or its metadata can't be read.
StoreAnew(f) ==
  /\ Visit(f) /\ InBase(f)
  /\ Proceed(f, "open")
  /\ UNCHANGED <<copyVars, entries>>

\* addFile calls writeFile.
Opening(f) == (Visit(f) /\ ~InBase(f)) \/ (step = "open" /\ cur = f)

\* writeFile: opens the file and reads its metadata.
Open(f) ==
  /\ Opening(f) /\ disk[f].exists
  /\ meta' = [mod |-> disk[f].mod, chg |-> disk[f].chg]
  /\ Proceed(f, "size")
  /\ UNCHANGED <<size, copied, entries>>

\* writeFile: opening it fails: it was deleted, ...
FileVanished(f) ==
  /\ Opening(f) /\ ~disk[f].exists
  /\ Go(f, entries, tar)
  /\ UNCHANGED <<srcVars, sets, skipUnreadable>>

\* ... or another program has it locked, or its metadata or size can't be read.
FileUnreadable(f) ==
  /\ Opening(f) \/ (step = "size" /\ cur = f)
  /\ disk[f].exists
  /\ SkipOrAbort(f, Put(entries, f, Skipped(f, FALSE)), tar)
  /\ UNCHANGED <<srcVars, sets, skipUnreadable>>

\* writeFile: reads the size and writes the TAR header.
WriteHeader ==
  /\ step = "size"
  /\ size' = Len(disk[cur].blocks)
  /\ step' = "copy"
  /\ UNCHANGED <<srcVars, sets, skipUnreadable, kind, start, pending, listed, cur,
                 meta, copied, entries, tar>>

\* io.CopyBuffer from a LimitReader, one block.
CopyBlock ==
  /\ step = "copy"
  /\ Len(copied) < size /\ Len(copied) < Len(disk[cur].blocks)
  /\ copied' = Append(copied, disk[cur].blocks[Len(copied) + 1])
  /\ UNCHANGED <<srcVars, sets, skipUnreadable, kind, start, pending, listed, step,
                 cur, meta, size, entries, tar>>

\* The TAR with the entry of the current file; what was not copied is zeros.
Stored == Append(tar, [path |-> cur,
                       blocks |-> [i \in 1 .. size |->
                                     IF i \in DOMAIN copied THEN copied[i] ELSE 0]])

\* The file became shorter, or reading it fails.
CopyFails ==
  /\ step = "copy" /\ Len(copied) < size
  /\ SkipOrAbort(cur, Put(entries, cur, Skipped(cur, TRUE)), Stored)
  /\ UNCHANGED <<srcVars, sets, skipUnreadable>>

\* One more byte can be read: the file grew.
FileGrew ==
  /\ step = "copy" /\ Len(copied) = size
  /\ Len(disk[cur].blocks) > size
  /\ SkipOrAbort(cur, Put(entries, cur, Skipped(cur, TRUE)), Stored)
  /\ UNCHANGED <<srcVars, sets, skipUnreadable>>

\* It can't, because the file is not longer or the read fails.
AddFile ==
  /\ step = "copy" /\ Len(copied) = size
  /\ Go(cur, Put(entries, cur, FileEntry), Stored)
  /\ UNCHANGED <<srcVars, sets, skipUnreadable>>

\* The walk is over; manifest and TAR become a set.
EndRun ==
  /\ kind # "idle" /\ step = "next" /\ pending = {}
  /\ sets' = Put(sets, kind, [entries |-> entries, tar |-> tar, start |-> start])
  /\ RunIdle
  /\ UNCHANGED <<srcVars, skipUnreadable>>

Others == (\E f \in File : Change(f) \/ Create(f) \/ Delete(f))
            \/ \E d \in Folder : ToggleFolder(d)

Build ==
  \/ \E k \in {"full", "diff"} : Start(k)
  \/ Stop
  \/ \E d \in Folder : AddDir(d) \/ FolderVanished(d) \/ FolderUnreadable(d)
  \/ ListFolder
  \/ \E f \in File : \/ KeepUnchanged(f) \/ StoreAnew(f)
                     \/ Open(f) \/ FileVanished(f) \/ FileUnreadable(f)
  \/ WriteHeader \/ CopyBlock \/ CopyFails \/ FileGrew \/ AddFile
  \/ EndRun

Next == Others \/ Build

Spec == Init /\ [][Next]_vars

-----------------------------------------------------------------------------
(* Properties *)

\* The content the TAR t holds for file f.
ContentIn(t, f) == {t[i].blocks : i \in {j \in DOMAIN t : t[j].path = f}}

\* A file that still has the size and times recorded in the full backup has the
\* content stored there: the test by which a differential leaves a file out is
\* right, whatever happened to the file during and since the full backup.
UnchangedIsSame ==
  "full" \in DOMAIN sets =>
    \A f \in File :
      LET e == sets["full"].entries[f]
      IN /\ IsFile(sets["full"].entries, f)
         /\ disk[f].exists
         /\ <<e.size, e.mod, e.chg>> = <<Len(disk[f].blocks), disk[f].mod, disk[f].chg>>
         => ContentIn(sets["full"].tar, f) = {disk[f].blocks}

\* Set s says that p could not be read.
Reported(s, p) ==
  /\ p \in DOMAIN s.entries
  /\ \/ s.entries[p].type = "skipped"
     \/ s.entries[p].type = "file" /\ s.entries[p].stale

\* manifest.Validate for a set of kind k.
ValidEntry(e, k) ==
  e.type = "file" =>
    /\ e.origin = "full" => (e.inSet <=> k = "full")
    /\ e.origin = "diff" => k = "diff" /\ e.inSet /\ ~e.stale
    /\ e.stale => k = "diff" /\ e.origin = "full"
    /\ e.void => e.stale

ValidManifest(m, k) ==
  \A p \in DOMAIN m :
    /\ ValidEntry(m[p], k)
    /\ p \in File /\ FolderOf[p] # Root =>
         FolderOf[p] \in DOMAIN m /\ m[FolderOf[p]].type = "dir"

-----------------------------------------------------------------------------
(* What holds at every step: of the walk, of the manifest and the TAR so far *)
(* and of those of the sets.                                                 *)

FileRecord == [type : {"file"}, size : Nat, mod : Nat, chg : Nat, hash : Seq(Nat),
               origin : {"full", "diff"}, inSet : BOOLEAN, stale : BOOLEAN, void : BOOLEAN]
SkippedRecord == [type : {"skipped"}, void : BOOLEAN]
TarRecord == [path : File, blocks : Seq(Nat)]

ArchiveType ==
  /\ disk \in [File -> [exists : BOOLEAN, blocks : Seq(Nat), mod : Nat, chg : Nat]]
  /\ clock \in Nat /\ start \in Nat /\ start <= clock
  /\ \A f \in File : disk[f].chg <= clock
  /\ \A f \in File : disk[f].exists => FolderOf[f] \in folders \cup {Root}
  /\ folders \subseteq Folder /\ pending \subseteq File \cup Folder
  /\ kind \in {"idle", "full", "diff"}
  /\ step \in {"next", "list", "open", "size", "copy"}
  /\ step = "list" => cur \in Folder
  /\ step \in {"open", "size", "copy"} => cur \in File
  /\ meta \in [mod : Nat, chg : Nat] /\ size \in Nat /\ copied \in Seq(Nat)
  /\ DOMAIN sets \in {{}, {"full"}, {"full", "diff"}}
  /\ kind = "full" => DOMAIN sets = {}
  /\ kind = "diff" => DOMAIN sets = {"full"}

\* File f is listed or being read; folder d still has to be listed.
Listed(f) == f \in pending \/ (step \in {"open", "size", "copy"} /\ cur = f)
FolderAhead(d) == d \in pending \/ (step = "list" /\ cur = d)

\* Every path is visited once, a folder before its files.
WalkInv ==
  /\ kind = "idle" =>
       pending = {} /\ step = "next" /\ DOMAIN entries = {} /\ tar = <<>>
  /\ step # "next" => cur \notin pending
  /\ step = "list" => cur \in DOMAIN entries /\ entries[cur].type = "dir"
  /\ \A f \in File :
       /\ Listed(f) => f \notin DOMAIN entries
       /\ Listed(f) \/ f \in DOMAIN entries =>
            /\ ~FolderAhead(FolderOf[f])
            /\ FolderOf[f] # Root => /\ FolderOf[f] \in DOMAIN entries
                                     /\ entries[FolderOf[f]].type = "dir"

\* As long as the file is as it was opened, what was copied is a beginning of it.
CopyInv ==
  /\ step # "copy" => copied = <<>>
  /\ step \in {"size", "copy"} =>
       /\ meta.chg <= clock
       /\ disk[cur].chg <= start => meta.chg = disk[cur].chg
       /\ step = "copy" => Len(copied) <= size
       /\ step = "copy" /\ meta.chg = disk[cur].chg => size = Len(disk[cur].blocks)
       /\ meta.chg = disk[cur].chg =>
            \A i \in 1 .. Len(copied) : copied[i] = disk[cur].blocks[i]

\* The manifest m and the TAR t of a set of kind k, with the manifest b of the
\* full backup: the TAR has each file of the set once, as its entry says, and
\* otherwise only what was cut off.
SoundSet(k, m, t, b) ==
  /\ DOMAIN m \subseteq File \cup Folder
  /\ \A p \in DOMAIN m : \/ p \in File /\ m[p] \in FileRecord \cup SkippedRecord
                         \/ p \in Folder /\ m[p] \in {DirEntry} \cup SkippedRecord
  /\ t \in Seq(TarRecord)
  /\ \A i, j \in 1 .. Len(t) : t[i].path = t[j].path => i = j
  /\ \A i \in 1 .. Len(t) :
       LET name == t[i].path
       IN /\ name \in DOMAIN m
          /\ \/ IsFile(m, name) /\ m[name].inSet /\ t[i].blocks = m[name].hash
             \/ m[name].void
  /\ \A f \in File : IsFile(m, f) =>
       /\ m[f].inSet => /\ m[f].origin = k /\ ~m[f].stale /\ ~m[f].void
                        /\ Len(m[f].hash) = m[f].size
                        /\ \E i \in 1 .. Len(t) : t[i].path = f
       /\ ~m[f].inSet => /\ k = "diff" /\ m[f].origin = "full"
                         /\ m[f].void => m[f].stale
                         /\ IsFile(b, f)
                         /\ m[f].hash = b[f].hash /\ m[f].size = b[f].size
  /\ \A f \in File : f \in DOMAIN m /\ FolderOf[f] # Root =>
       FolderOf[f] \in DOMAIN m /\ m[FolderOf[f]].type = "dir"

\* A file that has not changed since an entry was made has its content; `src' is
\* the source directory at time `now'.
Recorded(m, src, now) ==
  \A f \in File : IsFile(m, f) =>
    /\ m[f].chg <= now
    /\ src[f].exists /\ m[f].chg = src[f].chg => m[f].hash = src[f].blocks

\* The manifest m tells that p could not be read, or has file f as it is.
Missing(m, p) ==
  p \in DOMAIN m /\ (m[p].type = "skipped" \/ (m[p].type = "file" /\ m[p].stale))
Told(m, f, src) == \/ Missing(m, f) \/ Missing(m, FolderOf[f])
                   \/ (IsFile(m, f) /\ m[f].hash = src[f].blocks)

\* The files that nobody has touched since time s are as m tells.
TrueSince(m, s, src) ==
  \A f \in File : src[f].chg <= s =>
    IF src[f].exists THEN Told(m, f, src) ELSE ~IsFile(m, f)

\* So they are during a run, unless the walk still comes to them.
TrueSoFar ==
  \A f \in File : disk[f].chg <= start =>
    IF disk[f].exists THEN Listed(f) \/ FolderAhead(FolderOf[f]) \/ Told(entries, f, disk)
                      ELSE ~Listed(f) /\ f \notin DOMAIN entries

BaseManifest == sets["full"].entries

SetInv(k, s, b, src, now) ==
  /\ SoundSet(k, s.entries, s.tar, b)
  /\ Recorded(s.entries, src, now)
  /\ s.start \in Nat /\ s.start <= now
  /\ TrueSince(s.entries, s.start, src)

RunInv == SoundSet(kind, entries, tar, BaseManifest) /\ Recorded(entries, disk, clock) /\ TrueSoFar

ArchiveInv ==
  /\ ArchiveType /\ WalkInv /\ CopyInv
  /\ \A k \in DOMAIN sets : SetInv(k, sets[k], BaseManifest, disk, clock)
  /\ kind # "idle" => RunInv
=============================================================================
