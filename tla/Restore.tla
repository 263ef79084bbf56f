------------------------------- MODULE Restore -------------------------------
(***************************************************************************)
(* Restoring a restore point (internal/workflow/restorepoint read, and     *)
(* internal/format/archive Restorer) from the sets that Archive writes: a  *)
(* full backup from its own data, a differential from the data of its full *)
(* backup and then its own.  verify_after_backup (VerifyOwnData) reads the *)
(* own data only and writes nothing.                                       *)
(*                                                                         *)
(* A restore reads nothing of the source directory, so that nothing else   *)
(* needs to happen while it runs.                                          *)
(***************************************************************************)
EXTENDS Archive

VARIABLES
  rpc,    \* "idle", "dirs", "base", "own", "finish", "done", "failed" (by an I/O
          \* error or cancelled), "refused" (the backup is found damaged)
  target, \* the set
  mode,   \* "restore", or "check" for VerifyOwnData
  pos,    \* the next entry of the TAR stream
  done,   \* files extracted and checked
  dest,   \* the files in the destination, with their content
  made    \* the folders in the destination

restoreVars == <<rpc, target, mode, pos, done, dest, made>>
allVars == <<vars, restoreVars>>

InitAll ==
  /\ Init
  /\ rpc = "idle" /\ target = None /\ mode = None /\ pos = 1
  /\ done = {} /\ dest = [f \in {} |-> None] /\ made = {}

Target == sets[target].entries
FilesOf(m) == {f \in File : IsFile(m, f)}
FoldersOf(m) == {d \in Folder : d \in DOMAIN m /\ m[d].type = "dir"}

-----------------------------------------------------------------------------
Begin(k, how, first) ==
  /\ rpc = "idle" /\ kind = "idle" /\ k \in DOMAIN sets
  /\ rpc' = first
  /\ target' = k /\ mode' = how
  /\ UNCHANGED <<vars, pos, done, dest, made>>

BeginRestore(k) == Begin(k, "restore", "dirs")
BeginCheck(k) == Begin(k, "check", "own")

\* CreateDirectories; the sections follow.
CreateDirectories ==
  /\ rpc = "dirs"
  /\ made' = FoldersOf(Target)
  /\ rpc' = IF target = "diff" THEN "base" ELSE "own"
  /\ UNCHANGED <<vars, target, mode, pos, done, dest>>

\* Faulty variant: takes every file of the differential from the full backup.
DecideFromBaseAlways(f) == IF IsFile(Target, f) THEN "extract" ELSE "skip"

DecideFromBase(f) ==
  IF IsFile(Target, f) /\ Target[f].origin = "full" THEN "extract" ELSE "skip"

DecideOwn(f) ==
  IF f \notin DOMAIN Target THEN "error"
  ELSE IF Target[f].type = "file" /\ Target[f].inSet THEN "extract"
  ELSE IF Target[f].void THEN "skip"
  ELSE "error"

Section == IF rpc = "base" THEN sets["full"].tar ELSE sets[target].tar
Decide(f) == IF rpc = "base" THEN DecideFromBase(f) ELSE DecideOwn(f)
InSection == rpc \in {"base", "own"}

\* The entry t can be extracted as f: not a second time, with the size of the
\* manifest, to a new file in a folder that is there.
Extractable(t, f) ==
  /\ f \notin done
  /\ Len(t.blocks) = Target[f].size
  /\ mode = "restore" =>
       f \notin DOMAIN dest /\ FolderOf[f] \in made \cup {Root}

\* ExtractSection and extractFile: an entry is read past, or written and then
\* compared with the hash of the manifest, or the section is refused.
ReadEntry ==
  /\ InSection /\ pos <= Len(Section)
  /\ LET t == Section[pos]
         name == t.path
         extract == Decide(name) = "extract" /\ Extractable(t, name)
         sound == extract /\ t.blocks = Target[name].hash
     IN /\ dest' = IF extract /\ mode = "restore" THEN Put(dest, name, t.blocks) ELSE dest
        /\ done' = IF sound THEN done \cup {name} ELSE done
        /\ rpc' = IF sound \/ Decide(name) = "skip" THEN rpc ELSE "refused"
  /\ pos' = pos + 1
  /\ UNCHANGED <<vars, target, mode, made>>

EndOfSection ==
  /\ InSection /\ pos > Len(Section)
  /\ pos' = 1
  /\ rpc' = IF rpc = "base" THEN "own" ELSE "finish"
  /\ UNCHANGED <<vars, target, mode, done, dest, made>>

\* Finish: nothing is missing.  ExpectOwnContentOnly leaves out what is in the
\* full backup.
Finish ==
  /\ rpc = "finish"
  /\ rpc' = IF \A f \in FilesOf(Target) :
                 f \in done \/ (mode = "check" /\ ~Target[f].inSet)
            THEN "done" ELSE "refused"
  /\ UNCHANGED <<vars, target, mode, pos, done, dest, made>>

\* An I/O error, or the user cancels.
Fails ==
  /\ rpc \in {"dirs", "base", "own", "finish"}
  /\ rpc' = "failed"
  /\ \E S \in SUBSET FoldersOf(Target) :
       made' = IF rpc = "dirs" THEN S ELSE made
  /\ UNCHANGED <<vars, target, mode, pos, done, dest>>

\* The program goes on with something else.
Leave ==
  /\ rpc \in {"done", "failed", "refused"}
  /\ rpc' = "idle" /\ target' = None /\ mode' = None /\ pos' = 1
  /\ done' = {} /\ dest' = [f \in {} |-> None] /\ made' = {}
  /\ UNCHANGED vars

RestoreStep ==
  \/ \E k \in {"full", "diff"} : BeginRestore(k) \/ BeginCheck(k)
  \/ CreateDirectories \/ ReadEntry \/ EndOfSection \/ Finish \/ Fails \/ Leave

NextAll == (rpc = "idle" /\ Next /\ UNCHANGED restoreVars) \/ RestoreStep

SpecAll == InitAll /\ [][NextAll]_allVars

-----------------------------------------------------------------------------
(* Properties *)

\* Every set that a run writes passes the program's own checks, whatever happened
\* to the source directory meanwhile: its manifest is valid at every moment
\* ("Internal error: generated manifest is invalid" never happens), and a
\* finished set can be restored and passes its check: no "appears twice", "not in
\* the manifest", "does not match" or "not found" for a set nobody has damaged.
SoundSetsAccepted ==
  /\ kind # "idle" => ValidManifest(entries, kind)
  /\ rpc # "refused"

\* A restore that reports success gives back every file that nobody has touched
\* since the run of that set began, exactly as it is in the source directory,
\* and no file that was gone by then; only files (or folders) that the set
\* reports as unreadable are missing or older.
RestoredAsBackedUp ==
  rpc = "done" /\ mode = "restore" =>
    \A f \in {g \in File : disk[g].chg <= sets[target].start} :
      IF disk[f].exists
      THEN \/ Reported(sets[target], f)
           \/ Reported(sets[target], FolderOf[f])
           \/ f \in DOMAIN dest /\ dest[f] = disk[f].blocks
      ELSE f \notin DOMAIN dest

-----------------------------------------------------------------------------
(* What holds at every step of a restore or a check.                       *)

\* The entries of the section before the next one have file f.
Passed(t, f) == \E i \in 1 .. Len(t) : i < pos /\ t[i].path = f

RestoreInv ==
  /\ rpc \in {"idle", "dirs", "base", "own", "finish", "done", "failed"}
  /\ pos \in Nat \ {0}
  /\ rpc = "idle" => done = {} /\ DOMAIN dest = {} /\ pos = 1
  /\ rpc # "idle" =>
       /\ kind = "idle" /\ target \in DOMAIN sets /\ mode \in {"restore", "check"}
       /\ done \subseteq FilesOf(Target)
       /\ mode = "restore" =>
            DOMAIN dest = done /\ \A f \in done : dest[f] = Target[f].hash
       /\ mode = "restore" /\ rpc \in {"base", "own", "finish", "done"} =>
            made = FoldersOf(Target)
       /\ rpc = "dirs" => mode = "restore" /\ done = {} /\ pos = 1
       /\ rpc = "base" =>
            /\ target = "diff" /\ mode = "restore"
            /\ \A f \in FilesOf(Target) :
                 f \in done <=> ~Target[f].inSet /\ Passed(sets["full"].tar, f)
       /\ rpc = "own" =>
            \A f \in FilesOf(Target) :
               /\ Target[f].inSet => (f \in done <=> Passed(sets[target].tar, f))
               /\ ~Target[f].inSet /\ mode = "restore" => f \in done
       /\ rpc \in {"finish", "done"} =>
            \A f \in FilesOf(Target) : f \in done \/ (mode = "check" /\ ~Target[f].inSet)
=============================================================================
