------------------------------ MODULE BackupDir ------------------------------
(***************************************************************************)
(* The backup directory over many backup runs: how a run writes its sets   *)
(* under temporary names and renames them (internal/format/setwriter), and *)
(* how it cleans up: leftovers, old sets part after part, orphaned logs    *)
(* (internal/workflow/backup).  What a run reads and plans is in Catalog.  *)
(*                                                                         *)
(* Runs hold the exclusive lock of module BackupLock, so there is one at a *)
(* time.  It may be killed between any two file operations; every file     *)
(* operation may fail; and somebody else may remove part files.            *)
(***************************************************************************)
EXTENDS Catalog

CONSTANT MaxLosses   \* bound: part files somebody else removes

ASSUME MaxLossesAssumption == MaxLosses \in Nat

VARIABLES
  logs,      \* run IDs with a log file
  clock,     \* the time of the last run
  losses,    \* how many part files somebody else removed
  top,       \* history: top[b] is the highest number that a differential of
             \* the full backup b ever had under its final name
  pc,        \* where the run is
  rid,       \* its run ID
  srcs,      \* its source directories
  todo,      \* those without a new set yet
  existing,  \* plan.Keys: the key set to reuse, or None for new keys
  plan,      \* plan[d]: the planned entry of directory d
  foreseen,  \* the directory as plan.RetentionPreview imagines it after the run
  key,       \* the key set of the run, once unlocked or created
  cur,       \* the set being written or deleted
  count,     \* its parts written or renamed so far
  hold,      \* retentionHold
  removals   \* what retention still has to delete

runVars == <<rid, srcs, todo, existing, plan, foreseen, key, cur, count, hold,
             removals>>
vars == <<disk, logs, clock, losses, top, pc, runVars>>

Steps == {"idle", "planned", "running", "writing", "renaming", "cleaning"}
NoEntry == [dir |-> 0, chain |-> None, n |-> 0]
NoSets == [e \in Entry |-> Nothing]
FullEntry(d, id) == [dir |-> d, chain |-> id, n |-> 0]

WithTemp(s, T) == [s EXCEPT !.temp = T]
WithFinal(s, F) == [s EXCEPT !.final = F]

\* A set without any file leaves no trace.
Tidy(s) == IF s.final = {} /\ s.temp = {} THEN Nothing ELSE s

NoRun ==
  /\ pc = "idle"
  /\ rid = None /\ srcs = {} /\ todo = {} /\ existing = None
  /\ plan = [d \in Dir |-> NoEntry]
  /\ foreseen = NoSets /\ key = None /\ cur = NoEntry /\ count = 0
  /\ hold = {} /\ removals = {}

\* The run is over, with or without an error, and forgets what it knew.
EndRun ==
  /\ pc' = "idle"
  /\ rid' = None /\ srcs' = {} /\ todo' = {} /\ existing' = None
  /\ plan' = [d \in Dir |-> NoEntry]
  /\ foreseen' = NoSets /\ key' = None /\ cur' = NoEntry /\ count' = 0
  /\ hold' = {} /\ removals' = {}

Init ==
  /\ disk = NoSets
  /\ logs = {}
  /\ clock = 0
  /\ losses = 0
  /\ top = [b \in {e \in Entry : e.n = 0} |-> 0]
  /\ NoRun

-----------------------------------------------------------------------------
(* Planning *)

\* Faulty variant: the planned sets have no creation time.
ImaginedUndated(S, p, t) ==
  [e \in Entry |->
     IF \E d \in S : p[d] = e
     THEN [final |-> {1}, temp |-> {}, created |-> 0, run |-> None,
           key |-> None, parts |-> 1, large |-> FALSE]
     ELSE disk[e]]

\* The inventory with the planned sets of the directories S, complete and
\* created at time t.
Imagined(S, p, t) ==
  [e \in Entry |->
     IF \E d \in S : p[d] = e
     THEN [final |-> {1}, temp |-> {}, created |-> t, run |-> None,
           key |-> None, parts |-> 1, large |-> FALSE]
     ELSE disk[e]]

\* removeLeftoverTempParts: every temporary part is deleted, except those whose
\* deletion fails (stuck).
WithoutLeftovers(stuck) ==
  [e \in Entry |->
     Tidy(WithTemp(disk[e], {k \in disk[e].temp : <<e, k>> \in stuck}))]

\* backup.Run up to the accepted plan: inventory, run ID, log file, leftovers,
\* choosePlan.  The user's choices in the dialogue (automatic, full backups,
\* new keys, also after a refused YubiKey) all start from the same inventory;
\* forceFull and newKeys are the last one.  newKeys also stands for a
\* configuration that the current key set no longer matches.
Start(S, t, id, forceFull, newKeys, stuck) ==
  LET ks == IF newKeys THEN None ELSE CurrentKeySet
      p == [d \in Dir |-> IF d \in S THEN PlanFolder(d, id, t, ks, forceFull)
                                     ELSE NoEntry]
  IN /\ pc = "idle"
     /\ id \notin UsedIds
     /\ clock' = t
     /\ logs' = logs \cup {id}
     /\ disk' = WithoutLeftovers(stuck)
     /\ pc' = "planned"
     /\ rid' = id /\ srcs' = S /\ todo' = S
     /\ existing' = ks
     /\ plan' = p
     /\ foreseen' = Imagined(S, p, t)
     /\ UNCHANGED <<losses, top, key, cur, count, hold, removals>>

\* The run ends before it writes: the plan is blocked or cancelled, or the keys
\* stay locked.
Abandon ==
  /\ pc = "planned"
  /\ EndRun
  /\ UNCHANGED <<disk, logs, clock, losses, top>>

\* obtainKeys: the existing key set is unlocked, or a new one is created.
ObtainKeys(k) ==
  /\ pc = "planned"
  /\ IF existing # None THEN k = existing ELSE \A e \in Entry : disk[e].key # k
  /\ key' = k
  /\ pc' = "running"
  /\ UNCHANGED <<disk, logs, clock, losses, top, rid, srcs, todo, existing,
                 plan, foreseen, cur, count, hold, removals>>

-----------------------------------------------------------------------------
(* Writing a set *)

\* loadBase can succeed for the planned differential e: its full backup has the
\* keys of the run and opens.
Loadable(e) == Complete(FullOf(e)) /\ disk[FullOf(e)].key = key

\* setwriter.Write creates (or truncates) the first temporary part; there will
\* be c parts.
BeginWrite(e, c, large) ==
  /\ disk' = [disk EXCEPT ![e] =
                [final |-> @.final, temp |-> @.temp \cup {1}, created |-> clock,
                 run |-> rid, key |-> key, parts |-> c, large |-> large]]
  /\ cur' = e
  /\ count' = 1
  /\ pc' = "writing"
  /\ todo' = todo \ {e.dir}
  /\ UNCHANGED <<logs, clock, losses, rid, srcs, existing, plan, foreseen, key,
                 hold, removals>>

\* A differential as planned.
BeginDiff(d, c, large) ==
  /\ pc = "running" /\ d \in todo
  /\ IsDiff(plan[d]) /\ Loadable(plan[d])
  /\ BeginWrite(plan[d], c, large)
  /\ UNCHANGED top

\* A full backup, as planned or because the base can't be used (its manifest
\* may be unreadable although the set is complete).
BeginFull(d, c) ==
  /\ pc = "running" /\ d \in todo
  /\ BeginWrite(FullEntry(d, rid), c, FALSE)
  /\ top' = [top EXCEPT ![FullEntry(d, rid)] = 0]

\* The split writer goes on with the next temporary part.
WritePart ==
  /\ pc = "writing"
  /\ count < disk[cur].parts
  /\ disk' = [disk EXCEPT ![cur] = WithTemp(@, @.temp \cup {count + 1})]
  /\ count' = count + 1
  /\ UNCHANGED <<logs, clock, losses, top, pc, rid, srcs, todo, existing, plan,
                 foreseen, key, cur, hold, removals>>

\* The trailer is on disk: FinalizeParts starts.
Written ==
  /\ pc = "writing"
  /\ count = disk[cur].parts
  /\ pc' = "renaming"
  /\ count' = 0
  /\ UNCHANGED <<disk, logs, clock, losses, top, rid, srcs, todo, existing,
                 plan, foreseen, key, cur, hold, removals>>

\* An error or a cancelled context: removeAll deletes the temporary parts
\* written so far, ignoring errors (stuck), and the run stops.
WriteFails(stuck) ==
  /\ pc = "writing"
  /\ disk' = [disk EXCEPT ![cur] =
                Tidy(WithTemp(@, (@.temp \ (1 .. count)) \cup stuck))]
  /\ EndRun
  /\ UNCHANGED <<logs, clock, losses, top>>

\* FinalizeParts, one part: it must not exist yet under its final name.
RenamePart ==
  /\ pc = "renaming"
  /\ count < disk[cur].parts
  /\ count + 1 \notin disk[cur].final
  /\ disk' = [disk EXCEPT ![cur] =
                WithFinal(WithTemp(@, @.temp \ {count + 1}), @.final \cup {count + 1})]
  /\ count' = count + 1
  /\ top' = IF cur.n > top[FullOf(cur)] THEN [top EXCEPT ![FullOf(cur)] = cur.n]
                                        ELSE top
  /\ UNCHANGED <<logs, clock, losses, pc, rid, srcs, todo, existing, plan,
                 foreseen, key, cur, hold, removals>>

\* A part exists already or can't be renamed: the run stops; nothing is undone.
RenameFails ==
  /\ pc = "renaming"
  /\ count < disk[cur].parts
  /\ EndRun
  /\ UNCHANGED <<disk, logs, clock, losses, top>>

\* All parts have their final names.  A set with skipped or stale files holds
\* back the retention of its directory.
SetDone(misses) ==
  /\ pc = "renaming"
  /\ count = disk[cur].parts
  /\ hold' = IF misses THEN hold \cup {cur.dir} ELSE hold
  /\ cur' = NoEntry
  /\ count' = 0
  /\ pc' = "running"
  /\ UNCHANGED <<disk, logs, clock, losses, top, rid, srcs, todo, existing,
                 plan, foreseen, key, removals>>

-----------------------------------------------------------------------------
(* Retention *)

\* The run is cancelled after its last set, its verification failed, retention
\* is disabled, or a set of the source directories can't be read.
NoRetention ==
  /\ pc = "running" /\ todo = {}
  /\ EndRun
  /\ UNCHANGED <<disk, logs, clock, losses, top>>

\* applyRetentionPolicy: inventory and plan.Retention; held directories are
\* left alone.
StartRetention ==
  /\ pc = "running" /\ todo = {}
  /\ Keep > 0 \/ KeepDiffs > 0
  /\ ~RetentionRefused(srcs)
  /\ removals' = UNION {RetentionCandidates(d) : d \in srcs \ hold}
  /\ pc' = "cleaning"
  /\ UNCHANGED <<disk, logs, clock, losses, top, rid, srcs, todo, existing,
                 plan, foreseen, key, cur, count, hold>>

\* Faulty variant: each old chain from its full backup on.
PrecedesOldestFirst(r, s) ==
  IF r.entry.dir # s.entry.dir THEN r.entry.dir < s.entry.dir
  ELSE IF r.class # s.class THEN r.class < s.class
  ELSE IF r.age # s.age THEN r.age > s.age
  ELSE IF r.class = 1 THEN Created(r.entry) < Created(s.entry)
  ELSE r.class = 2 /\ r.entry.n > s.entry.n

\* r comes before s in the lists of sets to delete: directories by name, then
\* the classes of a directory; old chains newest first and in each the newest
\* set first; surplus differentials by chain and descending number.
Precedes(r, s) ==
  IF r.entry.dir # s.entry.dir THEN r.entry.dir < s.entry.dir
  ELSE IF r.class # s.class THEN r.class < s.class
  ELSE IF r.age # s.age THEN r.age > s.age
  ELSE IF r.class = 1 THEN Created(r.entry) > Created(s.entry)
  ELSE r.class = 2 /\ r.entry.n > s.entry.n

\* r is the removal in progress or the next one.
Turn(r) ==
  /\ r \in removals
  /\ IF cur # NoEntry THEN r.entry = cur
     ELSE \A s \in removals \ {r} : ~Precedes(s, r)

\* deleteSetFiles: the lowest part that is still there; a set without parts is
\* done.
DeletePart(r) ==
  LET e == r.entry
      left == disk[e].final \ {k \in disk[e].final : \A j \in disk[e].final : k <= j}
  IN /\ pc = "cleaning"
     /\ Turn(r)
     /\ disk' = [disk EXCEPT ![e] = Tidy(WithFinal(@, left))]
     /\ IF left = {} THEN cur' = NoEntry /\ removals' = removals \ {r}
                     ELSE cur' = e /\ UNCHANGED removals
     /\ UNCHANGED <<logs, clock, losses, top, pc, rid, srcs, todo, existing,
                    plan, foreseen, key, count, hold>>

\* A part can't be deleted: the cleanup stops, the run ends with a warning.
DeleteFails ==
  /\ pc = "cleaning" /\ removals # {}
  /\ EndRun
  /\ UNCHANGED <<disk, logs, clock, losses, top>>

\* Faulty variant: the run IDs of the headers are ignored.
ActiveChains == {e.chain : e \in {f \in Entry : Present(f)}}

\* A log is kept while its run ID is the chain ID or, in a readable header, the
\* run ID of a set.
ActiveRuns == UsedIds

\* deleteOrphanLogFiles, all or (after an error) some; the run is over.
DeleteLogs(L) ==
  /\ pc = "cleaning" /\ removals = {}
  /\ L \subseteq logs \ ActiveRuns
  /\ logs' = logs \ L
  /\ EndRun
  /\ UNCHANGED <<disk, clock, losses, top>>

-----------------------------------------------------------------------------
(* Environment *)

\* The process is killed or the power fails.
Crash ==
  /\ pc # "idle"
  /\ EndRun
  /\ UNCHANGED <<disk, logs, clock, losses, top>>

\* Somebody else removes a part file; of the set being renamed only once that is
\* over, because nothing looks at a renamed part before.
Lose(e, k) ==
  /\ losses < MaxLosses
  /\ e = cur => pc = "cleaning"
  /\ k \in disk[e].final
  /\ disk' = [disk EXCEPT ![e] = Tidy(WithFinal(@, @.final \ {k}))]
  /\ losses' = losses + 1
  /\ UNCHANGED <<logs, clock, top, pc, runVars>>

Next ==
  \/ \E S \in SUBSET Dir \ {{}}, t \in (clock + 1) .. MaxTime, id \in RunId,
        forceFull, newKeys \in BOOLEAN :
       \E stuck \in SUBSET {x \in Entry \X (1 .. MaxParts) :
                              x[2] \in disk[x[1]].temp} :
         Start(S, t, id, forceFull, newKeys, stuck)
  \/ Abandon
  \/ \E k \in Key : ObtainKeys(k)
  \/ \E d \in Dir, c \in 1 .. MaxParts, large \in BOOLEAN : BeginDiff(d, c, large)
  \/ \E d \in Dir, c \in 1 .. MaxParts : BeginFull(d, c)
  \/ WritePart
  \/ Written
  \/ \E stuck \in SUBSET (1 .. count) : WriteFails(stuck)
  \/ RenamePart
  \/ RenameFails
  \/ \E misses \in BOOLEAN : SetDone(misses)
  \/ NoRetention
  \/ StartRetention
  \/ \E r \in removals : DeletePart(r)
  \/ DeleteFails
  \/ \E L \in SUBSET logs : DeleteLogs(L)
  \/ Crash
  \/ \E e \in Entry : \E k \in disk[e].final : Lose(e, k)

Spec == Init /\ [][Next]_vars

-----------------------------------------------------------------------------
(* Properties *)

RemovalRecord == [entry : Entry, class : 1 .. 3, age : 0 .. MaxTime]

TypeOK ==
  /\ disk \in [Entry -> SetFiles]
  /\ logs \subseteq RunId
  /\ clock \in 0 .. MaxTime
  /\ losses \in 0 .. MaxLosses
  /\ top \in [{e \in Entry : e.n = 0} -> 0 .. MaxDiffNumber]
  /\ pc \in Steps
  /\ rid \in RunId \cup {None}
  /\ srcs \subseteq Dir /\ todo \subseteq srcs /\ hold \subseteq srcs
  /\ existing \in Key \cup {None} /\ key \in Key \cup {None}
  /\ plan \in [Dir -> Entry \cup {NoEntry}]
  /\ foreseen \in [Entry -> SetFiles]
  /\ removals \subseteq RemovalRecord
  /\ cur \in Entry \cup {NoEntry}
  /\ count \in 0 .. MaxParts

\* While nobody else removes files, every complete differential has its
\* complete full backup, older and under the same key set: one unlock restores
\* it (SPEC-core D5, D7).  It takes planning, an interrupted run, new keys and
\* retention's order of deletion to keep this true.
DifferentialsUsable ==
  losses = 0 =>
    \A e \in CompleteSets :
      IsDiff(e) => /\ Complete(FullOf(e))
                   /\ disk[FullOf(e)].key = disk[e].key
                   /\ Created(FullOf(e)) < Created(e)

\* FinalizeParts never finds a part of the new set under its final name, even
\* after interrupted runs and lost files: what is there are the parts the run
\* itself has renamed.
NoNameClash ==
  /\ pc = "writing" => disk[cur].final = {}
  /\ pc = "renaming" => disk[cur].final \subseteq 1 .. count

\* A differential never gets the number of an earlier one of its chain, not even
\* of one that was interrupted or removed by retention ("Differential numbers
\* are never reused", plan/folders.go).
NumberNotReused ==
  pc = "writing" /\ IsDiff(cur) /\ losses = 0 => top[FullOf(cur)] < cur.n

\* The log of the run that wrote a complete set is there: restore and verify
\* append to it (backup/retention.go deleteOrphanLogFiles).
LogsKept == \A e \in CompleteSets : disk[e].run \in logs

\* Retention removes exactly what the plan announced, except in directories it
\* holds back, when the run wrote what was planned and nobody else removed
\* files (SPEC-gui 11.3).
AsPlanned == \A d \in srcs : Complete(plan[d]) /\ disk[plan[d]].run = rid
Foreseen == INSTANCE Catalog WITH disk <- foreseen
RetentionPreview(d) ==
  IF Foreseen!RetentionRefused(srcs) THEN {} ELSE Foreseen!RetentionCandidates(d)
PreviewKept ==
  [][StartRetention /\ losses = 0 /\ AsPlanned
       => removals' = UNION {RetentionPreview(d) : d \in srcs \ hold}]_vars

\* Deleting takes every chain from its differentials to its full backup, also
\* when it is cut short or somebody else removed files before; and it leaves at
\* least Keep chains of every directory.
RetentionIsSafe ==
  [][\A r \in removals :
       LET e == r.entry IN
       DeletePart(r) /\ Complete(e) =>
         /\ disk[e].run # rid
         /\ ~IsDiff(e) =>
              /\ \A f \in CompleteSets : FullOf(f) = e => f = e
              /\ losses = 0 => Cardinality(Fulls(e.dir)) > Keep]_vars

\* Until somebody else removes files, the complete sets are restore points that
\* come and go in a safe order.
RP == INSTANCE RestorePoints WITH Point <- Entry, points <- CompleteSets,
                                  disturbed <- (losses > 0)
ImplementsRestorePoints == RP!Spec

-----------------------------------------------------------------------------
(* The inductive invariant *)

\* The run knows its ID and, once it writes, its keys.
RunKnown ==
  /\ pc # "idle" => rid \in RunId
  /\ pc \notin {"idle", "planned"} => key \in Key
  /\ pc = "idle" => todo = {} /\ hold = {}
  /\ pc # "cleaning" => removals = {}
  /\ pc \in {"writing", "renaming"} =>
       cur \in Entry /\ cur.dir \in srcs \ todo
  /\ pc \in {"idle", "planned", "running"} => cur = NoEntry

\* A set has no part beyond its last one.
PartsInRange == \A e \in Entry : disk[e].final \subseteq 1 .. disk[e].parts

\* Nothing is from the future, and a directory the run has still to back up has
\* no set from this run: nothing of its chain and nothing of its time.
TimesInOrder ==
  \A e \in Entry :
    /\ Created(e) <= clock
    /\ e.dir \in todo => Created(e) < clock
    /\ e.dir \in todo /\ e.chain = rid => ~Present(e)

\* The planned entries are of their directory and free.
PlanFits ==
  \A d \in todo :
    plan[d] \in Entry /\ plan[d].dir = d /\ ~Present(plan[d])

\* The differential being written has a base.
CurrentUsable ==
  losses = 0 /\ pc \in {"writing", "renaming"} /\ IsDiff(cur) =>
    /\ Complete(FullOf(cur))
    /\ disk[FullOf(cur)].key = disk[cur].key
    /\ Created(FullOf(cur)) < Created(cur)

\* A full backup of class 1 is removed with all its complete differentials;
\* class 2 has only differentials, class 3 no complete set; the set being
\* deleted has lost its first part.
RemovalsClosed ==
  /\ \A r \in removals :
       /\ r.class = 1 /\ ~IsDiff(r.entry) =>
            \A f \in CompleteSets :
              FullOf(f) = r.entry => Removal(f, 1, r.age) \in removals
       /\ r.class = 2 => IsDiff(r.entry)
       /\ r.class = 3 => ~Complete(r.entry)
  /\ pc = "cleaning" /\ cur # NoEntry => 1 \notin disk[cur].final

DirInv ==
  /\ TypeOK /\ RunKnown /\ PartsInRange /\ TimesInOrder /\ PlanFits /\ NoNameClash
  /\ DifferentialsUsable /\ CurrentUsable /\ RemovalsClosed

\* The run has a log file, and the set it writes carries its run ID.
RunLogged ==
  /\ pc # "idle" => rid \in logs
  /\ pc \in {"writing", "renaming"} => disk[cur].run = rid

LogInv == LogsKept /\ RunLogged

\* Present sets of one directory differ in time.  A differential is younger than
\* its full backup and older than the next one, and of two differentials of a
\* chain the later one has the higher number.
SetsInOrder ==
  \A e, f \in Entry :
    e.dir = f.dir /\ Present(e) /\ Present(f) =>
      /\ Created(e) = Created(f) => e = f
      /\ Complete(e) /\ IsDiff(f) /\ FullOf(f) = e => Created(e) < Created(f)
      /\ Complete(e) /\ ~IsDiff(e) /\ Complete(f) /\ IsDiff(f) /\ Complete(FullOf(f)) =>
           (Created(FullOf(f)) < Created(e) => Created(f) < Created(e))
      /\ IsDiff(e) /\ IsDiff(f) /\ FullOf(e) = FullOf(f) =>
           (Created(e) < Created(f) => e.n < f.n)

\* The differential e continues the newest chain of its directory.
Continues(e) ==
  /\ Complete(FullOf(e)) =>
       \A c \in Fulls(e.dir) : Created(c) <= Created(FullOf(e))
  /\ \A f \in DiffsOf(FullOf(e)) \ {e} : f.n < e.n

PlanInOrder ==
  \A d \in todo : IsDiff(plan[d]) =>
    Continues(plan[d]) /\ (losses = 0 => top[FullOf(plan[d])] < plan[d].n)

\* The set being written is the newest of its directory; a differential
\* continues a chain, a full backup begins one.
CurrentInOrder ==
  pc \in {"writing", "renaming"} =>
    /\ Created(cur) = clock
    /\ \A e \in Entry \ {cur} : e.dir = cur.dir /\ Present(e) => Created(e) < clock
    /\ IsDiff(cur) => Continues(cur)
    /\ ~IsDiff(cur) => DiffsOf(cur) = {} /\ top[cur] = 0

\* Of the newest chain of a directory, the differential with the highest number
\* stays, complete or not.
TopKept ==
  losses = 0 =>
    \A d \in Dir : \A b \in Fulls(d) :
      (\A c \in Fulls(d) : Created(c) <= Created(b)) =>
        top[b] = 0 \/ \E e \in DiffsOf(b) : top[b] <= e.n

\* What the run has written is from its time.
RunTimes ==
  pc # "idle" => \A e \in CompleteSets : disk[e].run = rid => Created(e) = clock

\* Set e is not to be deleted.
Spared(e) == \A r \in removals : r.entry # e

\* For every set to delete, a newer full backup of its directory or a later
\* differential of its chain stays; and Keep full backups stay wherever old
\* chains are deleted.
Superseded(r) ==
  \E g \in CompleteSets :
    /\ Spared(g) /\ g.dir = r.entry.dir
    /\ \/ ~IsDiff(g) /\ Created(FullOf(r.entry)) < Created(g)
       \/ IsDiff(g) /\ FullOf(g) = FullOf(r.entry) /\ r.entry.n < g.n

RemovalsSafe ==
  \A r \in removals :
    /\ Complete(r.entry) => disk[r.entry].run # rid
    /\ losses = 0 /\ Complete(FullOf(r.entry)) => Superseded(r)
    /\ losses = 0 /\ r.class = 1 =>
         Cardinality({c \in Fulls(r.entry.dir) : Spared(c)}) >= Keep

NumberInv ==
  /\ SetsInOrder /\ PlanInOrder /\ CurrentInOrder /\ TopKept /\ NumberNotReused
  /\ RunTimes /\ RemovalsSafe

\* Set e is not one the run writes or planned to write.
NotOfRun(e) == e.dir \in srcs => e # plan[e.dir] /\ e.chain # rid

\* The run foresees the sets it leaves alone as they are, and the planned ones as
\* complete sets of its time.  It writes the planned set of a directory or a full
\* backup, never both.
ForeseenInv ==
  losses = 0 /\ pc \in {"planned", "running", "writing", "renaming"} =>
    /\ \A e \in Entry :
         NotOfRun(e) =>
           /\ foreseen[e].final = disk[e].final
           /\ Present(e) => /\ foreseen[e].created = Created(e)
                            /\ foreseen[e].parts = disk[e].parts
    /\ \A d \in srcs :
         /\ plan[d] \in Entry /\ plan[d].dir = d
         /\ foreseen[plan[d]].final = {1} /\ foreseen[plan[d]].parts = 1
         /\ foreseen[plan[d]].created = clock
         /\ \A e \in Entry \ {plan[d]} :
              e.dir = d /\ e.chain = rid =>
                /\ foreseen[e].final = {}
                /\ Present(e) => ~Present(plan[d])
    /\ pc \in {"writing", "renaming"} =>
         /\ ~NotOfRun(cur)
         /\ \A e \in Entry \ {cur} :
              e.dir = cur.dir /\ ~NotOfRun(e) => ~Present(e)

-----------------------------------------------------------------------------
(* What a comment in the code says and the code does not do *)

\* catalog.IsIncomplete: "an incomplete set (interrupted backup or missing
\* parts)".  As long as nobody else touches the directory, every set that is
\* not complete is such a set, so nothing stops retention.
CleanupNeverBlocked ==
  losses = 0 /\ pc = "idle" => ~RetentionRefused(Dir)
=============================================================================
