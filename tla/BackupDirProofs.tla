--------------------------- MODULE BackupDirProofs ---------------------------
(***************************************************************************)
(* For every number of directories, runs, parts and differentials: DirInv  *)
(* is an invariant of the backup directory, so every complete differential *)
(* keeps a usable base and no part is ever written over; NumberInv is one, *)
(* so no number is used again and retention removes chains in a safe order;*)
(* ForeseenInv is one, so it removes what the plan announced; logs stay;   *)
(* and the complete sets implement the specification RestorePoints.        *)
(***************************************************************************)
EXTENDS BackupDir, TLAPS, WellFoundedInduction, FiniteSetTheorems

-----------------------------------------------------------------------------
(* Planning *)

\* A bounded set of numbers has a greatest element.
LEMMA GreatestExists ==
  ASSUME NEW N \in Nat, NEW S, S \subseteq 0 .. N, S # {}
  PROVE  \E m \in S : \A x \in S : x <= m
<1> DEFINE T == {N - x : x \in S}
<1>0. \A x \in S : N - x \in Nat
  OBVIOUS
<1>1. T \subseteq Nat /\ T # {}
  BY <1>0, Zenon
<1>2. PICK t \in T : \A y \in T : ~(<<y, t>> \in OpToRel(<, Nat))
  BY <1>1, NatLessThanWellFounded, WFMin, Zenon
<1>3. \A y \in T : t <= y
  <2> SUFFICES ASSUME NEW y \in T PROVE t <= y
    OBVIOUS
  <2>1. y \in Nat /\ t \in Nat
    BY <1>1, Zenon
  <2> HIDE DEF T
  <2>2. ~(y < t)
    BY <1>2, <2>1 DEF OpToRel
  <2> QED BY <2>1, <2>2
<1>4. PICK m \in S : t = N - m
  OBVIOUS
<1>5. \A x \in S : x <= m
  BY <1>3, <1>4
<1> QED BY <1>5

\* NewestOf picks a newest member.
LEMMA NewestOfMember ==
  ASSUME TypeOK, NEW S, S \subseteq Entry, S # {}
  PROVE  NewestOf(S) \in S
<1> DEFINE T == {Created(e) : e \in S}
<1>1. T \subseteq 0 .. MaxTime /\ T # {} /\ MaxTime \in Nat
  BY CatalogAssumption DEF TypeOK, SetFiles, Created
<1>2. PICK m \in T : \A x \in T : x <= m
  BY <1>1, GreatestExists
<1>3. \E e \in S : \A f \in S : Created(f) <= Created(e)
  BY <1>2
<1> QED BY <1>3 DEF NewestOf

\* MaxNumber is at least the number of every differential of the chain.
LEMMA MaxNumberBounds ==
  ASSUME NEW b \in Entry
  PROVE  /\ MaxNumber(b) \in 0 .. MaxDiffNumber
         /\ \A e \in DiffsOf(b) : e.n <= MaxNumber(b)
<1> DEFINE T == {e.n : e \in DiffsOf(b)}
           P(m) == /\ \A e \in DiffsOf(b) : e.n <= m
                   /\ m = 0 \/ \E e \in DiffsOf(b) : e.n = m
<1>1. T \subseteq 0 .. MaxDiffNumber /\ MaxDiffNumber \in Nat
  BY CatalogAssumption DEF DiffsOf, Entry
<1>2. \E m \in 0 .. MaxDiffNumber : P(m)
  <2>1. CASE DiffsOf(b) = {}
    BY <1>1, <2>1
  <2>2. CASE DiffsOf(b) # {}
    <3>1. PICK m \in T : \A x \in T : x <= m
      BY <1>1, <2>2, GreatestExists
    <3> QED BY <1>1, <3>1
  <2> QED BY <2>1, <2>2
<1>3. MaxNumber(b) = CHOOSE m \in 0 .. MaxDiffNumber : P(m)
  BY DEF MaxNumber
<1> HIDE DEF P
<1>4. MaxNumber(b) \in 0 .. MaxDiffNumber /\ P(MaxNumber(b))
  BY <1>2, <1>3
<1> QED BY <1>4 DEF P

\* The entry planned for a directory is of that directory and has no files
\* under final names yet, when the run ID is unused.
LEMMA PlanFolderFits ==
  ASSUME TypeOK, NEW d \in Dir, NEW id \in RunId, id \notin UsedIds, NEW t,
         NEW ks, NEW forceFull
  PROVE  LET p == PlanFolder(d, id, t, ks, forceFull)
         IN p \in Entry /\ p.dir = d /\ ~Present(p)
<1> DEFINE full == [dir |-> d, chain |-> id, n |-> 0]
           base == NewestOf(Fulls(d))
           diff == [dir |-> d, chain |-> base.chain, n |-> MaxNumber(base) + 1]
           p == PlanFolder(d, id, t, ks, forceFull)
<1>1. full \in Entry /\ full.dir = d /\ ~Present(full)
  BY CatalogAssumption DEF Entry, UsedIds
<1>2. CASE p = full
  BY <1>1, <1>2
<1>3. CASE p # full
  <2>1. p = diff /\ Fulls(d) # {} /\ ~(MaxNumber(base) >= MaxDiffNumber)
    BY <1>3 DEF PlanFolder
  <2>2. base \in Fulls(d)
    BY <2>1, NewestOfMember DEF Fulls, CompleteSets
  <2>3. base \in Entry /\ base.dir = d /\ base.n = 0
    BY <2>2, CatalogAssumption DEF Fulls, CompleteSets, IsDiff, Entry
  <2>4. /\ MaxNumber(base) \in 0 .. MaxDiffNumber
        /\ \A e \in DiffsOf(base) : e.n <= MaxNumber(base)
    BY <2>3, MaxNumberBounds
  <2>5. diff \in Entry /\ diff.dir = d /\ diff.n = MaxNumber(base) + 1
    BY <2>1, <2>3, <2>4, CatalogAssumption DEF Entry
  <2> HIDE DEF base
  <2>6. FullOf(diff) = base
    <3>1. base = [dir |-> d, chain |-> base.chain, n |-> 0]
      BY <2>3 DEF Entry
    <3> QED BY <3>1 DEF FullOf
  <2>7. Present(diff) => diff \in DiffsOf(base)
    BY <2>4, <2>5, <2>6 DEF DiffsOf, IsDiff
  <2>8. ~Present(diff)
    BY <2>4, <2>5, <2>7, CatalogAssumption
  <2> QED BY <2>1, <2>5, <2>8
<1> QED BY <1>2, <1>3

-----------------------------------------------------------------------------
(* Types *)

LEMMA FullOfType ==
  ASSUME NEW e \in Entry
  PROVE  FullOf(e) \in Entry /\ FullOf(FullOf(e)) = FullOf(e)
BY CatalogAssumption DEF FullOf, Entry

LEMMA CreatedType ==
  ASSUME TypeOK, NEW e \in Entry
  PROVE  Created(e) \in 0 .. MaxTime
BY DEF TypeOK, SetFiles, Created

LEMMA TidyType ==
  ASSUME NEW s \in SetFiles
  PROVE  Tidy(s) \in SetFiles
BY CatalogAssumption DEF Tidy, SetFiles, Nothing

LEMMA WithType ==
  ASSUME NEW s \in SetFiles, NEW T \in SUBSET (1 .. MaxParts)
  PROVE  WithTemp(s, T) \in SetFiles /\ WithFinal(s, T) \in SetFiles
BY DEF SetFiles, WithTemp, WithFinal

LEMMA FilesType ==
  ASSUME TypeOK, NEW e \in Entry
  PROVE  /\ disk[e] \in SetFiles
         /\ disk[e].final \subseteq 1 .. MaxParts
         /\ disk[e].temp \subseteq 1 .. MaxParts
         /\ disk[e].parts \in 0 .. MaxParts
BY DEF TypeOK, SetFiles

LEMMA UpdateType ==
  ASSUME TypeOK, NEW e \in Entry, NEW s \in SetFiles,
         disk' = [disk EXCEPT ![e] = s]
  PROVE  disk' \in [Entry -> SetFiles]
BY DEF TypeOK

LEMMA ExceptType ==
  ASSUME NEW D, NEW V, NEW f \in [D -> V], NEW x, NEW v \in V
  PROVE  [f EXCEPT ![x] = v] \in [D -> V]
OBVIOUS

LEMMA CurrentKeySetType ==
  ASSUME TypeOK
  PROVE  CurrentKeySet \in Key \cup {None}
<1>1. CASE CompleteSets = {}
  BY <1>1 DEF CurrentKeySet
<1>2. CASE CompleteSets # {}
  <2>1. NewestOf(CompleteSets) \in Entry
    BY <1>2, NewestOfMember DEF CompleteSets
  <2> QED BY <1>2, <2>1 DEF CurrentKeySet, TypeOK, SetFiles
<1> QED BY <1>1, <1>2

LEMMA CandidatesType ==
  ASSUME TypeOK, NEW d \in Dir
  PROVE  RetentionCandidates(d) \subseteq RemovalRecord
<1>0. \A e \in Entry : Created(e) \in 0 .. MaxTime /\ FullOf(e) \in Entry
  BY CreatedType, FullOfType
<1>1. OldChainRemovals(d) \subseteq RemovalRecord
  <2>1. \A e \in CompleteSets : Removal(e, 1, Created(FullOf(e))) \in RemovalRecord
    BY <1>0 DEF Removal, RemovalRecord, CompleteSets
  <2> QED BY <2>1 DEF OldChainRemovals
<1>2. SurplusRemovals(d) \subseteq RemovalRecord
  <2>1. \A b \in Fulls(d) : \A e \in Surplus(b) :
          Removal(e, 2, Created(b)) \in RemovalRecord
    BY <1>0 DEF Surplus, Removal, RemovalRecord, CompleteSets, Fulls
  <2> QED BY <2>1 DEF SurplusRemovals
<1>3. IncompleteRemovals(d) \subseteq RemovalRecord
  <2>1. \A e \in Entry : Removal(e, 3, 0) \in RemovalRecord
    BY CatalogAssumption DEF Removal, RemovalRecord
  <2> QED BY <2>1 DEF IncompleteRemovals
<1> QED BY <1>1, <1>2, <1>3 DEF RetentionCandidates

LEMMA EndRunType ==
  ASSUME EndRun
  PROVE  /\ pc' \in Steps /\ rid' \in RunId \cup {None}
         /\ srcs' \subseteq Dir /\ todo' \subseteq srcs' /\ hold' \subseteq srcs'
         /\ existing' \in Key \cup {None} /\ key' \in Key \cup {None}
         /\ plan' \in [Dir -> Entry \cup {NoEntry}]
         /\ foreseen' \in [Entry -> SetFiles]
         /\ removals' \subseteq RemovalRecord
         /\ cur' \in Entry \cup {NoEntry}
         /\ count' \in 0 .. MaxParts
<1>1. NoSets \in [Entry -> SetFiles]
  BY CatalogAssumption DEF NoSets, Nothing, SetFiles
<1> QED BY <1>1, CatalogAssumption DEF EndRun, Steps

LEMMA StartType ==
  ASSUME TypeOK, RunKnown, NEW S \in SUBSET Dir, NEW t \in (clock + 1) .. MaxTime,
         NEW id \in RunId, NEW forceFull, NEW newKeys,
         NEW stuck, Start(S, t, id, forceFull, newKeys, stuck)
  PROVE  TypeOK'
<1> USE CatalogAssumption
<1>1. disk' \in [Entry -> SetFiles]
  <2>1. ASSUME NEW e \in Entry
        PROVE  WithTemp(disk[e], {k \in disk[e].temp : <<e, k>> \in stuck}) \in SetFiles
    BY FilesType, WithType
  <2> QED BY <2>1, TidyType DEF Start, WithoutLeftovers
<1>2. existing' \in Key \cup {None}
  BY CurrentKeySetType DEF Start
<1>3. plan' \in [Dir -> Entry \cup {NoEntry}]
  BY PlanFolderFits DEF Start
<1>4. foreseen' \in [Entry -> SetFiles]
  <2>1. t \in 0 .. MaxTime
    BY DEF TypeOK
  <2>2. [final |-> {1}, temp |-> {}, created |-> t, run |-> None, key |-> None,
         parts |-> 1, large |-> FALSE] \in SetFiles
    BY <2>1 DEF SetFiles
  <2>3. ASSUME NEW p PROVE Imagined(S, p, t) \in [Entry -> SetFiles]
    BY <2>2 DEF Imagined, TypeOK
  <2> QED BY <2>3 DEF Start
<1>5. clock' \in 0 .. MaxTime
  BY DEF Start, TypeOK
<1>6. /\ logs' \subseteq RunId /\ rid' \in RunId /\ srcs' \subseteq Dir
      /\ todo' \subseteq srcs' /\ pc' \in Steps
  BY DEF Start, TypeOK, Steps
<1>7. hold' = {}
  BY DEF Start, RunKnown
<1> QED BY <1>1, <1>2, <1>3, <1>4, <1>5, <1>6, <1>7 DEF Start, TypeOK

LEMMA TypeOKNext ==
  ASSUME TypeOK, RunKnown, PlanFits, Next
  PROVE  TypeOK'
<1> USE CatalogAssumption, MaxLossesAssumption
<1>1. ASSUME NEW S \in SUBSET Dir, NEW t \in (clock + 1) .. MaxTime,
             NEW id \in RunId, NEW forceFull, NEW newKeys,
             NEW stuck, Start(S, t, id, forceFull, newKeys, stuck)
      PROVE  TypeOK'
  BY <1>1, StartType
<1>2. CASE Abandon \/ RenameFails \/ NoRetention \/ DeleteFails \/ Crash
  BY <1>2, EndRunType
     DEF TypeOK, Abandon, RenameFails, NoRetention, DeleteFails, Crash
<1>3. ASSUME NEW k \in Key, ObtainKeys(k) PROVE TypeOK'
  BY <1>3 DEF TypeOK, ObtainKeys, Steps
<1>4. ASSUME NEW e \in Entry, NEW c \in 1 .. MaxParts, NEW large \in BOOLEAN,
             pc = "running", BeginWrite(e, c, large),
             top' \in [{f \in Entry : f.n = 0} -> 0 .. MaxDiffNumber]
      PROVE  TypeOK'
  <2>1. key \in Key /\ rid \in RunId
    BY <1>4 DEF RunKnown
  <2> DEFINE s == [final |-> disk[e].final, temp |-> disk[e].temp \cup {1},
                   created |-> clock, run |-> rid, key |-> key, parts |-> c,
                   large |-> large]
  <2>2. s \in SetFiles
    BY <1>4, <2>1, FilesType DEF TypeOK, SetFiles
  <2>3. disk' = [disk EXCEPT ![e] = s]
    BY <1>4 DEF BeginWrite
  <2> HIDE DEF s
  <2>4. disk' \in [Entry -> SetFiles]
    BY <2>2, <2>3, UpdateType
  <2>5. /\ cur' \in Entry /\ count' \in 0 .. MaxParts /\ pc' \in Steps
        /\ todo' \subseteq srcs'
        /\ UNCHANGED <<logs, clock, losses, rid, srcs, existing, plan, foreseen,
                       key, hold, removals>>
    BY <1>4 DEF TypeOK, BeginWrite, Steps
  <2> QED BY <1>4, <2>4, <2>5 DEF TypeOK
<1>5. ASSUME NEW d \in Dir, NEW c \in 1 .. MaxParts, NEW large \in BOOLEAN,
             BeginDiff(d, c, large)
      PROVE  TypeOK'
  <2>1. plan[d] \in Entry
    BY <1>5 DEF BeginDiff, PlanFits
  <2> QED BY <1>4, <1>5, <2>1 DEF BeginDiff, TypeOK
<1>6. ASSUME NEW d \in Dir, NEW c \in 1 .. MaxParts, BeginFull(d, c)
      PROVE  TypeOK'
  <2>1. FullEntry(d, rid) \in Entry
    BY <1>6 DEF BeginFull, RunKnown, FullEntry, Entry
  <2>2. top' \in [{f \in Entry : f.n = 0} -> 0 .. MaxDiffNumber]
    <3>1. top \in [{f \in Entry : f.n = 0} -> 0 .. MaxDiffNumber]
      BY DEF TypeOK
    <3>2. top' = [top EXCEPT ![FullEntry(d, rid)] = 0]
      BY <1>6 DEF BeginFull
    <3>3. 0 \in 0 .. MaxDiffNumber
      OBVIOUS
    <3> QED BY <3>1, <3>2, <3>3, ExceptType, Zenon
  <2> QED BY <1>4, <1>6, <2>1, <2>2 DEF BeginFull
<1>7. CASE WritePart
  <2>1. cur \in Entry /\ count + 1 \in 1 .. MaxParts
    BY <1>7 DEF WritePart, RunKnown, TypeOK, SetFiles
  <2>2. WithTemp(disk[cur], disk[cur].temp \cup {count + 1}) \in SetFiles
    BY <2>1, FilesType, WithType
  <2>3. disk' \in [Entry -> SetFiles]
    BY <1>7, <2>1, <2>2, UpdateType DEF WritePart
  <2> QED BY <1>7, <2>1, <2>3 DEF TypeOK, WritePart
<1>8. CASE Written
  BY <1>8 DEF TypeOK, Written, Steps
<1>9. ASSUME NEW stuck \in SUBSET (1 .. count), WriteFails(stuck) PROVE TypeOK'
  <2>1. cur \in Entry /\ count \in 0 .. MaxParts
    BY <1>9 DEF WriteFails, RunKnown, TypeOK
  <2>2. WithTemp(disk[cur], (disk[cur].temp \ (1 .. count)) \cup stuck) \in SetFiles
    <3>1. disk[cur] \in SetFiles /\ disk[cur].temp \subseteq 1 .. MaxParts
      BY <2>1, FilesType
    <3>2. stuck \subseteq 1 .. MaxParts
      BY <2>1
    <3>3. (disk[cur].temp \ (1 .. count)) \cup stuck \in SUBSET (1 .. MaxParts)
      BY <3>1, <3>2
    <3> QED BY <3>1, <3>3, WithType
  <2>3. disk' \in [Entry -> SetFiles]
    BY <1>9, <2>1, <2>2, TidyType, UpdateType DEF WriteFails
  <2> QED BY <1>9, <2>3, EndRunType DEF TypeOK, WriteFails
<1>10. CASE RenamePart
  <2>1. cur \in Entry /\ count + 1 \in 1 .. MaxParts
    BY <1>10 DEF RenamePart, RunKnown, TypeOK, SetFiles
  <2>2. WithFinal(WithTemp(disk[cur], disk[cur].temp \ {count + 1}),
                  disk[cur].final \cup {count + 1}) \in SetFiles
    BY <2>1, FilesType, WithType
  <2>3. disk' \in [Entry -> SetFiles]
    BY <1>10, <2>1, <2>2, UpdateType DEF RenamePart
  <2>4. top' \in [{f \in Entry : f.n = 0} -> 0 .. MaxDiffNumber]
    <3>1. cur.n \in 0 .. MaxDiffNumber
      BY <2>1 DEF Entry
    <3> QED BY <1>10, <3>1 DEF RenamePart, TypeOK
  <2> QED BY <1>10, <2>1, <2>3, <2>4 DEF TypeOK, RenamePart
<1>11. ASSUME NEW misses \in BOOLEAN, SetDone(misses) PROVE TypeOK'
  <2>1. cur.dir \in srcs
    BY <1>11 DEF SetDone, RunKnown
  <2>2. /\ hold' \subseteq srcs' /\ cur' = NoEntry /\ count' = 0
        /\ pc' \in Steps
        /\ UNCHANGED <<disk, logs, clock, losses, top, rid, srcs, todo, existing,
                       plan, foreseen, key, removals>>
    BY <1>11, <2>1 DEF TypeOK, SetDone, Steps
  <2> QED BY <2>2 DEF TypeOK
<1>12. CASE StartRetention
  <2>1. \A d \in srcs : RetentionCandidates(d) \subseteq RemovalRecord
    BY CandidatesType DEF TypeOK
  <2>2. removals' \subseteq RemovalRecord
    BY <1>12, <2>1 DEF StartRetention
  <2> QED BY <1>12, <2>2 DEF TypeOK, StartRetention, Steps
<1>13. ASSUME NEW r \in removals, DeletePart(r) PROVE TypeOK'
  <2> DEFINE e == r.entry
             left == disk[e].final \ {k \in disk[e].final :
                                         \A j \in disk[e].final : k <= j}
  <2>1. e \in Entry
    BY DEF TypeOK, RemovalRecord
  <2>2. WithFinal(disk[e], left) \in SetFiles
    BY <2>1, FilesType, WithType
  <2>3. disk' \in [Entry -> SetFiles]
    BY <1>13, <2>1, <2>2, TidyType, UpdateType DEF DeletePart
  <2>4. cur' \in Entry \cup {NoEntry} /\ removals' \subseteq removals
    BY <1>13, <2>1 DEF DeletePart
  <2>5. UNCHANGED <<logs, clock, losses, top, pc, rid, srcs, todo, existing,
                    plan, foreseen, key, count, hold>>
    BY <1>13 DEF DeletePart
  <2> QED BY <2>3, <2>4, <2>5 DEF TypeOK
<1>14. ASSUME NEW L, DeleteLogs(L) PROVE TypeOK'
  BY <1>14, EndRunType DEF TypeOK, DeleteLogs
<1>15. ASSUME NEW e \in Entry, NEW k \in disk[e].final, Lose(e, k) PROVE TypeOK'
  <2>1. WithFinal(disk[e], disk[e].final \ {k}) \in SetFiles
    BY FilesType, WithType
  <2>2. disk' \in [Entry -> SetFiles]
    BY <1>15, <2>1, TidyType, UpdateType DEF Lose
  <2> QED BY <1>15, <2>2 DEF TypeOK, Lose, runVars
<1> QED
  BY <1>1, <1>2, <1>3, <1>5, <1>6, <1>7, <1>8, <1>9, <1>10, <1>11, <1>12,
     <1>13, <1>14, <1>15 DEF Next

-----------------------------------------------------------------------------
(* What a step does to the files of one set *)

\* The parts of e under final names stay, with their content.
Untouched(e) ==
  /\ disk'[e].final = disk[e].final
  /\ disk'[e].created \in {disk[e].created, 0}
  /\ Present(e) => /\ disk'[e].created = disk[e].created
                   /\ disk'[e].key = disk[e].key
                   /\ disk'[e].parts = disk[e].parts

\* Parts of e are removed such that e isn't complete afterwards.
Damaged(e) ==
  /\ disk'[e].final \subseteq disk[e].final
  /\ disk'[e].created \in {disk[e].created, 0}
  /\ disk'[e].parts = disk[e].parts \/ disk'[e].final = {}
  /\ ~Complete(e)'

LEMMA UntouchedSame ==
  ASSUME NEW e \in Entry, Untouched(e)
  PROVE  /\ Present(e)' <=> Present(e)
         /\ Complete(e)' <=> Complete(e)
         /\ Complete(e) => /\ disk'[e].created = disk[e].created
                           /\ disk'[e].key = disk[e].key
BY DEF Untouched, Present, Complete, HasGap, HasTrailer

LEMMA SameSame ==
  ASSUME NEW e \in Entry, disk'[e] = disk[e]
  PROVE  Untouched(e)
BY DEF Untouched

LEMMA TidyFields ==
  ASSUME NEW s \in SetFiles
  PROVE  /\ Tidy(s).final = s.final
         /\ Tidy(s).created \in {s.created, 0}
         /\ s.final # {} => Tidy(s) = s
         /\ Tidy(s).parts = s.parts \/ Tidy(s).final = {}
BY DEF Tidy, SetFiles, Nothing

LEMMA WithFields ==
  ASSUME NEW s \in SetFiles, NEW T
  PROVE  /\ WithTemp(s, T).final = s.final
         /\ WithTemp(s, T).created = s.created
         /\ WithTemp(s, T).key = s.key
         /\ WithTemp(s, T).parts = s.parts
         /\ WithFinal(s, T).final = T
         /\ WithFinal(s, T).created = s.created
         /\ WithFinal(s, T).key = s.key
         /\ WithFinal(s, T).parts = s.parts
BY DEF WithTemp, WithFinal, SetFiles

\* Temporary parts come and go without any effect on the sets.
LEMMA TempUntouched ==
  ASSUME TypeOK, NEW e \in Entry, NEW T \in SUBSET (1 .. MaxParts),
         \/ disk'[e] = WithTemp(disk[e], T)
         \/ disk'[e] = Tidy(WithTemp(disk[e], T))
  PROVE  Untouched(e)
<1>1. disk[e] \in SetFiles /\ WithTemp(disk[e], T) \in SetFiles
  BY FilesType, WithType
<1> QED BY <1>1, TidyFields, WithFields DEF Untouched, Present

\* A set that loses its first part, or any part up to its last one, isn't
\* complete any more.
LEMMA RemovalDamages ==
  ASSUME TypeOK, PartsInRange, NEW e \in Entry, NEW k \in disk[e].final,
         NEW left \in SUBSET disk[e].final, k \notin left,
         disk'[e] = Tidy(WithFinal(disk[e], left))
  PROVE  Damaged(e) /\ disk'[e].final = left
<1>1. disk[e] \in SetFiles /\ WithFinal(disk[e], left) \in SetFiles
  BY FilesType, WithType
<1>2. /\ disk'[e].final = left
      /\ disk'[e].created \in {disk[e].created, 0}
      /\ left # {} => disk'[e].parts = disk[e].parts
  BY <1>1, TidyFields, WithFields
<1>3. k \in 1 .. disk[e].parts /\ disk[e].parts \in Nat
  BY FilesType DEF PartsInRange
<1>4. ~Complete(e)'
  BY <1>2, <1>3 DEF Complete, Present, HasGap, HasTrailer
<1> QED BY <1>2, <1>4 DEF Damaged

-----------------------------------------------------------------------------
(* Every step preserves DirInv *)

\* DirInv without the types.
Order ==
  /\ RunKnown /\ PartsInRange /\ TimesInOrder /\ PlanFits /\ NoNameClash
  /\ DifferentialsUsable /\ CurrentUsable /\ RemovalsClosed

\* The step is one of RestorePoints, unless somebody else removed files.
PointsStep == losses' = 0 => CompleteSets' = CompleteSets \/ RP!Step

\* When no set is touched, no restore point comes or goes.
LEMMA UntouchedPoints ==
  ASSUME \A e \in Entry : Untouched(e)
  PROVE  PointsStep
BY UntouchedSame DEF PointsStep, CompleteSets

\* Sets that stay keep their bases.
LEMMA UntouchedUsable ==
  ASSUME TypeOK, DifferentialsUsable, losses' = losses,
         \A e \in Entry : Untouched(e)
  PROVE  DifferentialsUsable'
<1> SUFFICES ASSUME losses = 0, NEW e \in Entry, Complete(e)', IsDiff(e)
             PROVE  /\ Complete(FullOf(e))'
                    /\ disk'[FullOf(e)].key = disk'[e].key
                    /\ Created(FullOf(e))' < Created(e)'
  BY DEF DifferentialsUsable, CompleteSets
<1>1. Complete(e) /\ FullOf(e) \in Entry
  BY UntouchedSame, FullOfType
<1>2. /\ Complete(FullOf(e)) /\ disk[FullOf(e)].key = disk[e].key
      /\ Created(FullOf(e)) < Created(e)
  BY <1>1 DEF DifferentialsUsable, CompleteSets
<1> QED BY <1>1, <1>2, UntouchedSame DEF Created

\* The run ends and the directory stays as it is.
LEMMA EndOrder ==
  ASSUME DirInv, EndRun, UNCHANGED <<clock, losses>>,
         \A e \in Entry : Untouched(e)
  PROVE  Order' /\ PointsStep
<1> USE DEF DirInv
<1>1. RunKnown' /\ PlanFits' /\ NoNameClash' /\ CurrentUsable' /\ RemovalsClosed'
  BY DEF EndRun, RunKnown, PlanFits, NoNameClash, CurrentUsable, RemovalsClosed
<1>2. PartsInRange'
  BY DEF PartsInRange, Untouched, Present
<1>3. TimesInOrder'
  BY CreatedType, CatalogAssumption
     DEF TimesInOrder, EndRun, Untouched, Created, TypeOK
<1>4. DifferentialsUsable'
  BY UntouchedUsable
<1>5. PointsStep
  BY UntouchedPoints
<1> QED BY <1>1, <1>2, <1>3, <1>4, <1>5 DEF Order

LEMMA QuietOrder ==
  ASSUME DirInv,
         \/ \E k \in Key : ObtainKeys(k)
         \/ Written
         \/ \E misses \in BOOLEAN : SetDone(misses)
  PROVE  Order' /\ PointsStep
<1> USE DEF DirInv
<1>1. /\ UNCHANGED <<disk, clock, losses, rid, srcs, todo, plan, removals>>
      /\ pc' \in {"running", "renaming"} /\ pc # "cleaning"
  BY DEF ObtainKeys, Written, SetDone
<1>2. RunKnown'
  BY DEF ObtainKeys, Written, SetDone, RunKnown
<1>3. NoNameClash'
  BY DEF ObtainKeys, Written, SetDone, NoNameClash
<1>4. PartsInRange' /\ TimesInOrder' /\ PlanFits' /\ DifferentialsUsable'
  BY <1>1 DEF PartsInRange, TimesInOrder, PlanFits, DifferentialsUsable,
              Created, Present, Complete, HasGap, HasTrailer, CompleteSets
<1>5. CurrentUsable'
  BY <1>1 DEF ObtainKeys, Written, SetDone, CurrentUsable, Created, Present,
              Complete, HasGap, HasTrailer
<1>6. RemovalsClosed'
  BY <1>1 DEF RunKnown, RemovalsClosed
<1>7. PointsStep
  BY <1>1, SameSame, UntouchedPoints
<1> QED BY <1>2, <1>3, <1>4, <1>5, <1>6, <1>7 DEF Order

LEMMA StartOrder ==
  ASSUME DirInv, NEW S \in SUBSET Dir, NEW t \in (clock + 1) .. MaxTime,
         NEW id \in RunId, NEW forceFull, NEW newKeys,
         NEW stuck, Start(S, t, id, forceFull, newKeys, stuck)
  PROVE  Order' /\ PointsStep
<1> USE DEF DirInv
<1>1. \A e \in Entry : Untouched(e)
  <2> SUFFICES ASSUME NEW e \in Entry PROVE Untouched(e)
    OBVIOUS
  <2>1. disk'[e] = Tidy(WithTemp(disk[e], {k \in disk[e].temp : <<e, k>> \in stuck}))
    BY DEF Start, WithoutLeftovers
  <2>2. {k \in disk[e].temp : <<e, k>> \in stuck} \in SUBSET (1 .. MaxParts)
    BY FilesType
  <2> QED BY <2>1, <2>2, TempUntouched
<1>2. /\ pc = "idle" /\ pc' = "planned" /\ rid' = id /\ srcs' = S /\ todo' = S
      /\ clock' = t /\ id \notin UsedIds
      /\ UNCHANGED <<losses, key, cur, count, hold, removals>>
  BY DEF Start
<1>3. RunKnown' /\ NoNameClash' /\ CurrentUsable' /\ RemovalsClosed'
  BY <1>2 DEF RunKnown, NoNameClash, CurrentUsable, RemovalsClosed
<1>4. PartsInRange'
  BY <1>1 DEF PartsInRange, Untouched, Present
<1>5. TimesInOrder'
  <2> SUFFICES ASSUME NEW e \in Entry
               PROVE  /\ Created(e)' < t
                      /\ e.chain = id => ~Present(e)'
    BY <1>2, CreatedType, CatalogAssumption, <1>1
       DEF TimesInOrder, TypeOK, Untouched, Created
  <2>1. Created(e) <= clock /\ clock \in Nat /\ Created(e) \in Nat
    BY CreatedType DEF TimesInOrder, TypeOK
  <2>2. Created(e)' < t
    BY <1>1, <2>1 DEF Untouched, Created
  <2>3. e.chain = id => ~Present(e)
    BY <1>2 DEF UsedIds
  <2> QED BY <1>1, <2>2, <2>3, UntouchedSame
<1>6. PlanFits'
  <2> SUFFICES ASSUME NEW d \in S
               PROVE  plan'[d] \in Entry /\ plan'[d].dir = d /\ ~Present(plan[d])'
    BY <1>2 DEF PlanFits
  <2>1. plan'[d] \in Entry /\ plan'[d].dir = d /\ ~Present(plan'[d])
    BY <1>2, PlanFolderFits DEF Start
  <2> QED BY <1>1, <2>1 DEF Untouched, Present
<1>7. DifferentialsUsable'
  BY <1>1, <1>2, UntouchedUsable
<1>8. PointsStep
  BY <1>1, UntouchedPoints
<1> QED BY <1>3, <1>4, <1>5, <1>6, <1>7, <1>8 DEF Order

\* A new set begins: it is planned for a directory without a set of this run.
LEMMA BeginOrder ==
  ASSUME DirInv, NEW e \in Entry, NEW c \in 1 .. MaxParts, NEW large,
         pc = "running", BeginWrite(e, c, large), e.dir \in todo, ~Present(e),
         IsDiff(e) => Loadable(e)
  PROVE  Order' /\ PointsStep
<1> USE DEF DirInv
<1>1. /\ disk'[e] = [final |-> disk[e].final, temp |-> disk[e].temp \cup {1},
                     created |-> clock, run |-> rid, key |-> key, parts |-> c,
                     large |-> large]
      /\ \A f \in Entry : f # e => disk'[f] = disk[f]
      /\ cur' = e /\ count' = 1 /\ pc' = "writing" /\ todo' = todo \ {e.dir}
      /\ UNCHANGED <<clock, losses, rid, srcs, plan, key, hold, removals>>
  BY DEF BeginWrite, TypeOK
<1>2. disk'[e].final = {} /\ disk'[e].created = clock /\ disk'[e].key = key
  BY <1>1 DEF Present
<1>3. RunKnown'
  BY <1>1 DEF RunKnown, TypeOK
<1>4. PartsInRange' /\ NoNameClash'
  BY <1>1, <1>2 DEF PartsInRange, NoNameClash
<1>5. TimesInOrder'
  <2> SUFFICES ASSUME NEW f \in Entry
               PROVE  /\ Created(f)' <= clock'
                      /\ f.dir \in todo' => Created(f)' < clock'
                      /\ f.dir \in todo' /\ f.chain = rid' => ~Present(f)'
    BY DEF TimesInOrder
  <2>1. CASE f = e
    BY <1>1, <1>2, <2>1 DEF Created, TypeOK
  <2>2. CASE f # e
    BY <1>1, <2>2 DEF TimesInOrder, Created, Present
  <2> QED BY <2>1, <2>2
<1>6. PlanFits'
  BY <1>1 DEF PlanFits, Present
<1>7. \A f \in Entry : /\ Complete(f)' <=> Complete(f)
                       /\ Complete(f) => f # e
  BY <1>1, <1>2 DEF Complete, Present, HasGap, HasTrailer
<1>8. DifferentialsUsable'
  <2> SUFFICES ASSUME losses = 0, NEW f \in Entry, Complete(f)', IsDiff(f)
               PROVE  /\ Complete(FullOf(f))'
                      /\ disk'[FullOf(f)].key = disk'[f].key
                      /\ Created(FullOf(f))' < Created(f)'
    BY <1>1 DEF DifferentialsUsable, CompleteSets
  <2>1. Complete(f) /\ FullOf(f) \in Entry
    BY <1>7, FullOfType
  <2>2. /\ Complete(FullOf(f)) /\ disk[FullOf(f)].key = disk[f].key
        /\ Created(FullOf(f)) < Created(f)
    BY <2>1 DEF DifferentialsUsable, CompleteSets
  <2> QED BY <1>1, <1>7, <2>1, <2>2 DEF Created
<1>9. CurrentUsable'
  <2> SUFFICES ASSUME IsDiff(e)
               PROVE  /\ Complete(FullOf(e))'
                      /\ disk'[FullOf(e)].key = disk'[e].key
                      /\ Created(FullOf(e))' < Created(e)'
    BY <1>1 DEF CurrentUsable
  <2>1. FullOf(e) \in Entry /\ FullOf(e).dir = e.dir
    BY FullOfType DEF FullOf
  <2>2. Complete(FullOf(e)) /\ disk[FullOf(e)].key = key
    BY DEF Loadable
  <2>3. Created(FullOf(e)) < clock
    BY <2>1 DEF TimesInOrder
  <2> QED BY <1>1, <1>2, <1>7, <2>1, <2>2, <2>3 DEF Created
<1>10. RemovalsClosed'
  BY <1>1 DEF RunKnown, RemovalsClosed
<1>11. PointsStep
  BY <1>7 DEF PointsStep, CompleteSets
<1> QED BY <1>3, <1>4, <1>5, <1>6, <1>8, <1>9, <1>10, <1>11 DEF Order

\* The set being written, and its next part.
LEMMA CurrentType ==
  ASSUME TypeOK, RunKnown, pc \in {"writing", "renaming"}, count < disk[cur].parts
  PROVE  cur \in Entry /\ count + 1 \in 1 .. MaxParts
<1>1. cur \in Entry
  BY DEF RunKnown
<1>2. disk[cur].parts \in 0 .. MaxParts /\ count \in 0 .. MaxParts
  BY <1>1, FilesType DEF TypeOK
<1> QED BY <1>1, <1>2, CatalogAssumption

LEMMA WritePartOrder ==
  ASSUME DirInv, WritePart
  PROVE  Order' /\ PointsStep
<1> USE DEF DirInv
<1>1. cur \in Entry /\ count + 1 \in 1 .. MaxParts
  BY CurrentType DEF WritePart
<1>2. /\ disk'[cur] = WithTemp(disk[cur], disk[cur].temp \cup {count + 1})
      /\ \A e \in Entry : e # cur => disk'[e] = disk[e]
      /\ UNCHANGED <<clock, losses, pc, rid, srcs, todo, plan, key, cur, hold,
                     removals>>
      /\ pc = "writing"
  BY <1>1 DEF WritePart, TypeOK
<1>3. \A e \in Entry : Untouched(e)
  <2>1. disk[cur].temp \cup {count + 1} \in SUBSET (1 .. MaxParts)
    BY <1>1, FilesType
  <2>2. Untouched(cur)
    BY <1>1, <1>2, <2>1, TempUntouched
  <2> QED BY <1>2, <2>2, SameSame
<1>4. RunKnown' /\ RemovalsClosed'
  BY <1>2 DEF RunKnown, RemovalsClosed
<1>5. PartsInRange' /\ NoNameClash'
  BY <1>1, <1>2, <1>3 DEF PartsInRange, NoNameClash, Untouched, Present
<1>6. TimesInOrder'
  BY <1>2, <1>3, CreatedType, CatalogAssumption
     DEF TimesInOrder, Untouched, Created, Present, TypeOK
<1>7. PlanFits'
  BY <1>2, <1>3 DEF PlanFits, Untouched, Present
<1>8. DifferentialsUsable'
  BY <1>2, <1>3, UntouchedUsable
<1>9. CurrentUsable'
  <2> SUFFICES ASSUME losses = 0, IsDiff(cur)
               PROVE  /\ Complete(FullOf(cur))'
                      /\ disk'[FullOf(cur)].key = disk'[cur].key
                      /\ Created(FullOf(cur))' < Created(cur)'
    BY <1>2 DEF CurrentUsable
  <2>1. FullOf(cur) \in Entry /\ FullOf(cur) # cur
    BY <1>1, FullOfType DEF FullOf, IsDiff
  <2>2. disk'[cur].key = disk[cur].key /\ disk'[cur].created = disk[cur].created
    BY <1>1, <1>2, FilesType, WithFields
  <2> QED BY <1>2, <1>3, <2>1, <2>2, UntouchedSame DEF CurrentUsable, Created
<1>10. PointsStep
  BY <1>3, UntouchedPoints
<1> QED BY <1>4, <1>5, <1>6, <1>7, <1>8, <1>9, <1>10 DEF Order

LEMMA WriteFailsOrder ==
  ASSUME DirInv, NEW stuck \in SUBSET (1 .. count), WriteFails(stuck)
  PROVE  Order' /\ PointsStep
<1> USE DEF DirInv
<1>1. cur \in Entry /\ count \in 0 .. MaxParts
  BY DEF WriteFails, RunKnown, TypeOK
<1>2. disk' = [disk EXCEPT ![cur] =
                 Tidy(WithTemp(disk[cur], (disk[cur].temp \ (1 .. count)) \cup stuck))]
  BY DEF WriteFails
<1>3. (disk[cur].temp \ (1 .. count)) \cup stuck \in SUBSET (1 .. MaxParts)
  <2>1. disk[cur].temp \subseteq 1 .. MaxParts
    BY <1>1, FilesType
  <2>2. stuck \subseteq 1 .. MaxParts
    BY <1>1, CatalogAssumption
  <2> QED BY <2>1, <2>2
<1>4. \A e \in Entry : Untouched(e)
  <2>1. Untouched(cur)
    BY <1>1, <1>2, <1>3, TempUntouched DEF TypeOK
  <2>2. \A e \in Entry : e # cur => disk'[e] = disk[e]
    BY <1>2 DEF TypeOK
  <2> QED BY <2>1, <2>2, SameSame
<1> QED BY <1>4, EndOrder DEF WriteFails

\* The last rename completes a set.  A differential then has its base; and no
\* differential depends on a full backup that is only being renamed.
LEMMA RenamePartOrder ==
  ASSUME DirInv, RenamePart
  PROVE  Order' /\ PointsStep
<1> USE DEF DirInv
<1>1. cur \in Entry /\ count + 1 \in 1 .. MaxParts
  BY CurrentType DEF RenamePart
<1> DEFINE s == WithFinal(WithTemp(disk[cur], disk[cur].temp \ {count + 1}),
                          disk[cur].final \cup {count + 1})
<1>2. /\ disk' = [disk EXCEPT ![cur] = s]
      /\ pc = "renaming" /\ count < disk[cur].parts /\ count' = count + 1
      /\ UNCHANGED <<clock, losses, pc, rid, srcs, todo, plan, key, cur, hold,
                     removals>>
  BY DEF RenamePart
<1>3. /\ s.final = disk[cur].final \cup {count + 1}
      /\ s.created = disk[cur].created
      /\ s.key = disk[cur].key
      /\ s.parts = disk[cur].parts
  <2>1. disk[cur].temp \ {count + 1} \in SUBSET (1 .. MaxParts)
    BY <1>1, FilesType
  <2>2. /\ disk[cur] \in SetFiles
        /\ WithTemp(disk[cur], disk[cur].temp \ {count + 1}) \in SetFiles
    BY <1>1, <2>1, FilesType, WithType
  <2> QED BY <2>2, WithFields
<1> HIDE DEF s
<1>4. /\ disk'[cur] = s
      /\ \A e \in Entry : e # cur => disk'[e] = disk[e]
  BY <1>1, <1>2 DEF TypeOK
<1>5. \A e \in Entry : Created(e)' = Created(e) /\ disk'[e].key = disk[e].key
  BY <1>3, <1>4 DEF Created
<1>6. \A e \in Entry : e # cur => /\ Complete(e)' <=> Complete(e)
                                  /\ Present(e)' <=> Present(e)
  BY <1>4 DEF Complete, Present, HasGap, HasTrailer
<1>7. ~Complete(cur)
  <2>1. disk[cur].final \subseteq 1 .. count /\ count \in Nat
    BY <1>2 DEF NoNameClash, TypeOK
  <2> QED BY <1>2, <2>1 DEF Complete, HasTrailer
<1>8. RunKnown' /\ RemovalsClosed'
  BY <1>2 DEF RunKnown, RemovalsClosed
<1>9. PartsInRange'
  <2>1. disk[cur].parts \in Nat /\ count \in Nat
    BY <1>1, FilesType DEF TypeOK
  <2> QED BY <1>1, <1>2, <1>3, <1>4, <2>1 DEF PartsInRange
<1>10. NoNameClash'
  <2>1. count \in Nat
    BY DEF TypeOK
  <2> QED BY <1>1, <1>2, <1>3, <1>4, <2>1 DEF NoNameClash
<1>11. TimesInOrder' /\ PlanFits'
  <2>1. cur.dir \notin todo
    BY <1>2 DEF RunKnown
  <2> QED BY <1>2, <1>5, <1>6, <2>1 DEF TimesInOrder, PlanFits
<1>12. ASSUME losses = 0, NEW e \in Entry, IsDiff(e), Complete(e) \/ e = cur
       PROVE  /\ Complete(FullOf(e))'
              /\ disk'[FullOf(e)].key = disk'[e].key
              /\ Created(FullOf(e))' < Created(e)'
  <2>1. /\ Complete(FullOf(e)) /\ disk[FullOf(e)].key = disk[e].key
        /\ Created(FullOf(e)) < Created(e)
    BY <1>2, <1>12 DEF CurrentUsable, DifferentialsUsable, CompleteSets
  <2>2. FullOf(e) \in Entry /\ FullOf(e) # cur
    BY <1>7, <2>1, <1>12, FullOfType
  <2> QED BY <1>5, <1>6, <1>12, <2>1, <2>2
<1>13. DifferentialsUsable' /\ CurrentUsable'
  BY <1>1, <1>2, <1>6, <1>12 DEF DifferentialsUsable, CurrentUsable, CompleteSets
<1>14. PointsStep
  <2> SUFFICES ASSUME losses = 0, CompleteSets' # CompleteSets
               PROVE  RP!Add(cur)
    BY <1>1, <1>2 DEF PointsStep, RP!Step
  <2>1. CompleteSets' = CompleteSets \cup {cur} /\ cur \notin CompleteSets
    BY <1>1, <1>6, <1>7 DEF CompleteSets
  <2>2. FullOf(cur) \in CompleteSets \cup {cur}
    <3>1. CASE IsDiff(cur)
      BY <1>1, <1>2, <3>1, FullOfType DEF CurrentUsable, CompleteSets
    <3>2. CASE ~IsDiff(cur)
      BY <1>1, <3>2, CatalogAssumption DEF FullOf, IsDiff, Entry
    <3> QED BY <3>1, <3>2
  <2> QED BY <2>1, <2>2 DEF RP!Add
<1> QED BY <1>8, <1>9, <1>10, <1>11, <1>13, <1>14 DEF Order

\* Retention takes an old chain as a whole, surplus differentials, and sets
\* that aren't complete.
LEMMA StartRetentionOrder ==
  ASSUME DirInv, StartRetention
  PROVE  Order' /\ PointsStep
<1> USE DEF DirInv
<1>1. /\ pc = "running" /\ pc' = "cleaning"
      /\ removals' = UNION {RetentionCandidates(d) : d \in srcs \ hold}
      /\ UNCHANGED <<disk, clock, losses, rid, srcs, todo, plan, key, cur, count,
                     hold>>
  BY DEF StartRetention
<1>2. RunKnown' /\ NoNameClash' /\ CurrentUsable'
  BY <1>1 DEF RunKnown, NoNameClash, CurrentUsable
<1>3. PartsInRange' /\ TimesInOrder' /\ PlanFits' /\ DifferentialsUsable'
  BY <1>1 DEF PartsInRange, TimesInOrder, PlanFits, DifferentialsUsable,
              Created, Present, Complete, HasGap, HasTrailer, CompleteSets
<1>4. ASSUME NEW d \in srcs \ hold, NEW r \in RetentionCandidates(d)
      PROVE  /\ r.class = 1 /\ ~IsDiff(r.entry) =>
                  \A f \in CompleteSets :
                    FullOf(f) = r.entry => Removal(f, 1, r.age) \in RetentionCandidates(d)
             /\ r.class = 2 => IsDiff(r.entry)
             /\ r.class = 3 => ~Complete(r.entry)
  <2>1. CASE r \in OldChainRemovals(d)
    <3>1. PICK e \in CompleteSets : /\ FullOf(e) \in OldFulls(d)
                                    /\ r = Removal(e, 1, Created(FullOf(e)))
      BY <2>1 DEF OldChainRemovals
    <3>2. r.entry = e /\ r.class = 1 /\ r.age = Created(FullOf(e))
      BY <3>1 DEF Removal
    <3>3. ASSUME ~IsDiff(e), NEW f \in CompleteSets, FullOf(f) = e
          PROVE  Removal(f, 1, r.age) \in RetentionCandidates(d)
      <4>1. FullOf(e) = e
        BY <3>3, FullOfType DEF CompleteSets
      <4> QED BY <2>1, <3>1, <3>2, <3>3, <4>1 DEF OldChainRemovals, RetentionCandidates
    <3> QED BY <3>2, <3>3
  <2>2. CASE r \in SurplusRemovals(d)
    <3>1. PICK b \in Fulls(d) : \E e \in Surplus(b) : r = Removal(e, 2, Created(b))
      BY <2>2 DEF SurplusRemovals
    <3> QED BY <3>1 DEF Surplus, DiffsOf, Removal
  <2>3. CASE r \in IncompleteRemovals(d)
    <3>1. PICK e \in Entry : Incomplete(e) /\ r = Removal(e, 3, 0)
      BY <2>3 DEF IncompleteRemovals
    <3> QED BY <3>1 DEF Removal, Incomplete, Complete
  <2> QED BY <1>4, <2>1, <2>2, <2>3 DEF RetentionCandidates
<1>5. RemovalsClosed'
  <2>1. cur = NoEntry
    BY <1>1 DEF RunKnown
  <2>2. CompleteSets' = CompleteSets /\ \A e : Complete(e)' <=> Complete(e)
    BY <1>1 DEF CompleteSets, Complete, Present, HasGap, HasTrailer
  <2> QED BY <1>1, <1>4, <2>1, <2>2 DEF RemovalsClosed
<1>6. PointsStep
  BY <1>1, SameSame, UntouchedPoints
<1> QED BY <1>2, <1>3, <1>5, <1>6 DEF Order

\* Sets that lose parts, while the others stay.
LEMMA DamageOrder ==
  ASSUME DirInv, NEW e \in Entry, Damaged(e),
         \A f \in Entry : f # e => disk'[f] = disk[f],
         UNCHANGED <<clock, pc, rid, srcs, todo, plan, key, count, hold>>,
         pc = "cleaning" \/ UNCHANGED <<cur, removals>>
  PROVE  /\ RunKnown' /\ PartsInRange' /\ TimesInOrder' /\ PlanFits' /\ NoNameClash'
         /\ \A f \in Entry : Complete(f)' => f # e /\ Complete(f)
<1> USE DEF DirInv
<1>1. \A f \in Entry : Complete(f)' => f # e /\ Complete(f)
  BY DEF Damaged, Complete, Present, HasGap, HasTrailer
<1>2. RunKnown'
  BY DEF RunKnown
<1>3. PartsInRange'
  BY DEF PartsInRange, Damaged
<1>4. TimesInOrder'
  <2> SUFFICES ASSUME NEW f \in Entry
               PROVE  /\ Created(f)' <= clock
                      /\ f.dir \in todo => Created(f)' < clock
                      /\ f.dir \in todo /\ f.chain = rid => ~Present(f)'
    BY DEF TimesInOrder
  <2>1. Created(f)' \in {Created(f), 0} /\ (Present(f)' => Present(f))
    BY DEF Damaged, Created, Present
  <2>2. Created(f) \in Nat /\ clock \in Nat
    BY CreatedType DEF TypeOK
  <2> QED BY <2>1, <2>2 DEF TimesInOrder
<1>5. PlanFits'
  <2>1. \A f \in Entry : Present(f)' => Present(f)
    BY DEF Damaged, Present
  <2>2. plan' = plan /\ todo' = todo
    OBVIOUS
  <2> QED BY <2>1, <2>2 DEF PlanFits, Present
<1>6. NoNameClash'
  BY DEF NoNameClash, Damaged, RunKnown
<1> QED BY <1>1, <1>2, <1>3, <1>4, <1>5, <1>6

\* Deleting takes a full backup after its complete differentials: they are in
\* the same chain, younger, and so come first.
LEMMA DeletePartOrder ==
  ASSUME DirInv, NEW r \in removals, DeletePart(r)
  PROVE  Order' /\ PointsStep
<1> USE DEF DirInv
<1> DEFINE e == r.entry
           left == disk[e].final \ {k \in disk[e].final :
                                       \A j \in disk[e].final : k <= j}
<1>1. e \in Entry /\ r.class \in 1 .. 3
  BY DEF TypeOK, RemovalRecord
<1>2. /\ disk' = [disk EXCEPT ![e] = Tidy(WithFinal(disk[e], left))]
      /\ pc = "cleaning" /\ Turn(r)
      /\ IF left = {} THEN cur' = NoEntry /\ removals' = removals \ {r}
                      ELSE cur' = e /\ UNCHANGED removals
      /\ UNCHANGED <<clock, losses, pc, rid, srcs, todo, plan, key, count, hold>>
  BY DEF DeletePart
<1>3. disk[e].final \subseteq 1 .. MaxParts
  BY <1>1, FilesType
<1>4. 1 \notin left
  BY <1>3
<1>5. /\ disk'[e] = Tidy(WithFinal(disk[e], left))
      /\ \A f \in Entry : f # e => disk'[f] = disk[f]
  BY <1>1, <1>2 DEF TypeOK
<1> HIDE DEF e, left
<1>6. left \in SUBSET disk[e].final
  BY DEF left
<1>7. Damaged(e) /\ disk'[e].final = left
  <2>1. disk[e] \in SetFiles /\ WithFinal(disk[e], left) \in SetFiles
    BY <1>1, <1>3, <1>6, FilesType, WithType
  <2>2. /\ disk'[e].final = left
        /\ disk'[e].created \in {disk[e].created, 0}
        /\ disk'[e].parts = disk[e].parts \/ disk'[e].final = {}
    BY <1>5, <2>1, TidyFields, WithFields
  <2>3. ~Complete(e)'
    BY <1>3, <1>4, <1>6, <2>2 DEF Complete, Present, HasGap
  <2> QED BY <1>6, <2>2, <2>3 DEF Damaged
<1>8. /\ RunKnown' /\ PartsInRange' /\ TimesInOrder' /\ PlanFits' /\ NoNameClash'
      /\ \A f \in Entry : Complete(f)' => f # e /\ Complete(f)
  BY <1>1, <1>2, <1>5, <1>7, DamageOrder
<1>9. CurrentUsable'
  BY <1>2 DEF CurrentUsable
<1>10. DifferentialsUsable'
  <2> SUFFICES ASSUME losses = 0, NEW f \in Entry, Complete(f)', IsDiff(f)
               PROVE  /\ Complete(FullOf(f))'
                      /\ disk'[FullOf(f)].key = disk'[f].key
                      /\ Created(FullOf(f))' < Created(f)'
    BY <1>2 DEF DifferentialsUsable, CompleteSets
  <2>1. f # e /\ Complete(f) /\ FullOf(f) \in Entry
    BY <1>8, FullOfType
  <2>2. /\ Complete(FullOf(f)) /\ disk[FullOf(f)].key = disk[f].key
        /\ Created(FullOf(f)) < Created(f)
    BY <2>1 DEF DifferentialsUsable, CompleteSets
  <2>3. FullOf(f) # e
    <3> SUFFICES ASSUME FullOf(f) = e PROVE FALSE
      OBVIOUS
    <3>1. e.n = 0 /\ e.dir = f.dir
      BY DEF FullOf
    <3>2. r.class = 1 /\ ~IsDiff(e)
      BY <1>1, <2>2, <3>1 DEF RemovalsClosed, IsDiff, e
    <3> DEFINE q == Removal(f, 1, r.age)
    <3>3. q \in removals
      BY <2>1, <3>2 DEF RemovalsClosed, CompleteSets, e
    <3>4. q.entry = f /\ q.class = 1 /\ q.age = r.age
      BY DEF Removal
    <3> HIDE DEF q
    <3>5. Precedes(q, r)
      <4>1. Created(f) > Created(e)
        BY <1>1, <2>2, CreatedType
      <4> QED BY <3>1, <3>2, <3>4, <4>1 DEF Precedes, e
    <3>6. cur # NoEntry
      BY <1>2, <2>1, <3>3, <3>4, <3>5 DEF Turn, e
    <3>7. cur = e /\ 1 \notin disk[e].final
      BY <1>2, <3>6 DEF Turn, RemovalsClosed, e
    <3>8. ~Complete(e)
      BY <1>3, <3>7 DEF Complete, Present, HasGap
    <3> QED BY <2>2, <3>8
  <2> QED BY <1>1, <1>5, <2>1, <2>2, <2>3 DEF Complete, Present, HasGap, HasTrailer, Created
<1>11. RemovalsClosed'
  <2>1. removals' \subseteq removals /\ (\A q \in removals : q.entry # e => q \in removals')
    BY <1>2 DEF e
  <2>2. ASSUME NEW q \in removals'
        PROVE  /\ q.class = 1 /\ ~IsDiff(q.entry) =>
                    \A f \in CompleteSets' :
                      FullOf(f) = q.entry => Removal(f, 1, q.age) \in removals'
               /\ q.class = 2 => IsDiff(q.entry)
               /\ q.class = 3 => ~Complete(q.entry)'
    <3>1. q \in removals /\ q.entry \in Entry
      BY <2>1 DEF TypeOK, RemovalRecord
    <3>2. ASSUME q.class = 1, ~IsDiff(q.entry), NEW f \in CompleteSets',
                 FullOf(f) = q.entry
          PROVE  Removal(f, 1, q.age) \in removals'
      <4>1. f \in CompleteSets /\ f # e
        BY <1>8 DEF CompleteSets
      <4>2. Removal(f, 1, q.age) \in removals
        BY <3>1, <3>2, <4>1 DEF RemovalsClosed
      <4> QED BY <2>1, <4>1, <4>2 DEF Removal
    <3> QED BY <1>8, <3>1, <3>2 DEF RemovalsClosed
  <2>3. pc' = "cleaning" /\ cur' # NoEntry => 1 \notin disk'[cur'].final
    BY <1>2, <1>4, <1>7
  <2> QED BY <2>2, <2>3 DEF RemovalsClosed
<1>12. PointsStep
  <2> SUFFICES ASSUME losses' = 0, CompleteSets' # CompleteSets
               PROVE  RP!Remove(e)
    BY <1>1 DEF PointsStep, RP!Step
  <2>1. \A f \in Entry : f # e => (Complete(f)' <=> Complete(f))
    BY <1>5 DEF Complete, Present, HasGap, HasTrailer
  <2>2. e \in CompleteSets /\ CompleteSets' = CompleteSets \ {e}
    BY <1>1, <1>8, <2>1 DEF CompleteSets
  <2>3. ASSUME NEW f \in CompleteSets \ {e}, FullOf(f) = e PROVE FALSE
    <3>1. IsDiff(f)
      BY <2>3, CatalogAssumption DEF CompleteSets, FullOf, IsDiff, Entry
    <3>2. Complete(f)' /\ f \in Entry
      BY <2>1, <2>3 DEF CompleteSets
    <3>3. Complete(FullOf(f))'
      BY <1>10, <3>1, <3>2 DEF DifferentialsUsable, CompleteSets
    <3>4. Complete(e)'
      BY <2>3, <3>3 DEF Complete, Present, HasGap, HasTrailer
    <3> QED BY <1>1, <1>8, <3>4
  <2> QED BY <2>2, <2>3 DEF RP!Remove
<1> QED BY <1>8, <1>9, <1>10, <1>11, <1>12 DEF Order

LEMMA LoseOrder ==
  ASSUME DirInv, NEW e \in Entry, NEW k \in disk[e].final, Lose(e, k)
  PROVE  Order' /\ PointsStep
<1> USE DEF DirInv
<1>1. /\ disk' = [disk EXCEPT ![e] = Tidy(WithFinal(disk[e], disk[e].final \ {k}))]
      /\ losses' = losses + 1
      /\ UNCHANGED <<clock, pc, rid, srcs, todo, plan, key, cur, count, hold, removals>>
  BY DEF Lose, runVars
<1>2. /\ disk'[e] = Tidy(WithFinal(disk[e], disk[e].final \ {k}))
      /\ \A f \in Entry : f # e => disk'[f] = disk[f]
  BY <1>1 DEF TypeOK
<1>3. Damaged(e)
  BY <1>2, RemovalDamages
<1>4. /\ RunKnown' /\ PartsInRange' /\ TimesInOrder' /\ PlanFits' /\ NoNameClash'
      /\ \A f \in Entry : Complete(f)' => f # e /\ Complete(f)
  BY <1>1, <1>2, <1>3, DamageOrder
<1>5. losses' # 0
  BY <1>1 DEF TypeOK
<1>6. DifferentialsUsable' /\ CurrentUsable'
  BY <1>5 DEF DifferentialsUsable, CurrentUsable
<1>7. RemovalsClosed'
  <2>1. \A q \in removals : q.entry \in Entry
    BY DEF TypeOK, RemovalRecord
  <2>2. \A f \in Entry : disk'[f].final \subseteq disk[f].final
    BY <1>2, <1>3 DEF Damaged
  <2>3. CompleteSets' \subseteq CompleteSets
    BY <1>4 DEF CompleteSets
  <2>4. cur \in Entry \cup {NoEntry}
    BY DEF TypeOK
  <2> QED BY <1>1, <1>4, <2>1, <2>2, <2>3, <2>4 DEF RemovalsClosed
<1>8. PointsStep
  BY <1>5 DEF PointsStep
<1> QED BY <1>4, <1>6, <1>7, <1>8 DEF Order

LEMMA DirInvInit == Init => DirInv
<1> SUFFICES ASSUME Init PROVE DirInv
  OBVIOUS
<1> USE CatalogAssumption, MaxLossesAssumption
<1>1. /\ Nothing \in SetFiles
      /\ Nothing.final = {} /\ Nothing.created = 0
  BY DEF Nothing, SetFiles
<1>2. disk \in [Entry -> SetFiles] /\ \A e \in Entry : disk[e] = Nothing
  BY <1>1 DEF Init, NoSets
<1>3. foreseen \in [Entry -> SetFiles]
  BY <1>1 DEF Init, NoRun, NoSets
<1>4. TypeOK
  BY <1>2, <1>3 DEF Init, NoRun, TypeOK, Steps
<1>5. \A e \in Entry : ~Complete(e)
  BY <1>1, <1>2 DEF Complete, Present
<1>6. RunKnown /\ PlanFits /\ NoNameClash /\ CurrentUsable /\ RemovalsClosed
  BY DEF Init, NoRun, RunKnown, PlanFits, NoNameClash, CurrentUsable, RemovalsClosed
<1>7. PartsInRange
  BY <1>1, <1>2 DEF PartsInRange
<1>8. TimesInOrder
  BY <1>1, <1>2 DEF Init, NoRun, TimesInOrder, Created
<1>9. DifferentialsUsable
  BY <1>5 DEF DifferentialsUsable, CompleteSets
<1> QED BY <1>4, <1>6, <1>7, <1>8, <1>9 DEF DirInv

\* Every step of a run, a crash and a file removed by somebody else keep DirInv.
LEMMA DirInvNext == DirInv /\ [Next]_vars => DirInv' /\ PointsStep
<1> SUFFICES ASSUME DirInv, [Next]_vars PROVE DirInv' /\ PointsStep
  OBVIOUS
<1>1. CASE UNCHANGED vars
  <2>1. PointsStep
    BY <1>1, SameSame, UntouchedPoints DEF vars
  <2> QED BY <1>1, <2>1 DEF vars, runVars, DirInv, TypeOK, RunKnown, PartsInRange, TimesInOrder,
     PlanFits, NoNameClash, DifferentialsUsable, CurrentUsable, RemovalsClosed,
     Created, Present, Complete, HasGap, HasTrailer, CompleteSets
<1>2. CASE Next
  <2>1. TypeOK'
    BY <1>2, TypeOKNext DEF DirInv
  <2>2. Order' /\ PointsStep
    <3>1. ASSUME NEW S \in SUBSET Dir, NEW t \in (clock + 1) .. MaxTime,
                 NEW id \in RunId, NEW forceFull, NEW newKeys,
                 NEW stuck, Start(S, t, id, forceFull, newKeys, stuck)
          PROVE  Order' /\ PointsStep
      BY <3>1, StartOrder
    <3>2. CASE \/ Abandon \/ RenameFails \/ NoRetention \/ DeleteFails \/ Crash
               \/ \E L \in SUBSET logs : DeleteLogs(L)
      <4>1. EndRun /\ UNCHANGED <<disk, clock, losses>>
        BY <3>2 DEF Abandon, RenameFails, NoRetention, DeleteFails, Crash, DeleteLogs
      <4>2. \A e \in Entry : Untouched(e)
        BY <4>1, SameSame
      <4> QED BY <4>1, <4>2, EndOrder
    <3>3. CASE \/ \E k \in Key : ObtainKeys(k)
               \/ Written
               \/ \E misses \in BOOLEAN : SetDone(misses)
      BY <3>3, QuietOrder
    <3>4. ASSUME NEW d \in Dir, NEW c \in 1 .. MaxParts, NEW large \in BOOLEAN,
                 BeginDiff(d, c, large)
          PROVE  Order' /\ PointsStep
      <4>1. plan[d] \in Entry /\ plan[d].dir = d /\ ~Present(plan[d])
        BY <3>4 DEF BeginDiff, DirInv, PlanFits
      <4> QED BY <3>4, <4>1, BeginOrder DEF BeginDiff
    <3>5. ASSUME NEW d \in Dir, NEW c \in 1 .. MaxParts, BeginFull(d, c)
          PROVE  Order' /\ PointsStep
      <4> DEFINE e == FullEntry(d, rid)
      <4>1. e \in Entry /\ e.dir = d /\ e.chain = rid /\ ~IsDiff(e)
        BY <3>5, CatalogAssumption
           DEF BeginFull, DirInv, RunKnown, FullEntry, Entry, IsDiff
      <4> HIDE DEF e
      <4>2. ~Present(e)
        BY <3>5, <4>1 DEF BeginFull, DirInv, TimesInOrder
      <4> QED BY <3>5, <4>1, <4>2, BeginOrder DEF BeginFull, e
    <3>6. CASE WritePart
      BY <3>6, WritePartOrder
    <3>7. CASE \E stuck \in SUBSET (1 .. count) : WriteFails(stuck)
      BY <3>7, WriteFailsOrder
    <3>8. CASE RenamePart
      BY <3>8, RenamePartOrder
    <3>9. CASE StartRetention
      BY <3>9, StartRetentionOrder
    <3>10. CASE \E r \in removals : DeletePart(r)
      BY <3>10, DeletePartOrder
    <3>11. CASE \E e \in Entry : \E k \in disk[e].final : Lose(e, k)
      BY <3>11, LoseOrder
    <3> QED
      BY <1>2, <3>1, <3>2, <3>3, <3>4, <3>5, <3>6, <3>7, <3>8, <3>9, <3>10, <3>11
      DEF Next
  <2> QED BY <2>1, <2>2 DEF Order, DirInv
<1> QED BY <1>1, <1>2

\* Lost files do not come back.
LEMMA LossesGrow ==
  ASSUME TypeOK, [Next]_vars
  PROVE  losses <= losses'
<1>1. losses \in Int
  BY MaxLossesAssumption DEF TypeOK
<1>2. CASE losses' = losses
  BY <1>1, <1>2
<1>3. CASE losses' = losses + 1
  BY <1>1, <1>3
<1>4. losses' = losses \/ losses' = losses + 1
  BY ZenonT(60)
     DEF Next, vars, Start, Abandon, ObtainKeys, BeginDiff, BeginFull, BeginWrite,
     WritePart, Written, WriteFails, RenamePart, RenameFails, SetDone, NoRetention,
     StartRetention, DeletePart, DeleteFails, DeleteLogs, Crash, Lose
<1> QED BY <1>2, <1>3, <1>4

-----------------------------------------------------------------------------
(* Logs *)

\* A set that is complete after a step was complete before, from the same run.
SameRun(e) == Complete(e)' => Complete(e) /\ disk'[e].run = disk[e].run

LEMMA DiskSameRun ==
  ASSUME NEW e \in Entry, disk'[e] = disk[e]
  PROVE  SameRun(e)
BY DEF SameRun, Complete, Present, HasGap, HasTrailer

LEMMA WithRun ==
  ASSUME NEW s \in SetFiles, NEW T
  PROVE  WithTemp(s, T).run = s.run /\ WithFinal(s, T).run = s.run
BY DEF WithTemp, WithFinal, SetFiles

LEMMA TempSameRun ==
  ASSUME TypeOK, NEW e \in Entry, NEW T \in SUBSET (1 .. MaxParts),
         \/ disk'[e] = WithTemp(disk[e], T)
         \/ disk'[e] = Tidy(WithTemp(disk[e], T))
  PROVE  SameRun(e)
<1>1. disk[e] \in SetFiles /\ WithTemp(disk[e], T) \in SetFiles
  BY FilesType, WithType
<1>2. Complete(e)' => Complete(e) /\ Present(e)
  BY TempUntouched, UntouchedSame DEF Complete
<1>3. Present(e) => disk'[e] = WithTemp(disk[e], T)
  BY <1>1, TidyFields, WithFields DEF Present
<1> QED BY <1>1, <1>2, <1>3, WithRun DEF SameRun

LEMMA FinalSameRun ==
  ASSUME TypeOK, PartsInRange, NEW e \in Entry, NEW left \in SUBSET disk[e].final,
         disk'[e] = Tidy(WithFinal(disk[e], left))
  PROVE  SameRun(e)
<1>1. disk[e] \in SetFiles /\ WithFinal(disk[e], left) \in SetFiles
  BY FilesType, WithType
<1>2. CASE left = disk[e].final
  <2>1. Complete(e)' => disk'[e] = WithFinal(disk[e], left)
    BY <1>1, TidyFields DEF Complete, Present
  <2>2. /\ WithFinal(disk[e], left).final = disk[e].final
        /\ WithFinal(disk[e], left).parts = disk[e].parts
        /\ WithFinal(disk[e], left).run = disk[e].run
    BY <1>1, <1>2, WithFields, WithRun
  <2> QED BY <2>1, <2>2 DEF SameRun, Complete, Present, HasGap, HasTrailer
<1>3. CASE left # disk[e].final
  <2>1. PICK k \in disk[e].final : k \notin left
    BY <1>3
  <2>2. Damaged(e)
    BY <2>1, RemovalDamages
  <2> QED BY <2>2 DEF Damaged, SameRun
<1> QED BY <1>2, <1>3

\* Steps that add no set keep LogsKept when no log of a run with sets goes.
LEMMA LogsKeptStep ==
  ASSUME LogsKept, \A e \in Entry : SameRun(e),
         \A e \in CompleteSets : disk[e].run \in logs => disk[e].run \in logs'
  PROVE  LogsKept'
BY DEF LogsKept, SameRun, CompleteSets

LEMMA LogInvNext ==
  ASSUME DirInv, LogInv, [Next]_vars
  PROVE  LogInv'
<1> USE CatalogAssumption
<1>0. TypeOK /\ RunKnown /\ PartsInRange /\ LogsKept /\ RunLogged
  BY DEF DirInv, LogInv
<1>1. CASE UNCHANGED vars
  BY <1>1 DEF LogInv, LogsKept, RunLogged, vars, runVars, CompleteSets, Complete,
     Present, HasGap, HasTrailer
<1>2. ASSUME NEW S \in SUBSET Dir, NEW t \in (clock + 1) .. MaxTime,
             NEW id \in RunId, NEW forceFull, NEW newKeys,
             NEW stuck, Start(S, t, id, forceFull, newKeys, stuck)
      PROVE  LogInv'
  <2>1. logs' = logs \cup {id} /\ rid' = id /\ pc' = "planned"
    BY <1>2 DEF Start
  <2>2. ASSUME NEW e \in Entry PROVE SameRun(e)
    <3> DEFINE T == {k \in disk[e].temp : <<e, k>> \in stuck}
    <3>1. disk'[e] = Tidy(WithTemp(disk[e], T))
      BY <1>2 DEF Start, WithoutLeftovers
    <3>2. T \in SUBSET (1 .. MaxParts)
      BY <1>0, FilesType
    <3> QED BY <1>0, <3>1, <3>2, TempSameRun
  <2>3. LogsKept'
    BY <1>0, <2>1, <2>2, LogsKeptStep
  <2> QED BY <2>1, <2>3 DEF LogInv, RunLogged
<1>3. CASE Abandon \/ RenameFails \/ NoRetention \/ DeleteFails \/ Crash
  <2>1. pc' = "idle" /\ UNCHANGED <<disk, logs>>
    BY <1>3 DEF Abandon, RenameFails, NoRetention, DeleteFails, Crash, EndRun
  <2>2. LogsKept'
    BY <1>0, <2>1, DiskSameRun, LogsKeptStep
  <2> QED BY <2>1, <2>2 DEF LogInv, RunLogged
<1>4. ASSUME NEW L, DeleteLogs(L) PROVE LogInv'
  <2>1. pc' = "idle" /\ disk' = disk /\ logs' = logs \ L /\ L \cap UsedIds = {}
    BY <1>4 DEF DeleteLogs, EndRun, ActiveRuns
  <2>2. \A e \in CompleteSets : disk[e].run \in UsedIds
    BY DEF UsedIds
  <2>3. LogsKept'
    BY <1>0, <2>1, <2>2, DiskSameRun, LogsKeptStep
  <2> QED BY <2>1, <2>3 DEF LogInv, RunLogged
<1>5. CASE \/ \E k \in Key : ObtainKeys(k)
           \/ Written
           \/ \E misses \in BOOLEAN : SetDone(misses)
           \/ StartRetention
  <2>1. /\ UNCHANGED <<disk, logs, rid>> /\ pc # "idle"
        /\ pc' = "renaming" => pc = "writing" /\ cur' = cur
        /\ pc' # "writing"
    BY <1>5 DEF ObtainKeys, Written, SetDone, StartRetention
  <2>2. LogsKept'
    BY <1>0, <2>1, DiskSameRun, LogsKeptStep
  <2> QED BY <1>0, <2>1, <2>2 DEF LogInv, RunLogged
<1>6. ASSUME NEW e \in Entry, NEW c \in 1 .. MaxParts, NEW large \in BOOLEAN,
             pc = "running", ~Present(e), BeginWrite(e, c, large)
      PROVE  LogInv'
  <2> DEFINE s == [final |-> disk[e].final, temp |-> disk[e].temp \cup {1},
                   created |-> clock, run |-> rid, key |-> key, parts |-> c,
                   large |-> large]
  <2>1. disk' = [disk EXCEPT ![e] = s] /\ cur' = e /\ UNCHANGED <<logs, rid>>
    BY <1>6 DEF BeginWrite
  <2>2. disk'[e] = s /\ \A f \in Entry \ {e} : disk'[f] = disk[f]
    BY <1>0, <2>1 DEF TypeOK
  <2>3. ~Complete(e)'
    BY <1>6, <2>2 DEF Complete, Present
  <2>4. \A f \in Entry : SameRun(f)
    BY <2>2, <2>3, DiskSameRun DEF SameRun
  <2>5. LogsKept'
    BY <1>0, <2>1, <2>4, LogsKeptStep
  <2>6. RunLogged'
    BY <1>0, <1>6, <2>1, <2>2 DEF RunLogged
  <2> QED BY <2>5, <2>6 DEF LogInv
<1>7. ASSUME NEW d \in Dir, NEW c \in 1 .. MaxParts, NEW large \in BOOLEAN,
             BeginDiff(d, c, large)
      PROVE  LogInv'
  <2>1. plan[d] \in Entry /\ ~Present(plan[d])
    BY <1>7 DEF BeginDiff, DirInv, PlanFits
  <2> QED BY <1>6, <1>7, <2>1 DEF BeginDiff
<1>8. ASSUME NEW d \in Dir, NEW c \in 1 .. MaxParts, BeginFull(d, c)
      PROVE  LogInv'
  <2> DEFINE e == FullEntry(d, rid)
  <2>1. e \in Entry /\ e.dir = d /\ e.chain = rid
    BY <1>0, <1>8 DEF BeginFull, RunKnown, FullEntry, Entry
  <2> HIDE DEF e
  <2>2. ~Present(e)
    BY <1>8, <2>1 DEF BeginFull, DirInv, TimesInOrder
  <2> QED BY <1>6, <1>8, <2>1, <2>2 DEF BeginFull, e
<1>9. CASE WritePart
  <2> DEFINE T == disk[cur].temp \cup {count + 1}
  <2>1. cur \in Entry /\ count + 1 \in 1 .. MaxParts
    BY <1>0, <1>9 DEF WritePart, RunKnown, TypeOK, SetFiles
  <2>2. T \in SUBSET (1 .. MaxParts)
    BY <1>0, <2>1, FilesType
  <2> HIDE DEF T
  <2>3. /\ disk'[cur] = WithTemp(disk[cur], T)
        /\ \A f \in Entry \ {cur} : disk'[f] = disk[f]
        /\ UNCHANGED <<logs, rid, pc, cur>>
    BY <1>0, <1>9, <2>1 DEF WritePart, TypeOK, T
  <2>4. \A f \in Entry : SameRun(f)
    BY <1>0, <2>1, <2>2, <2>3, DiskSameRun, TempSameRun
  <2>5. LogsKept'
    BY <1>0, <2>3, <2>4, LogsKeptStep
  <2>6. disk'[cur].run = disk[cur].run
    BY <1>0, <2>1, <2>3, FilesType, WithRun
  <2> QED BY <1>0, <2>3, <2>5, <2>6 DEF LogInv, RunLogged
<1>10. ASSUME NEW stuck \in SUBSET (1 .. count), WriteFails(stuck) PROVE LogInv'
  <2> DEFINE T == (disk[cur].temp \ (1 .. count)) \cup stuck
  <2>1. cur \in Entry /\ count \in 0 .. MaxParts
    BY <1>0, <1>10 DEF WriteFails, RunKnown, TypeOK
  <2>2. T \in SUBSET (1 .. MaxParts)
    <3>1. disk[cur].temp \subseteq 1 .. MaxParts
      BY <1>0, <2>1, FilesType
    <3>2. stuck \subseteq 1 .. MaxParts
      BY <2>1
    <3> QED BY <3>1, <3>2
  <2> HIDE DEF T
  <2>3. /\ disk'[cur] = Tidy(WithTemp(disk[cur], T))
        /\ \A f \in Entry \ {cur} : disk'[f] = disk[f]
        /\ logs' = logs /\ pc' = "idle"
    BY <1>0, <1>10, <2>1 DEF WriteFails, EndRun, TypeOK, T
  <2>4. \A f \in Entry : SameRun(f)
    BY <1>0, <2>1, <2>2, <2>3, DiskSameRun, TempSameRun
  <2>5. LogsKept'
    BY <1>0, <2>3, <2>4, LogsKeptStep
  <2> QED BY <2>3, <2>5 DEF LogInv, RunLogged
<1>11. CASE RenamePart
  <2> DEFINE s == WithTemp(disk[cur], disk[cur].temp \ {count + 1})
             F == disk[cur].final \cup {count + 1}
  <2>1. cur \in Entry /\ s \in SetFiles /\ s.run = disk[cur].run
    BY <1>0, <1>11, FilesType, WithType, WithRun DEF RenamePart, RunKnown
  <2> HIDE DEF s
  <2>2. /\ disk'[cur] = WithFinal(s, F)
        /\ \A f \in Entry \ {cur} : disk'[f] = disk[f]
        /\ UNCHANGED <<logs, rid, pc, cur>> /\ pc = "renaming"
    BY <1>0, <1>11, <2>1 DEF RenamePart, TypeOK, s
  <2>3. disk'[cur].run = rid
    BY <1>0, <2>1, <2>2, WithRun DEF RunLogged
  <2>4. \A f \in Entry \ {cur} : SameRun(f)
    BY <2>2, DiskSameRun
  <2>5. LogsKept'
    BY <1>0, <2>1, <2>2, <2>3, <2>4 DEF LogsKept, RunLogged, SameRun, CompleteSets
  <2> QED BY <1>0, <2>2, <2>3, <2>5 DEF LogInv, RunLogged
<1>12. ASSUME NEW r \in removals, DeletePart(r) PROVE LogInv'
  <2> DEFINE e == r.entry
             low == {k \in disk[e].final : \A j \in disk[e].final : k <= j}
             left == disk[e].final \ low
  <2>1. e \in Entry /\ pc = "cleaning"
    BY <1>0, <1>12 DEF DeletePart, TypeOK, RemovalRecord
  <2>2. /\ disk'[e] = Tidy(WithFinal(disk[e], left))
        /\ \A f \in Entry \ {e} : disk'[f] = disk[f]
        /\ UNCHANGED <<logs, rid, pc>>
    BY <1>0, <1>12, <2>1 DEF DeletePart, TypeOK
  <2>3. SameRun(e)
    <3>1. left \in SUBSET disk[e].final
      OBVIOUS
    <3> HIDE DEF e, left
    <3> QED BY <1>0, <2>1, <2>2, <3>1, FinalSameRun
  <2>4. LogsKept'
    BY <1>0, <2>2, <2>3, DiskSameRun, LogsKeptStep
  <2> QED BY <1>0, <2>1, <2>2, <2>4 DEF LogInv, RunLogged
<1>13. ASSUME NEW e \in Entry, NEW k \in disk[e].final, Lose(e, k) PROVE LogInv'
  <2>1. /\ disk'[e] = Tidy(WithFinal(disk[e], disk[e].final \ {k}))
        /\ \A f \in Entry \ {e} : disk'[f] = disk[f]
        /\ UNCHANGED <<logs, rid, pc, cur>>
        /\ e = cur => pc = "cleaning"
    BY <1>0, <1>13 DEF Lose, TypeOK, runVars
  <2>2. SameRun(e)
    BY <1>0, <2>1, FinalSameRun
  <2>3. LogsKept'
    BY <1>0, <2>1, <2>2, DiskSameRun, LogsKeptStep
  <2>4. pc \in {"writing", "renaming"} => disk'[cur] = disk[cur]
    BY <1>0, <2>1 DEF RunKnown
  <2> QED BY <1>0, <2>1, <2>3, <2>4 DEF LogInv, RunLogged
<1> QED
  BY <1>1, <1>2, <1>3, <1>4, <1>5, <1>7, <1>8, <1>9, <1>10, <1>11, <1>12, <1>13
  DEF Next

-----------------------------------------------------------------------------
(* What a step leaves of a set: its parts and its header *)

\* The files of e under final names stay as they are.
Held(e) ==
  /\ disk'[e].final = disk[e].final
  /\ Present(e) => /\ Created(e)' = Created(e)
                   /\ disk'[e].run = disk[e].run
                   /\ disk'[e].parts = disk[e].parts

\* Files of e may be gone; what is there is as before.
Shrinks(e) ==
  /\ Present(e)' => /\ Present(e)
                    /\ Created(e)' = Created(e)
                    /\ disk'[e].run = disk[e].run
  /\ Complete(e)' => Complete(e)

LEMMA HeldSame ==
  ASSUME NEW e \in Entry, Held(e)
  PROVE  /\ Shrinks(e)
         /\ Present(e)' <=> Present(e)
         /\ Complete(e)' <=> Complete(e)
BY DEF Held, Shrinks, Present, Complete, HasGap, HasTrailer

LEMMA DiskHeld ==
  ASSUME NEW e \in Entry, disk'[e] = disk[e]
  PROVE  Held(e)
BY DEF Held, Created

LEMMA TempHeld ==
  ASSUME TypeOK, NEW e \in Entry, NEW T \in SUBSET (1 .. MaxParts),
         \/ disk'[e] = WithTemp(disk[e], T)
         \/ disk'[e] = Tidy(WithTemp(disk[e], T))
  PROVE  Held(e)
<1>1. disk[e] \in SetFiles /\ WithTemp(disk[e], T) \in SetFiles
  BY FilesType, WithType
<1>2. Untouched(e)
  BY TempUntouched
<1>3. Present(e) => disk'[e] = WithTemp(disk[e], T)
  BY <1>1, TidyFields, WithFields DEF Present
<1> QED BY <1>1, <1>2, <1>3, WithRun DEF Held, Untouched, Created

LEMMA FinalShrinks ==
  ASSUME TypeOK, PartsInRange, NEW e \in Entry, NEW left \in SUBSET disk[e].final,
         disk'[e] = Tidy(WithFinal(disk[e], left))
  PROVE  Shrinks(e)
<1>1. disk[e] \in SetFiles /\ WithFinal(disk[e], left) \in SetFiles
  BY FilesType, WithType
<1>2. Complete(e)' => Complete(e)
  BY FinalSameRun DEF SameRun
<1>3. disk'[e].final = left
  BY <1>1, TidyFields, WithFields
<1>4. Present(e)' => disk'[e] = WithFinal(disk[e], left) /\ Present(e)
  BY <1>1, <1>3, TidyFields, WithFields DEF Present
<1> QED BY <1>1, <1>2, <1>4, WithFields, WithRun DEF Shrinks, Created

\* A set that begins has no files under final names.
LEMMA BeginHeld ==
  ASSUME TypeOK, NEW e \in Entry, NEW c, NEW large, BeginWrite(e, c, large),
         ~Present(e)
  PROVE  \A f \in Entry : Held(f)
<1>1. /\ disk'[e] = [final |-> disk[e].final, temp |-> disk[e].temp \cup {1},
                     created |-> clock, run |-> rid, key |-> key, parts |-> c,
                     large |-> large]
      /\ \A f \in Entry \ {e} : disk'[f] = disk[f]
  BY DEF BeginWrite, TypeOK
<1>2. Held(e)
  BY <1>1 DEF Held
<1> QED BY <1>1, <1>2, DiskHeld

LEMMA StartHeld ==
  ASSUME TypeOK, NEW S \in SUBSET Dir, NEW t, NEW id, NEW forceFull, NEW newKeys,
         NEW stuck, Start(S, t, id, forceFull, newKeys, stuck)
  PROVE  \A e \in Entry : Held(e)
<1> SUFFICES ASSUME NEW e \in Entry PROVE Held(e)
  OBVIOUS
<1>1. disk'[e] = Tidy(WithTemp(disk[e], {k \in disk[e].temp : <<e, k>> \in stuck}))
  BY DEF Start, WithoutLeftovers
<1>2. {k \in disk[e].temp : <<e, k>> \in stuck} \in SUBSET (1 .. MaxParts)
  BY FilesType
<1> QED BY <1>1, <1>2, TempHeld

LEMMA WritePartHeld ==
  ASSUME TypeOK, RunKnown, WritePart
  PROVE  /\ \A e \in Entry : Held(e)
         /\ Created(cur)' = Created(cur) /\ disk'[cur].run = disk[cur].run
<1> DEFINE T == disk[cur].temp \cup {count + 1}
<1>1. cur \in Entry /\ count + 1 \in 1 .. MaxParts
  BY CurrentType DEF WritePart
<1>2. T \in SUBSET (1 .. MaxParts)
  BY <1>1, FilesType
<1> HIDE DEF T
<1>3. /\ disk'[cur] = WithTemp(disk[cur], T)
      /\ \A f \in Entry \ {cur} : disk'[f] = disk[f]
      /\ cur' = cur
  BY <1>1 DEF WritePart, TypeOK, T
<1>4. \A e \in Entry : Held(e)
  BY <1>1, <1>2, <1>3, DiskHeld, TempHeld
<1>5. disk[cur] \in SetFiles
  BY <1>1, FilesType
<1> QED BY <1>3, <1>4, <1>5, WithFields, WithRun DEF Created

LEMMA WriteFailsHeld ==
  ASSUME TypeOK, RunKnown, NEW stuck \in SUBSET (1 .. count), WriteFails(stuck)
  PROVE  \A e \in Entry : Held(e)
<1> DEFINE T == (disk[cur].temp \ (1 .. count)) \cup stuck
<1>1. cur \in Entry /\ count \in 0 .. MaxParts
  BY DEF WriteFails, RunKnown, TypeOK
<1>2. T \in SUBSET (1 .. MaxParts)
  <2>1. disk[cur].temp \subseteq 1 .. MaxParts
    BY <1>1, FilesType
  <2>2. stuck \subseteq 1 .. MaxParts
    BY <1>1, CatalogAssumption
  <2> QED BY <2>1, <2>2
<1> HIDE DEF T
<1>3. /\ disk'[cur] = Tidy(WithTemp(disk[cur], T))
      /\ \A f \in Entry \ {cur} : disk'[f] = disk[f]
  BY <1>1 DEF WriteFails, TypeOK, T
<1> QED BY <1>1, <1>2, <1>3, DiskHeld, TempHeld

LEMMA DeletePartShrinks ==
  ASSUME TypeOK, PartsInRange, NEW r \in removals, DeletePart(r)
  PROVE  /\ \A e \in Entry : Shrinks(e)
         /\ \A e \in Entry \ {r.entry} : disk'[e] = disk[e]
         /\ r.entry \in Entry /\ ~Complete(r.entry)'
         /\ removals' \subseteq removals
         /\ \A s \in removals : s.entry # r.entry => s \in removals'
<1> DEFINE e == r.entry
           left == disk[e].final \ {k \in disk[e].final :
                                       \A j \in disk[e].final : k <= j}
<1>1. e \in Entry
  BY DEF TypeOK, RemovalRecord
<1>2. /\ disk'[e] = Tidy(WithFinal(disk[e], left))
      /\ \A f \in Entry \ {e} : disk'[f] = disk[f]
      /\ removals' \subseteq removals
      /\ \A s \in removals : s.entry # r.entry => s \in removals'
  BY <1>1 DEF DeletePart, TypeOK
<1>3. left \in SUBSET disk[e].final /\ 1 \notin left /\ left \subseteq 1 .. MaxParts
  BY <1>1, FilesType
<1> HIDE DEF left
<1>4. Shrinks(e)
  BY <1>1, <1>2, <1>3, FinalShrinks
<1>5. disk[e] \in SetFiles /\ WithFinal(disk[e], left) \in SetFiles
  BY <1>1, <1>3, FilesType, WithType
<1>6. disk'[e].final = left
  BY <1>2, <1>5, TidyFields, WithFields
<1> HIDE DEF e
<1>7. ~Complete(e)'
  BY <1>3, <1>6 DEF Complete, Present, HasGap
<1>8. \A f \in Entry : Shrinks(f)
  BY <1>2, <1>4, DiskHeld, HeldSame
<1>9. ~Complete(r.entry)'
  BY <1>7 DEF e, Complete, Present, HasGap, HasTrailer
<1> QED BY <1>1, <1>2, <1>8, <1>9 DEF e

LEMMA LoseShrinks ==
  ASSUME TypeOK, PartsInRange, NEW e \in Entry, NEW k \in disk[e].final, Lose(e, k)
  PROVE  /\ \A f \in Entry : Shrinks(f)
         /\ \A f \in Entry \ {e} : disk'[f] = disk[f]
<1>1. /\ disk'[e] = Tidy(WithFinal(disk[e], disk[e].final \ {k}))
      /\ \A f \in Entry \ {e} : disk'[f] = disk[f]
  BY DEF Lose, TypeOK
<1>2. Shrinks(e)
  BY <1>1, FinalShrinks
<1> QED BY <1>1, <1>2, DiskHeld, HeldSame

-----------------------------------------------------------------------------
(* The order of the sets of a directory, and what retention leaves of it *)

\* Sets that shrink stay in order.
LEMMA ShrinkingSets ==
  ASSUME SetsInOrder, \A e \in Entry : Shrinks(e)
  PROVE  SetsInOrder'
<1> SUFFICES ASSUME NEW e \in Entry, NEW f \in Entry,
                    e.dir = f.dir, Present(e)', Present(f)'
    PROVE /\ Created(e)' = Created(f)' => e = f
          /\ Complete(e)' /\ IsDiff(f) /\ FullOf(f) = e => Created(e)' < Created(f)'
          /\ Complete(e)' /\ ~IsDiff(e) /\ Complete(f)' /\ IsDiff(f)
               /\ Complete(FullOf(f))' =>
               (Created(FullOf(f))' < Created(e)' => Created(f)' < Created(e)')
          /\ IsDiff(e) /\ IsDiff(f) /\ FullOf(e) = FullOf(f) =>
               (Created(e)' < Created(f)' => e.n < f.n)
  BY DEF SetsInOrder
<1>1. FullOf(f) \in Entry
  BY FullOfType
<1>2. \A g \in Entry : Complete(g)' => Complete(g) /\ Created(g)' = Created(g)
  BY DEF Shrinks, Complete
<1>3. /\ Present(e) /\ Present(f)
      /\ Created(e)' = Created(e) /\ Created(f)' = Created(f)
  BY DEF Shrinks
<1> QED BY <1>1, <1>2, <1>3 DEF SetsInOrder

\* A differential goes on continuing its chain while sets shrink.
LEMMA ShrinkingContinues ==
  ASSUME \A e \in Entry : Shrinks(e), NEW x \in Entry, Continues(x)
  PROVE  Continues(x)'
<1>1. \A g \in Entry : Complete(g)' => Complete(g) /\ Created(g)' = Created(g)
  BY DEF Shrinks, Complete
<1>2. \A g \in Entry : Present(g)' => Present(g)
  BY DEF Shrinks
<1>3. FullOf(x) \in Entry
  BY FullOfType
<1>4. ASSUME Complete(FullOf(x))', NEW c \in Fulls(x.dir)'
      PROVE  Created(c)' <= Created(FullOf(x))'
  <2>1. c \in Entry /\ Complete(c)' /\ c.dir = x.dir /\ ~IsDiff(c)
    BY <1>4 DEF Fulls, CompleteSets
  <2>2. c \in Fulls(x.dir) /\ Complete(FullOf(x))
    BY <1>1, <1>3, <1>4, <2>1 DEF Fulls, CompleteSets
  <2>3. Created(c) <= Created(FullOf(x))
    BY <2>2 DEF Continues
  <2> QED BY <1>1, <1>3, <1>4, <2>1, <2>3
<1>5. \A f \in DiffsOf(FullOf(x))' \ {x} : f.n < x.n
  BY <1>2 DEF Continues, DiffsOf
<1> QED BY <1>4, <1>5 DEF Continues

\* The plan stays in order while the sets of other directories change.
LEMMA PlanStays ==
  ASSUME PlanFits, PlanInOrder, \A e \in Entry : Shrinks(e), plan' = plan,
         todo' \subseteq todo, losses' = 0 => losses = 0,
         losses' = 0 => \A d \in todo' : IsDiff(plan[d]) =>
                          top'[FullOf(plan[d])] = top[FullOf(plan[d])]
  PROVE  PlanInOrder'
<1> SUFFICES ASSUME NEW d \in todo', IsDiff(plan[d])
             PROVE  /\ Continues(plan[d])'
                    /\ losses' = 0 => top'[FullOf(plan[d])] < plan[d].n
  BY DEF PlanInOrder, IsDiff, FullOf
<1>1. PICK x : x = plan[d]
  OBVIOUS
<1>2. x \in Entry /\ Continues(x) /\ (losses = 0 => top[FullOf(x)] < x.n)
  BY <1>1 DEF PlanFits, PlanInOrder
<1>3. Continues(x)'
  BY <1>2, ShrinkingContinues
<1>4. Continues(plan[d])'
  BY <1>1, <1>3, Zenon
<1> QED BY <1>1, <1>2, <1>4

\* The highest number of the newest chain stays while no set changes.
LEMMA TopStays ==
  ASSUME TopKept, losses' = losses, \A e \in Entry : Held(e),
         \A b \in CompleteSets : ~IsDiff(b) => top'[b] = top[b]
  PROVE  TopKept'
<1> SUFFICES ASSUME losses = 0, NEW d \in Dir, NEW b \in Fulls(d)',
                    \A c \in Fulls(d)' : Created(c)' <= Created(b)'
             PROVE  top'[b] = 0 \/ \E e \in DiffsOf(b)' : top'[b] <= e.n
  BY DEF TopKept
<1>1. \A e \in Entry : /\ Present(e)' <=> Present(e)
                       /\ Complete(e)' <=> Complete(e)
                       /\ Complete(e) => Created(e)' = Created(e)
  BY HeldSame DEF Held, Complete
<1>2. Fulls(d)' = Fulls(d) /\ DiffsOf(b)' = DiffsOf(b)
  BY <1>1 DEF Fulls, CompleteSets, DiffsOf
<1>3. /\ b \in Entry /\ Complete(b) /\ ~IsDiff(b)
      /\ \A c \in Fulls(d) : c \in Entry /\ Complete(c)
  BY <1>2 DEF Fulls, CompleteSets
<1>4. \A c \in Fulls(d) : Created(c) <= Created(b)
  BY <1>1, <1>2, <1>3
<1>5. top'[b] = top[b]
  BY <1>3 DEF CompleteSets
<1> QED BY <1>2, <1>4, <1>5 DEF TopKept

LEMMA RunTimesStays ==
  ASSUME RunTimes, \A e \in Entry : Shrinks(e),
         pc' = "idle" \/ (pc # "idle" /\ UNCHANGED <<rid, clock>>)
  PROVE  RunTimes'
BY DEF RunTimes, Shrinks, CompleteSets, Complete

\* Nothing is written and nothing is to be deleted: the end of a run.
LEMMA EndNumbers ==
  ASSUME DirInv, NumberInv, EndRun, \A e \in Entry : Held(e),
         UNCHANGED <<losses, top>>
  PROVE  NumberInv'
<1>1. pc' = "idle" /\ todo' = {} /\ removals' = {}
  BY DEF EndRun
<1>2. \A e \in Entry : Shrinks(e)
  BY HeldSame
<1>3. SetsInOrder' /\ TopKept' /\ RunTimes'
  BY <1>1, <1>2, ShrinkingSets, TopStays, RunTimesStays DEF NumberInv
<1> QED BY <1>1, <1>3 DEF NumberInv, PlanInOrder, CurrentInOrder, NumberNotReused,
           RemovalsSafe

LEMMA QuietNumbers ==
  ASSUME DirInv, NumberInv,
         \/ \E k \in Key : ObtainKeys(k)
         \/ Written
         \/ \E misses \in BOOLEAN : SetDone(misses)
  PROVE  NumberInv'
<1>1. /\ UNCHANGED <<disk, clock, losses, top, rid, srcs, todo, plan, removals>>
      /\ pc # "idle" /\ pc' # "writing" /\ removals = {}
      /\ pc' = "renaming" => pc = "writing" /\ cur' = cur
  BY DEF ObtainKeys, Written, SetDone, DirInv, RunKnown
<1>2. \A e \in Entry : Held(e) /\ Shrinks(e)
  BY <1>1, DiskHeld, HeldSame
<1>3. SetsInOrder' /\ TopKept' /\ RunTimes' /\ PlanInOrder'
  BY <1>1, <1>2, ShrinkingSets, TopStays, RunTimesStays, PlanStays
     DEF NumberInv, DirInv
<1>4. CurrentInOrder'
  <2>1. \A x : (Continues(x)' <=> Continues(x))
    BY <1>1 DEF Continues, Fulls, DiffsOf, CompleteSets, Complete, Present, HasGap,
       HasTrailer, Created
  <2>2. DiffsOf(cur)' = DiffsOf(cur')
    BY <1>1 DEF DiffsOf, Present
  <2> SUFFICES ASSUME pc' = "renaming"
      PROVE /\ Created(cur)' = clock
            /\ \A e \in Entry \ {cur} : e.dir = cur.dir /\ Present(e)' => Created(e)' < clock
            /\ IsDiff(cur) => Continues(cur)'
            /\ ~IsDiff(cur) => DiffsOf(cur)' = {} /\ top'[cur] = 0
    BY <1>1 DEF CurrentInOrder, IsDiff
  <2>3. Created(cur)' = Created(cur)
    BY <1>1 DEF Created
  <2>4. PICK x : x = cur
    OBVIOUS
  <2>5. IsDiff(x) => Continues(x)'
    BY <1>1, <2>1, <2>4 DEF NumberInv, CurrentInOrder
  <2>6. IsDiff(cur) => Continues(cur)'
    BY <1>1, <2>4, <2>5 DEF Continues, Fulls, DiffsOf, CompleteSets, Complete, Present,
       HasGap, HasTrailer, Created
  <2> QED BY <1>1, <2>2, <2>3, <2>6 DEF NumberInv, CurrentInOrder, Created, Present
<1> QED BY <1>1, <1>3, <1>4 DEF NumberInv, NumberNotReused, RemovalsSafe

\* NewestOf is at least as young as every member.
LEMMA NewestOfBounds ==
  ASSUME TypeOK, NEW S, S \subseteq Entry, S # {}
  PROVE  \A e \in S : Created(e) <= Created(NewestOf(S))
<1> DEFINE T == {Created(e) : e \in S}
<1>1. T \subseteq 0 .. MaxTime /\ T # {} /\ MaxTime \in Nat
  BY CatalogAssumption DEF TypeOK, SetFiles, Created
<1>2. PICK m \in T : \A x \in T : x <= m
  BY <1>1, GreatestExists
<1>3. \E e \in S : \A f \in S : Created(f) <= Created(e)
  BY <1>2
<1> QED BY <1>3 DEF NewestOf

\* A planned differential continues the newest chain of its directory, with a
\* number above that of every differential of the chain.
LEMMA PlanFolderOrder ==
  ASSUME TypeOK, NEW d \in Dir, NEW id \in RunId, id \notin UsedIds, NEW t,
         NEW ks, NEW forceFull,
         NEW p, p = PlanFolder(d, id, t, ks, forceFull), IsDiff(p)
  PROVE  /\ FullOf(p) \in Fulls(d) /\ p.n \in Nat
         /\ \A c \in Fulls(d) : Created(c) <= Created(FullOf(p))
         /\ \A f \in DiffsOf(FullOf(p)) : f.n < p.n
<1> DEFINE base == NewestOf(Fulls(d))
           diff == [dir |-> d, chain |-> base.chain, n |-> MaxNumber(base) + 1]
<1>1. p = diff /\ Fulls(d) # {}
  BY CatalogAssumption DEF PlanFolder, IsDiff
<1>2. Fulls(d) \subseteq Entry
  BY DEF Fulls, CompleteSets
<1>3. base \in Fulls(d) /\ \A c \in Fulls(d) : Created(c) <= Created(base)
  BY <1>1, <1>2, NewestOfMember, NewestOfBounds
<1>4. base \in Entry /\ base.dir = d /\ base.n = 0
  BY <1>3, CatalogAssumption DEF Fulls, CompleteSets, IsDiff, Entry
<1>5. /\ MaxNumber(base) \in 0 .. MaxDiffNumber
      /\ \A e \in DiffsOf(base) : e.n <= MaxNumber(base)
  BY <1>4, MaxNumberBounds
<1> HIDE DEF base
<1>6. FullOf(p) = base /\ p.n = MaxNumber(base) + 1
  <2>1. base = [dir |-> d, chain |-> base.chain, n |-> 0]
    BY <1>4 DEF Entry
  <2> QED BY <1>1, <2>1 DEF FullOf
<1>7. \A f \in DiffsOf(base) : f.n < p.n
  BY <1>5, <1>6, CatalogAssumption DEF DiffsOf, Entry
<1> QED BY <1>3, <1>5, <1>6, <1>7, CatalogAssumption

LEMMA StartNumbers ==
  ASSUME DirInv, NumberInv, NEW S \in SUBSET Dir, NEW t \in (clock + 1) .. MaxTime,
         NEW id \in RunId, NEW forceFull, NEW newKeys,
         NEW stuck, Start(S, t, id, forceFull, newKeys, stuck)
  PROVE  NumberInv'
<1>1. TypeOK /\ RunKnown /\ TopKept
  BY DEF DirInv, NumberInv
<1>2. \A e \in Entry : Held(e) /\ Shrinks(e)
  BY <1>1, StartHeld, HeldSame
<1>3. /\ pc = "idle" /\ pc' = "planned" /\ rid' = id /\ todo' = S
      /\ id \notin UsedIds /\ UNCHANGED <<losses, top, removals>> /\ removals = {}
  BY <1>1 DEF Start, RunKnown
<1>4. SetsInOrder' /\ TopKept'
  BY <1>2, <1>3, ShrinkingSets, TopStays DEF NumberInv
<1>5. RunTimes'
  BY <1>2, <1>3 DEF RunTimes, Shrinks, CompleteSets, Complete, UsedIds
<1>6. PlanInOrder'
  <2> SUFFICES ASSUME NEW d \in S, IsDiff(plan'[d])
               PROVE  /\ Continues(plan[d])'
                      /\ losses = 0 => top[FullOf(plan'[d])] < plan'[d].n
    BY <1>3 DEF PlanInOrder, IsDiff, FullOf
  <2>1. PICK x : x = plan'[d]
    OBVIOUS
  <2>2. x \in Entry /\ x.dir = d
    BY <1>1, <1>3, <2>1, PlanFolderFits DEF Start
  <2>3. /\ FullOf(x) \in Fulls(d) /\ x.n \in Nat /\ IsDiff(x)
        /\ \A c \in Fulls(d) : Created(c) <= Created(FullOf(x))
        /\ \A f \in DiffsOf(FullOf(x)) : f.n < x.n
    <3>1. PICK ks : x = PlanFolder(d, id, t, ks, forceFull)
      BY <2>1 DEF Start
    <3>2. IsDiff(x)
      BY <2>1
    <3> QED BY <1>1, <1>3, <3>1, <3>2, PlanFolderOrder
  <2>4. Continues(x)
    BY <2>2, <2>3 DEF Continues
  <2>5. Continues(x)'
    BY <1>2, <2>2, <2>4, ShrinkingContinues
  <2>6. Continues(plan[d])'
    BY <2>1, <2>5, Zenon
  <2>7. ASSUME losses = 0 PROVE top[FullOf(x)] < x.n
    <3>1. top[FullOf(x)] = 0 \/ \E e \in DiffsOf(FullOf(x)) : top[FullOf(x)] <= e.n
      BY <1>1, <2>3, <2>7 DEF TopKept
    <3>2. top[FullOf(x)] \in Nat
      BY <1>1, <2>2, CatalogAssumption DEF TypeOK, FullOf, Entry
    <3>3. \A e \in DiffsOf(FullOf(x)) : e.n \in Nat
      BY DEF DiffsOf, Entry
    <3> QED BY <2>3, <3>1, <3>2, <3>3 DEF IsDiff
  <2> QED BY <2>1, <2>6, <2>7
<1> QED BY <1>3, <1>4, <1>5, <1>6 DEF NumberInv, CurrentInOrder, NumberNotReused,
           RemovalsSafe

LEMMA TopElsewhere ==
  ASSUME TypeOK, NEW e, NEW v, top' = top \/ top' = [top EXCEPT ![e] = v],
         NEW b \in {f \in Entry : f.n = 0}, b # e
  PROVE  top'[b] = top[b]
BY DEF TypeOK

LEMMA BeginNumbers ==
  ASSUME DirInv, NumberInv, NEW e \in Entry, NEW c, NEW large,
         pc = "running", BeginWrite(e, c, large), e.dir \in todo, ~Present(e),
         IsDiff(e) => e = plan[e.dir] /\ top' = top,
         ~IsDiff(e) => e.chain = rid /\ top' = [top EXCEPT ![e] = 0]
  PROVE  NumberInv'
<1>1. TypeOK /\ RunKnown /\ TimesInOrder /\ PlanFits
  BY DEF DirInv
<1>2. \A f \in Entry : Held(f) /\ Shrinks(f)
  BY <1>1, BeginHeld, HeldSame
<1>3. /\ disk'[e].created = clock
      /\ cur' = e /\ pc' = "writing" /\ todo' = todo \ {e.dir}
      /\ UNCHANGED <<clock, losses, rid, plan, removals>> /\ removals = {}
  BY <1>1 DEF BeginWrite, TypeOK, RunKnown
<1>4. SetsInOrder' /\ RunTimes'
  BY <1>2, <1>3, ShrinkingSets, RunTimesStays DEF NumberInv
<1>5. TopKept'
  <2>1. ASSUME NEW b \in CompleteSets, ~IsDiff(b) PROVE top'[b] = top[b]
    <3>1. b # e /\ b \in {f \in Entry : f.n = 0}
      BY <2>1, CatalogAssumption DEF CompleteSets, Complete, Entry, IsDiff
    <3> QED BY <1>1, <3>1, TopElsewhere
  <2> QED BY <1>2, <1>3, <2>1, TopStays DEF NumberInv
<1>6. PlanInOrder'
  <2>1. ASSUME NEW d \in todo', IsDiff(plan[d])
        PROVE  top'[FullOf(plan[d])] = top[FullOf(plan[d])]
    <3>1. plan[d] \in Entry /\ plan[d].dir = d /\ d # e.dir
      BY <1>1, <1>3, <2>1 DEF PlanFits
    <3>2. FullOf(plan[d]) # e /\ FullOf(plan[d]) \in {f \in Entry : f.n = 0}
      BY <3>1, FullOfType DEF FullOf
    <3> QED BY <1>1, <3>2, TopElsewhere
  <2> QED BY <1>1, <1>2, <1>3, <2>1, PlanStays DEF NumberInv
<1>7. ASSUME IsDiff(e) PROVE Continues(e)' /\ (losses = 0 => top'[FullOf(e)] < e.n)
  <2>1. Continues(e) /\ (losses = 0 => top[FullOf(e)] < e.n)
    BY <1>7 DEF NumberInv, PlanInOrder
  <2> QED BY <1>2, <1>7, <2>1, ShrinkingContinues
<1>8. ASSUME ~IsDiff(e) PROVE DiffsOf(e)' = {} /\ top'[e] = 0
  <2>1. \A f \in DiffsOf(e)' : f \in Entry /\ Present(f) /\ f.dir = e.dir /\ f.chain = rid
    BY <1>2, <1>8 DEF DiffsOf, FullOf, Shrinks
  <2>2. DiffsOf(e)' = {}
    BY <1>1, <2>1 DEF TimesInOrder
  <2>3. e.n = 0
    BY <1>8, CatalogAssumption DEF Entry, IsDiff
  <2> QED BY <1>1, <1>8, <2>2, <2>3 DEF TypeOK
<1>9. CurrentInOrder'
  <2>1. \A f \in Entry \ {e} : f.dir = e.dir /\ Present(f)' => Created(f)' < clock
    BY <1>1, <1>2 DEF TimesInOrder, Shrinks
  <2>2. PICK x : x = cur'
    OBVIOUS
  <2>3. /\ Created(x)' = clock
        /\ \A f \in Entry \ {x} : f.dir = x.dir /\ Present(f)' => Created(f)' < clock
        /\ IsDiff(x) => Continues(x)'
        /\ ~IsDiff(x) => DiffsOf(x)' = {} /\ top'[x] = 0
    BY <1>3, <1>7, <1>8, <2>1, <2>2 DEF Created
  <2>4. /\ Created(cur)' = clock'
        /\ \A f \in Entry \ {cur'} : f.dir = cur'.dir /\ Present(f)' => Created(f)' < clock'
        /\ IsDiff(cur') => Continues(cur)'
        /\ ~IsDiff(cur') => DiffsOf(cur)' = {} /\ top'[cur'] = 0
    BY <1>3, <2>2, <2>3, Zenon
  <2> QED BY <2>4 DEF CurrentInOrder, IsDiff
<1>10. NumberNotReused'
  BY <1>3, <1>7 DEF NumberNotReused, IsDiff, FullOf
<1> QED BY <1>3, <1>4, <1>5, <1>6, <1>9, <1>10 DEF NumberInv, RemovalsSafe

LEMMA WritePartNumbers ==
  ASSUME DirInv, NumberInv, WritePart
  PROVE  NumberInv'
<1>1. TypeOK /\ RunKnown /\ PlanFits
  BY DEF DirInv
<1>2. /\ \A e \in Entry : Held(e) /\ Shrinks(e)
      /\ Created(cur)' = Created(cur)
  BY <1>1, WritePartHeld, HeldSame
<1>3. /\ pc = "writing" /\ removals = {} /\ cur \in Entry
      /\ UNCHANGED <<clock, losses, top, pc, rid, todo, plan, cur, removals>>
  BY <1>1 DEF WritePart, RunKnown
<1>4. SetsInOrder' /\ RunTimes' /\ TopKept' /\ PlanInOrder'
  BY <1>1, <1>2, <1>3, ShrinkingSets, RunTimesStays, TopStays, PlanStays DEF NumberInv
<1>5. CurrentInOrder'
  <2>1. PICK x : x = cur
    OBVIOUS
  <2>2. /\ Created(cur) = clock /\ x \in Entry
        /\ \A f \in Entry \ {x} : f.dir = x.dir /\ Present(f) => Created(f) < clock
        /\ IsDiff(x) => Continues(x)
        /\ ~IsDiff(x) => DiffsOf(x) = {} /\ top[x] = 0
    BY <1>3, <2>1 DEF NumberInv, CurrentInOrder
  <2>3. /\ \A f \in Entry \ {x} : f.dir = x.dir /\ Present(f)' => Created(f)' < clock
        /\ IsDiff(x) => Continues(x)'
    BY <1>2, <2>2, ShrinkingContinues DEF Shrinks
  <2>4. ~IsDiff(x) => DiffsOf(x)' = {}
    BY <1>2, <2>2 DEF Shrinks, DiffsOf
  <2>5. x = cur'
    BY <1>3, <2>1
  <2>6. /\ Created(cur)' = clock'
        /\ \A f \in Entry \ {cur'} : f.dir = cur'.dir /\ Present(f)' => Created(f)' < clock'
        /\ IsDiff(cur') => Continues(cur)'
        /\ ~IsDiff(cur') => DiffsOf(cur)' = {} /\ top'[cur'] = 0
    BY <1>2, <1>3, <2>2, <2>3, <2>4, <2>5, Zenon
  <2> QED BY <2>6 DEF CurrentInOrder, IsDiff
<1>6. NumberNotReused'
  BY <1>3 DEF NumberInv, NumberNotReused, IsDiff, FullOf
<1> QED BY <1>3, <1>4, <1>5, <1>6 DEF NumberInv, RemovalsSafe

\* A part gets its final name: the newest set of its directory appears.
LEMMA RenamePartFiles ==
  ASSUME DirInv, RenamePart
  PROVE  /\ cur \in Entry /\ ~Complete(cur) /\ pc = "renaming"
         /\ disk'[cur].final # {} /\ disk'[cur].created = disk[cur].created
         /\ disk'[cur].run = disk[cur].run /\ disk'[cur].parts = disk[cur].parts
         /\ \A e \in Entry \ {cur} : disk'[e] = disk[e]
<1>1. TypeOK /\ RunKnown /\ NoNameClash
  BY DEF DirInv
<1>2. cur \in Entry /\ count + 1 \in 1 .. MaxParts
  BY <1>1, CurrentType DEF RenamePart
<1> DEFINE s == WithTemp(disk[cur], disk[cur].temp \ {count + 1})
           F == disk[cur].final \cup {count + 1}
<1>3. /\ s \in SetFiles /\ s.run = disk[cur].run /\ s.created = disk[cur].created
      /\ s.parts = disk[cur].parts
  BY <1>1, <1>2, FilesType, WithType, WithRun, WithFields
<1> HIDE DEF s
<1>4. disk'[cur] = WithFinal(s, F)
  BY <1>1, <1>2 DEF RenamePart, TypeOK, s
<1>5. disk'[cur].final = F /\ F # {}
  BY <1>3, <1>4, WithFields
<1>6. ~Complete(cur)
  <2>1. disk[cur].final \subseteq 1 .. count /\ count \in Nat /\ count < disk[cur].parts
    BY <1>1 DEF NoNameClash, TypeOK, RenamePart
  <2> QED BY <2>1 DEF Complete, HasTrailer
<1>7. /\ disk'[cur].created = s.created /\ disk'[cur].run = s.run
      /\ disk'[cur].parts = s.parts
  BY <1>3, <1>4, WithRun, WithFields
<1>8. pc = "renaming" /\ \A e \in Entry \ {cur} : disk'[e] = disk[e]
  BY <1>1, <1>2 DEF RenamePart, TypeOK
<1> QED BY <1>2, <1>3, <1>5, <1>6, <1>7, <1>8

LEMMA RenamePartSets ==
  ASSUME DirInv, NumberInv, RenamePart, NEW x, x = cur,
         NEW e \in Entry, NEW f \in Entry,
         e.dir = f.dir, Present(e)', Present(f)'
  PROVE  /\ Created(e)' = Created(f)' => e = f
         /\ Complete(e)' /\ IsDiff(f) /\ FullOf(f) = e => Created(e)' < Created(f)'
         /\ Complete(e)' /\ ~IsDiff(e) /\ Complete(f)' /\ IsDiff(f)
              /\ Complete(FullOf(f))' =>
              (Created(FullOf(f))' < Created(e)' => Created(f)' < Created(e)')
         /\ IsDiff(e) /\ IsDiff(f) /\ FullOf(e) = FullOf(f) =>
              (Created(e)' < Created(f)' => e.n < f.n)
<1>0. TypeOK /\ SetsInOrder /\ CurrentInOrder
  BY DEF DirInv, NumberInv
<1>1. /\ x \in Entry /\ ~Complete(x) /\ pc = "renaming"
      /\ \A g \in Entry : Created(g)' = Created(g) /\ Created(g) \in Nat
      /\ \A g \in Entry \ {x} : /\ Present(g)' <=> Present(g)
                                /\ Complete(g)' <=> Complete(g)
  <2>1. \A g \in Entry : Created(g)' = Created(g)
    BY RenamePartFiles DEF Created
  <2>2. \A g \in Entry : Created(g) \in Nat
    BY <1>0, CreatedType
  <2>3. \A g \in Entry \ {x} : disk'[g] = disk[g]
    BY RenamePartFiles
  <2>4. \A g \in Entry \ {x} : (Present(g)' <=> Present(g)) /\ (Complete(g)' <=> Complete(g))
    BY <2>3 DEF Present, Complete, HasGap, HasTrailer
  <2> QED BY <2>1, <2>2, <2>4, RenamePartFiles
<1>2. /\ Created(x) = clock
      /\ \A g \in Entry \ {x} : g.dir = x.dir /\ Present(g) => Created(g) < clock
      /\ IsDiff(x) => Continues(x)
      /\ ~IsDiff(x) => DiffsOf(x) = {}
  BY <1>0, <1>1 DEF CurrentInOrder
<1>3. \A g \in Entry \ {x} : Present(g) /\ IsDiff(g) => FullOf(g) # x
  <2>1. \A g : FullOf(g).n = 0
    BY DEF FullOf
  <2> QED BY <1>2, <2>1 DEF DiffsOf, IsDiff
<1>4. FullOf(f) \in Entry /\ (IsDiff(f) => FullOf(f) # f) /\ Created(FullOf(f)) \in Nat
  BY <1>1, FullOfType DEF FullOf, IsDiff
<1>5. CASE e # x /\ f # x
  <2>1. Present(e) /\ Present(f) /\ (IsDiff(f) => FullOf(f) # x)
    BY <1>1, <1>3, <1>5
  <2> QED BY <1>0, <1>1, <1>4, <1>5, <2>1 DEF SetsInOrder
<1>6. CASE e = x /\ f = x
  <2>1. Created(e)' = Created(f)' /\ Created(e)' \in Nat
    BY <1>1, <1>6
  <2> QED BY <1>1, <1>4, <1>6, <2>1
<1>7. CASE e = x /\ f # x
  <2>1. Present(f) /\ Created(f) < Created(e)
    BY <1>1, <1>2, <1>7
  <2>2. IsDiff(f) => FullOf(f) # e
    BY <1>3, <1>7, <2>1
  <2> QED BY <1>1, <2>1, <2>2
<1>8. CASE e # x /\ f = x
  <2>1. Present(e) /\ Created(e) < Created(f)
    BY <1>1, <1>2, <1>8
  <2>2. ASSUME Complete(e)', ~IsDiff(e), IsDiff(f), Complete(FullOf(f))'
        PROVE  ~(Created(FullOf(f)) < Created(e))
    <3>1. Complete(FullOf(f)) /\ e \in Fulls(f.dir)
      BY <1>1, <1>4, <1>8, <2>2 DEF Fulls, CompleteSets
    <3>2. Created(e) <= Created(FullOf(f))
      BY <1>2, <1>8, <2>2, <3>1 DEF Continues
    <3> QED BY <1>1, <1>4, <3>2
  <2>3. ASSUME IsDiff(e), IsDiff(f), FullOf(e) = FullOf(f) PROVE e.n < f.n
    BY <1>2, <1>8, <2>1, <2>3 DEF Continues, DiffsOf
  <2> QED BY <1>1, <1>4, <2>1, <2>2, <2>3
<1> QED BY <1>5, <1>6, <1>7, <1>8

LEMMA RenamePartNumbers ==
  ASSUME DirInv, LogInv, NumberInv, RenamePart
  PROVE  NumberInv'
<1>1. /\ TypeOK /\ RunKnown /\ PlanFits /\ CurrentInOrder /\ PlanInOrder /\ TopKept
      /\ RunTimes /\ RunLogged
  BY DEF DirInv, NumberInv, LogInv
<1>2. PICK x : x = cur
  OBVIOUS
<1>3. /\ x \in Entry /\ ~Complete(x) /\ pc = "renaming" /\ Present(x)'
      /\ \A g \in Entry : Created(g)' = Created(g) /\ disk'[g].run = disk[g].run
      /\ \A g \in Entry \ {x} : /\ Present(g)' <=> Present(g)
                                /\ Complete(g)' <=> Complete(g)
  <2>1. \A g \in Entry : Created(g)' = Created(g) /\ disk'[g].run = disk[g].run
    BY RenamePartFiles DEF Created
  <2>2. \A g \in Entry \ {x} : disk'[g] = disk[g]
    BY <1>2, RenamePartFiles
  <2>3. \A g \in Entry \ {x} : (Present(g)' <=> Present(g)) /\ (Complete(g)' <=> Complete(g))
    BY <2>2 DEF Present, Complete, HasGap, HasTrailer
  <2>4. Present(x)'
    BY <1>2, RenamePartFiles DEF Present
  <2> QED BY <1>2, <2>1, <2>3, <2>4, RenamePartFiles
<1>4. /\ removals = {} /\ x.dir \notin todo /\ x.n \in Nat
      /\ UNCHANGED <<clock, losses, pc, rid, todo, plan, cur, removals>>
      /\ top' = IF x.n > top[FullOf(x)] THEN [top EXCEPT ![FullOf(x)] = x.n] ELSE top
  BY <1>1, <1>2, <1>3 DEF RenamePart, RunKnown, Entry
<1>5. /\ Created(x) = clock /\ disk[x].run = rid
      /\ \A g \in Entry \ {x} : g.dir = x.dir /\ Present(g) => Created(g) < clock
      /\ IsDiff(x) => Continues(x)
      /\ ~IsDiff(x) => DiffsOf(x) = {} /\ top[x] = 0
  BY <1>1, <1>2, <1>3 DEF CurrentInOrder, RunLogged
<1>6. \A b \in Entry : b.n = 0 => top[b] \in Nat
  BY <1>1 DEF TypeOK
<1>7. FullOf(x) \in Entry /\ FullOf(x).n = 0 /\ FullOf(x).dir = x.dir
      /\ (~IsDiff(x) => FullOf(x) = x /\ x.n = 0) /\ (IsDiff(x) => FullOf(x) # x)
  <2>1. ~IsDiff(x) => x.n = 0
    BY <1>4 DEF IsDiff
  <2> QED BY <1>3, <2>1, FullOfType DEF FullOf, IsDiff, Entry
<1>8. \A b \in Entry : b.n = 0 /\ b # FullOf(x) => top'[b] = top[b]
  BY <1>1, <1>4 DEF TypeOK
<1>9. SetsInOrder'
  BY <1>2, RenamePartSets DEF SetsInOrder
<1>10. PlanInOrder'
  <2> SUFFICES ASSUME NEW d \in todo, IsDiff(plan[d])
               PROVE  /\ Continues(plan[d])'
                      /\ losses = 0 => top'[FullOf(plan[d])] < plan[d].n
    BY <1>4 DEF PlanInOrder, IsDiff, FullOf
  <2>1. PICK p : p = plan[d]
    OBVIOUS
  <2>2. p \in Entry /\ p.dir # x.dir /\ Continues(p) /\ (losses = 0 => top[FullOf(p)] < p.n)
    BY <1>1, <1>4, <2>1 DEF PlanFits, PlanInOrder
  <2>3. FullOf(p) \in Entry /\ FullOf(p).dir # x.dir /\ FullOf(p).n = 0
    BY <2>2, FullOfType DEF FullOf
  <2>4. top'[FullOf(p)] = top[FullOf(p)]
    BY <1>7, <1>8, <2>3
  <2>5. FullOf(p) # x /\ FullOf(p) # FullOf(x)
    BY <1>7, <2>3
  <2>6. \A g \in Entry : g.dir = p.dir => g # x
    BY <2>2
  <2>7. Fulls(p.dir)' = Fulls(p.dir)
    BY <1>3, <2>6 DEF Fulls, CompleteSets
  <2>8. DiffsOf(FullOf(p))' = DiffsOf(FullOf(p))
    <3>1. \A g \in Entry : FullOf(g) = FullOf(p) => g # x
      BY <2>5
    <3> QED BY <1>3, <3>1 DEF DiffsOf
  <2>9. Continues(p)'
    BY <1>3, <2>2, <2>3, <2>5, <2>7, <2>8 DEF Continues, Fulls, CompleteSets
  <2>10. Continues(plan[d])'
    BY <1>4, <2>1, <2>9, Zenon
  <2> QED BY <2>1, <2>2, <2>4, <2>10
<1>11. CurrentInOrder'
  <2>1. \A f \in Entry \ {x} : f.dir = x.dir /\ Present(f)' => Created(f)' < clock
    BY <1>3, <1>5
  <2>2. ASSUME IsDiff(x) PROVE Continues(x)'
    <3>1. Fulls(x.dir)' = Fulls(x.dir)
      BY <1>3, <2>2 DEF Fulls, CompleteSets
    <3>2. DiffsOf(FullOf(x))' \ {x} = DiffsOf(FullOf(x)) \ {x}
      BY <1>3 DEF DiffsOf
    <3> QED BY <1>3, <1>5, <1>7, <2>2, <3>1, <3>2 DEF Continues, Fulls, CompleteSets
  <2>3. ASSUME ~IsDiff(x) PROVE DiffsOf(x)' = {} /\ top'[x] = 0
    <3>1. DiffsOf(x)' = DiffsOf(x)
      BY <1>3, <2>3 DEF DiffsOf
    <3> QED BY <1>4, <1>5, <1>7, <2>3, <3>1
  <2>4. x = cur'
    BY <1>2, <1>4
  <2>5. Created(x)' = clock
    BY <1>3, <1>5
  <2>6. /\ Created(cur)' = clock'
        /\ \A f \in Entry \ {cur'} : f.dir = cur'.dir /\ Present(f)' => Created(f)' < clock'
        /\ IsDiff(cur') => Continues(cur)'
        /\ ~IsDiff(cur') => DiffsOf(cur)' = {} /\ top'[cur'] = 0
    BY <1>4, <2>1, <2>2, <2>3, <2>4, <2>5, Zenon
  <2> QED BY <2>6 DEF CurrentInOrder, IsDiff
<1>12. TopKept'
  <2> SUFFICES ASSUME losses = 0, NEW d \in Dir, NEW b \in Fulls(d)',
                      \A c \in Fulls(d)' : Created(c)' <= Created(b)'
               PROVE  top'[b] = 0 \/ \E e \in DiffsOf(b)' : top'[b] <= e.n
    BY <1>4 DEF TopKept
  <2>1. b \in Entry /\ Complete(b)' /\ ~IsDiff(b) /\ b.n = 0 /\ b.dir = d
    BY CatalogAssumption DEF Fulls, CompleteSets, IsDiff, Entry
  <2>2. CASE b = x
    BY <1>4, <1>5, <1>7, <2>1, <2>2
  <2>3. CASE b # x
    <3>1. b \in Fulls(d)
      BY <1>3, <2>1, <2>3 DEF Fulls, CompleteSets
    <3>2. \A c \in Fulls(d) : c \in Entry /\ c \in Fulls(d)'
      BY <1>3 DEF Fulls, CompleteSets
    <3>3. \A c \in Fulls(d) : Created(c) <= Created(b)
      BY <1>3, <2>1, <3>2
    <3>4. top[b] = 0 \/ \E e \in DiffsOf(b) : top[b] <= e.n
      BY <1>1, <3>1, <3>3 DEF TopKept
    <3>5. DiffsOf(b) \subseteq DiffsOf(b)'
      BY <1>3 DEF DiffsOf
    <3>6. CASE top'[b] = top[b]
      BY <3>4, <3>5, <3>6
    <3>7. CASE top'[b] # top[b]
      <4>1. b = FullOf(x) /\ top'[b] = x.n /\ IsDiff(x)
        <5>1. b = FullOf(x)
          BY <1>8, <2>1, <3>7
        <5>2. x.n > top[FullOf(x)] /\ top' = [top EXCEPT ![FullOf(x)] = x.n]
          BY <1>4, <3>7
        <5>3. top'[b] = x.n
          BY <1>1, <1>7, <5>1, <5>2 DEF TypeOK
        <5> QED BY <1>4, <1>6, <1>7, <5>1, <5>2, <5>3 DEF IsDiff
      <4>2. x \in DiffsOf(b)'
        BY <1>3, <4>1 DEF DiffsOf
      <4> QED BY <1>4, <4>1, <4>2
    <3> QED BY <3>6, <3>7
  <2> QED BY <2>2, <2>3
<1>13. RunTimes'
  <2> SUFFICES ASSUME NEW e \in Entry, Complete(e)', disk'[e].run = rid
               PROVE  Created(e)' = clock
    BY <1>3, <1>4 DEF RunTimes, CompleteSets
  <2>1. CASE e = x
    BY <1>3, <1>5, <2>1
  <2>2. CASE e # x
    BY <1>1, <1>3, <2>2 DEF RunTimes, CompleteSets
  <2> QED BY <2>1, <2>2
<1> QED BY <1>3, <1>4, <1>9, <1>10, <1>11, <1>12, <1>13
        DEF NumberInv, NumberNotReused, RemovalsSafe

LEMMA FullsFinite ==
  ASSUME NEW d \in Dir
  PROVE  IsFiniteSet(Fulls(d))
<1> DEFINE f == [i \in RunId |-> FullEntry(d, i)]
           T == {FullEntry(d, i) : i \in RunId}
<1>1. f \in Surjection(RunId, T)
  BY DEF Surjection
<1>2. IsFiniteSet(T)
  BY <1>1, FS_Surjection, CatalogAssumption
<1>3. Fulls(d) \subseteq T
  BY CatalogAssumption DEF Fulls, CompleteSets, IsDiff, Entry, FullEntry
<1> QED BY <1>2, <1>3, FS_Subset

\* What retention chooses, by its class.
LEMMA CandidateKinds ==
  ASSUME NEW d \in Dir, NEW r \in RetentionCandidates(d)
  PROVE  /\ r.entry \in Entry /\ r.entry.dir = d
         /\ \/ /\ r.class = 1 /\ Keep > 0 /\ r.entry \in CompleteSets
               /\ FullOf(r.entry) \in OldFulls(d)
            \/ /\ r.class = 2 /\ KeepDiffs > 0 /\ r.entry \in Surplus(FullOf(r.entry))
               /\ FullOf(r.entry) \in Fulls(d)
               /\ Keep = 0 \/ FullOf(r.entry) \notin OldFulls(d)
            \/ /\ r.class = 3 /\ Incomplete(r.entry)
               /\ \E g \in CompleteSets : g.dir = d /\ Created(r.entry) < Created(g)
<1>1. CASE r \in OldChainRemovals(d)
  <2>1. PICK e \in CompleteSets : /\ FullOf(e) \in OldFulls(d)
                                  /\ r = Removal(e, 1, Created(FullOf(e)))
    BY <1>1 DEF OldChainRemovals
  <2>2. r.entry = e /\ r.class = 1 /\ Keep > 0
    BY <1>1, <2>1, CatalogAssumption DEF Removal, OldChainRemovals
  <2>3. e \in Entry /\ e.dir = d
    BY <2>1 DEF CompleteSets, OldFulls, Fulls, FullOf
  <2> QED BY <2>1, <2>2, <2>3
<1>2. CASE r \in SurplusRemovals(d)
  <2>1. PICK b \in Fulls(d) : /\ \E e \in Surplus(b) : r = Removal(e, 2, Created(b))
                              /\ Keep = 0 \/ b \notin OldFulls(d)
    BY <1>2 DEF SurplusRemovals
  <2>2. r.entry \in Surplus(b) /\ r.class = 2 /\ KeepDiffs > 0
    BY <1>2, <2>1, CatalogAssumption DEF Removal, SurplusRemovals
  <2>3. FullOf(r.entry) = b /\ r.entry \in Entry
    BY <2>2 DEF Surplus, DiffsOf
  <2>4. r.entry.dir = d
    BY <2>1, <2>3 DEF Fulls, FullOf
  <2> QED BY <2>1, <2>2, <2>3, <2>4
<1>3. CASE r \in IncompleteRemovals(d)
  <2>1. PICK e \in Entry : /\ e.dir = d /\ Incomplete(e) /\ r = Removal(e, 3, 0)
                           /\ \E g \in CompleteSets : g.dir = d /\ Created(e) < Created(g)
    BY <1>3 DEF IncompleteRemovals
  <2>2. r.entry = e /\ r.class = 3
    BY <2>1 DEF Removal
  <2> QED BY <2>1, <2>2
<1> QED BY <1>1, <1>2, <1>3 DEF RetentionCandidates

\* An old full backup has a newer one; the newest one is never old.
LEMMA OldHasNewer ==
  ASSUME NEW d \in Dir, NEW b \in OldFulls(d), Keep > 0
  PROVE  b \in Fulls(d) /\ \E c \in Fulls(d) : Created(c) > Created(b)
<1>1. b \in Fulls(d) /\ Cardinality({c \in Fulls(d) : Created(c) > Created(b)}) >= Keep
  BY DEF OldFulls
<1>2. {c \in Fulls(d) : Created(c) > Created(b)} # {}
  BY <1>1, FS_EmptySet, CatalogAssumption
<1> QED BY <1>1, <1>2

\* A surplus differential has a later one.
LEMMA SurplusHasLater ==
  ASSUME NEW b, NEW e \in Surplus(b), KeepDiffs > 0
  PROVE  \E f \in DiffsOf(b) \cap CompleteSets : f.n > e.n
<1>1. Cardinality({f \in DiffsOf(b) \cap CompleteSets : f.n > e.n}) >= KeepDiffs
  BY DEF Surplus
<1>2. {f \in DiffsOf(b) \cap CompleteSets : f.n > e.n} # {}
  BY <1>1, FS_EmptySet, CatalogAssumption
<1> QED BY <1>2

\* No full backup is chosen but old ones.
LEMMA FullSpared ==
  ASSUME NEW d \in Dir, NEW c \in Fulls(d), Keep = 0 \/ c \notin OldFulls(d),
         NEW q \in Dir, NEW r \in RetentionCandidates(q)
  PROVE  r.entry # c
<1> SUFFICES ASSUME r.entry = c PROVE FALSE
  OBVIOUS
<1>1. c \in Entry /\ Complete(c) /\ c.dir = d /\ ~IsDiff(c) /\ c.n = 0
  BY CatalogAssumption DEF Fulls, CompleteSets, IsDiff, Entry
<1>2. FullOf(c) = c /\ q = d
  BY <1>1, CandidateKinds DEF FullOf, Entry
<1>3. r.class = 1 => FALSE
  BY <1>2, CandidateKinds
<1>4. c \notin Surplus(c)
  BY <1>1 DEF Surplus, DiffsOf
<1>5. ~Incomplete(c)
  BY <1>1 DEF Complete, Incomplete
<1> QED BY <1>2, <1>3, <1>4, <1>5, CandidateKinds

\* The last differential of a chain that stays is not chosen.
LEMMA LastDiffSpared ==
  ASSUME NEW d \in Dir, NEW b \in Fulls(d), Keep = 0 \/ b \notin OldFulls(d),
         NEW g \in DiffsOf(b) \cap CompleteSets,
         \A f \in DiffsOf(b) \cap CompleteSets : ~(f.n > g.n),
         NEW q \in Dir, NEW r \in RetentionCandidates(q)
  PROVE  r.entry # g
<1> SUFFICES ASSUME r.entry = g PROVE FALSE
  OBVIOUS
<1>1. FullOf(g) = b /\ g \in Entry /\ Complete(g) /\ q = d
  <2>1. FullOf(g) = b /\ g \in Entry /\ Complete(g) /\ b.dir = d
    BY DEF DiffsOf, CompleteSets, Fulls
  <2>2. g.dir = d
    BY <2>1 DEF FullOf
  <2> QED BY <2>1, <2>2, CandidateKinds
<1>2. ~Incomplete(g)
  BY <1>1 DEF Complete, Incomplete
<1>3. KeepDiffs > 0 => g \notin Surplus(b)
  <2>1. {f \in DiffsOf(b) \cap CompleteSets : f.n > g.n} = {}
    OBVIOUS
  <2>2. Cardinality({f \in DiffsOf(b) \cap CompleteSets : f.n > g.n}) = 0
    BY <2>1, FS_EmptySet
  <2> QED BY <2>2, CatalogAssumption DEF Surplus
<1> QED BY <1>1, <1>2, <1>3, CandidateKinds

\* What the run wrote is not chosen.
LEMMA NotOwnSets ==
  ASSUME DirInv, NumberInv, pc # "idle", NEW d \in Dir,
         NEW r \in RetentionCandidates(d), Complete(r.entry)
  PROVE  disk[r.entry].run # rid
<1> SUFFICES ASSUME disk[r.entry].run = rid PROVE FALSE
  OBVIOUS
<1>0. TypeOK /\ TimesInOrder /\ SetsInOrder /\ RunTimes
  BY DEF DirInv, NumberInv
<1> DEFINE e == r.entry
           b == FullOf(r.entry)
<1>1. e \in Entry /\ e.dir = d /\ b \in Entry
  BY CandidateKinds, FullOfType
<1>2. Created(e) = clock
  BY <1>0, <1>1 DEF RunTimes, CompleteSets
<1>3. \A c \in Entry : Created(c) <= Created(e) /\ Created(c) \in Nat
  BY <1>0, <1>1, <1>2, CreatedType DEF TimesInOrder
<1>4. Present(e)
  BY DEF Complete
<1>5. r.class # 3
  BY CandidateKinds DEF Complete, Incomplete
<1>6. CASE r.class = 1
  <2>1. b \in OldFulls(d) /\ Keep > 0
    BY <1>6, CandidateKinds
  <2>2. PICK c \in Fulls(d) : Created(c) > Created(b)
    BY <2>1, OldHasNewer
  <2>3. c \in Entry /\ Complete(c) /\ Present(c) /\ ~IsDiff(c) /\ c.dir = d
    BY DEF Fulls, CompleteSets, Complete
  <2>4. Complete(b)
    BY <2>1 DEF OldFulls, Fulls, CompleteSets
  <2>5. CASE IsDiff(e)
    <3>1. Created(b) < Created(c)
      BY <1>1, <1>3, <2>2, <2>3
    <3>2. Created(e) < Created(c)
      BY <1>0, <1>1, <1>4, <2>3, <2>4, <2>5, <3>1 DEF SetsInOrder
    <3> QED BY <1>1, <1>3, <2>3, <3>2
  <2>6. CASE ~IsDiff(e)
    <3>1. b = e
      BY <1>1, <2>6, CatalogAssumption DEF FullOf, IsDiff, Entry
    <3> QED BY <1>1, <1>3, <2>2, <2>3, <3>1
  <2> QED BY <2>5, <2>6
<1>7. CASE r.class = 2
  <2>1. e \in Surplus(b) /\ KeepDiffs > 0
    BY <1>7, CandidateKinds
  <2>2. PICK f \in DiffsOf(b) \cap CompleteSets : f.n > e.n
    BY <2>1, SurplusHasLater
  <2>3. f \in Entry /\ Present(f) /\ IsDiff(f) /\ FullOf(f) = b /\ IsDiff(e)
    BY <2>1 DEF DiffsOf, Surplus
  <2>4. f.dir = e.dir
    BY <2>3 DEF FullOf
  <2>5. f.n \in Nat /\ e.n \in Nat
    BY <1>1, <2>3 DEF Entry
  <2>6. f # e /\ ~(f.n < e.n)
    BY <2>2, <2>5
  <2>7. Created(f) # Created(e) /\ ~(Created(f) < Created(e))
    BY <1>0, <1>1, <1>4, <2>3, <2>4, <2>6 DEF SetsInOrder
  <2> QED BY <1>1, <1>3, <2>3, <2>7
<1> QED BY <1>5, <1>6, <1>7, CandidateKinds

\* A chosen set whose full backup is complete has a newer full backup or a later
\* differential that is not chosen.
LEMMA CandidateSuperseded ==
  ASSUME DirInv, NumberInv, losses = 0, NEW d \in Dir,
         NEW r \in RetentionCandidates(d), Complete(FullOf(r.entry))
  PROVE  \E g \in CompleteSets :
           /\ \A q \in Dir : \A s \in RetentionCandidates(q) : s.entry # g
           /\ g.dir = r.entry.dir
           /\ \/ ~IsDiff(g) /\ Created(FullOf(r.entry)) < Created(g)
              \/ IsDiff(g) /\ FullOf(g) = FullOf(r.entry) /\ r.entry.n < g.n
<1>0. TypeOK /\ SetsInOrder /\ DifferentialsUsable
  BY DEF DirInv, NumberInv
<1>1. PICK e : e = r.entry
  OBVIOUS
<1>2. PICK b : b = FullOf(e)
  OBVIOUS
<1>3. e \in Entry /\ e.dir = d /\ b \in Entry /\ b.dir = d /\ b.n = 0 /\ Complete(b)
  BY <1>1, <1>2, CandidateKinds, FullOfType DEF FullOf
<1>4. b \in Fulls(d) /\ Fulls(d) \subseteq Entry /\ ~IsDiff(b) /\ Present(b)
  BY <1>3 DEF Fulls, CompleteSets, IsDiff, Complete
<1>5. PICK g : g \in Fulls(d) /\ \A c \in Fulls(d) : Created(c) <= Created(g)
  BY <1>0, <1>4, NewestOfMember, NewestOfBounds
<1>6. /\ g \in CompleteSets /\ g \in Entry /\ g.dir = d /\ ~IsDiff(g)
      /\ Created(g) \in Nat /\ Created(b) \in Nat
  BY <1>0, <1>3, <1>5, CreatedType DEF Fulls, CompleteSets
<1>7. \A c \in Fulls(d) : Created(c) \in Nat
  BY <1>0, <1>4, CreatedType
<1>8. CASE Created(b) < Created(g)
  <2>1. Keep = 0 \/ g \notin OldFulls(d)
    <3>1. ASSUME Keep # 0, g \in OldFulls(d) PROVE FALSE
      <4>1. \E c \in Fulls(d) : Created(c) > Created(g)
        BY <3>1, OldHasNewer, CatalogAssumption
      <4> QED BY <1>5, <1>6, <1>7, <4>1
    <3> QED BY <3>1
  <2>2. \A q \in Dir : \A s \in RetentionCandidates(q) : s.entry # g
    BY <1>5, <2>1, FullSpared
  <2> QED BY <1>1, <1>2, <1>3, <1>6, <1>8, <2>2
<1>9. CASE ~(Created(b) < Created(g))
  <2>1. \A c \in Fulls(d) : Created(c) <= Created(b)
    BY <1>5, <1>6, <1>7, <1>9
  <2>2. Keep = 0 \/ b \notin OldFulls(d)
    <3>1. ASSUME Keep # 0, b \in OldFulls(d) PROVE FALSE
      <4>1. \E c \in Fulls(d) : Created(c) > Created(b)
        BY <3>1, OldHasNewer, CatalogAssumption
      <4> QED BY <1>6, <1>7, <2>1, <4>1
    <3> QED BY <3>1
  <2> DEFINE L == DiffsOf(b) \cap CompleteSets
  <2>3. \E f \in L : f.n > e.n
    <3>1. CASE r.class = 1
      <4>1. b \in OldFulls(d) /\ Keep > 0
        BY <1>1, <1>2, <3>1, CandidateKinds
      <4> QED BY <2>2, <4>1
    <3>2. CASE r.class = 2
      <4>1. e \in Surplus(b) /\ KeepDiffs > 0
        BY <1>1, <1>2, <3>2, CandidateKinds
      <4> QED BY <4>1, SurplusHasLater
    <3>3. CASE r.class = 3
      <4>1. PICK h \in CompleteSets : h.dir = d /\ Created(e) < Created(h)
        BY <1>1, <3>3, CandidateKinds
      <4>2. Incomplete(e) /\ Present(e)
        BY <1>1, <3>3, CandidateKinds DEF Incomplete
      <4>3. h \in Entry /\ Complete(h) /\ Present(h)
        BY DEF CompleteSets, Complete
      <4>4. IsDiff(e)
        <5> SUFFICES ASSUME ~IsDiff(e) PROVE FALSE
          OBVIOUS
        <5>1. b = e
          BY <1>2, <1>3, CatalogAssumption DEF FullOf, IsDiff, Entry
        <5> QED BY <1>3, <4>2, <5>1 DEF Complete, Incomplete
      <4>5. Created(b) < Created(e)
        BY <1>0, <1>2, <1>3, <1>4, <4>2, <4>4 DEF SetsInOrder
      <4>6. Created(e) \in Nat /\ Created(h) \in Nat
        BY <1>0, <1>3, <4>3, CreatedType
      <4>7. IsDiff(h)
        <5> SUFFICES ASSUME ~IsDiff(h) PROVE FALSE
          OBVIOUS
        <5>1. h \in Fulls(d)
          BY <4>1 DEF Fulls
        <5>2. Created(h) <= Created(b)
          BY <2>1, <5>1
        <5> QED BY <1>6, <4>1, <4>5, <4>6, <5>2
      <4>8. PICK c : c = FullOf(h)
        OBVIOUS
      <4>9. Complete(c) /\ c \in Entry /\ c.dir = d /\ ~IsDiff(c) /\ Present(c)
        BY <1>0, <4>1, <4>3, <4>7, <4>8, FullOfType
           DEF DifferentialsUsable, CompleteSets, FullOf, IsDiff, Complete
      <4>10. Created(c) <= Created(b) /\ Created(c) \in Nat
        BY <1>7, <2>1, <4>9 DEF Fulls, CompleteSets
      <4>11. c = b
        <5> SUFFICES ASSUME c # b PROVE FALSE
          OBVIOUS
        <5>1. Created(c) # Created(b)
          BY <1>0, <1>3, <1>4, <4>9 DEF SetsInOrder
        <5>2. Created(c) < Created(b)
          BY <1>6, <4>10, <5>1
        <5>3. Created(h) < Created(b)
          BY <1>0, <1>3, <1>4, <4>1, <4>3, <4>7, <4>8, <4>9, <5>2 DEF SetsInOrder
        <5> QED BY <1>6, <4>1, <4>5, <4>6, <5>3
      <4>12. e.n < h.n
        BY <1>0, <1>2, <1>3, <4>1, <4>2, <4>3, <4>4, <4>7, <4>8, <4>11 DEF SetsInOrder
      <4>13. h \in L
        BY <4>1, <4>3, <4>7, <4>8, <4>11 DEF DiffsOf
      <4>14. e.n \in Nat /\ h.n \in Nat
        BY <1>3, <4>3 DEF Entry
      <4> QED BY <4>12, <4>13, <4>14
    <3> QED BY <3>1, <3>2, <3>3, CandidateKinds
  <2>4. L \subseteq Entry /\ \A f \in L : f.n \in 0 .. MaxDiffNumber
    BY DEF DiffsOf, Entry
  <2>5. PICK h \in L : \A f \in L : f.n <= h.n
    <3> DEFINE T == {f.n : f \in L}
    <3>1. T \subseteq 0 .. MaxDiffNumber /\ T # {} /\ MaxDiffNumber \in Nat
      BY <2>3, <2>4, CatalogAssumption
    <3>2. PICK m \in T : \A y \in T : y <= m
      BY <3>1, GreatestExists
    <3> QED BY <3>2
  <2>6. e.n < h.n
    BY <1>3, <2>3, <2>4, <2>5, CatalogAssumption DEF Entry
  <2>7. \A f \in L : ~(f.n > h.n)
    BY <2>4, <2>5, CatalogAssumption
  <2>8. \A q \in Dir : \A s \in RetentionCandidates(q) : s.entry # h
    BY <1>4, <2>2, <2>5, <2>7, LastDiffSpared
  <2>9. h \in CompleteSets /\ IsDiff(h) /\ FullOf(h) = b /\ h.dir = d
    <3>1. h \in CompleteSets /\ IsDiff(h) /\ FullOf(h) = b
      BY DEF DiffsOf
    <3> QED BY <1>3, <3>1 DEF FullOf
  <2> QED BY <1>1, <1>2, <1>3, <2>6, <2>8, <2>9
<1> QED BY <1>8, <1>9

\* Where old chains are chosen, Keep full backups are not.
LEMMA FullsSpared ==
  ASSUME TypeOK, NEW d \in Dir, NEW r \in RetentionCandidates(d), r.class = 1,
         NEW K, K = {c \in Fulls(d) :
                       \A q \in Dir : \A s \in RetentionCandidates(q) : s.entry # c}
  PROVE  Cardinality(K) >= Keep
<1>1. Keep > 0 /\ OldFulls(d) # {} /\ OldFulls(d) \subseteq Entry
  <2>1. Keep > 0 /\ OldFulls(d) # {}
    BY CandidateKinds
  <2> QED BY <2>1 DEF OldFulls, Fulls, CompleteSets
<1>2. PICK b \in OldFulls(d) : \A c \in OldFulls(d) : Created(c) <= Created(b)
  BY <1>1, NewestOfMember, NewestOfBounds
<1> DEFINE N == {c \in Fulls(d) : Created(c) > Created(b)}
<1>3. Cardinality(N) >= Keep
  BY <1>2 DEF OldFulls
<1>4. ASSUME NEW c \in N PROVE c \in K
  <2>1. Created(c) \in Nat /\ Created(b) \in Nat
    BY <1>1, <1>2, CreatedType DEF Fulls, CompleteSets
  <2>2. c \notin OldFulls(d)
    BY <1>2, <2>1
  <2> QED BY <2>2, FullSpared
<1> HIDE DEF N
<1>5. IsFiniteSet(K)
  BY FullsFinite, FS_Subset
<1>6. IsFiniteSet(N) /\ Cardinality(N) <= Cardinality(K)
  BY <1>4, <1>5, FS_Subset
<1>7. Cardinality(N) \in Nat /\ Cardinality(K) \in Nat
  BY <1>5, <1>6, FS_CardinalityType
<1> QED BY <1>3, <1>6, <1>7, CatalogAssumption

LEMMA StartRetentionNumbers ==
  ASSUME DirInv, NumberInv, StartRetention
  PROVE  NumberInv'
<1>1. /\ pc = "running" /\ pc' = "cleaning"
      /\ removals' = UNION {RetentionCandidates(d) : d \in srcs \ hold}
      /\ UNCHANGED <<disk, clock, losses, top, rid, todo, plan>>
      /\ srcs \subseteq Dir /\ TypeOK /\ PlanFits
  BY DEF StartRetention, DirInv, TypeOK
<1>2. \A e \in Entry : Held(e) /\ Shrinks(e)
  BY <1>1, DiskHeld, HeldSame
<1>3. SetsInOrder' /\ RunTimes' /\ TopKept' /\ PlanInOrder'
  BY <1>1, <1>2, ShrinkingSets, RunTimesStays, TopStays, PlanStays DEF NumberInv
<1>4. RemovalsSafe'
  <2> SUFFICES ASSUME NEW r \in removals'
      PROVE /\ Complete(r.entry)' => disk'[r.entry].run # rid'
            /\ losses' = 0 /\ Complete(FullOf(r.entry))' => Superseded(r)'
            /\ losses' = 0 /\ r.class = 1 =>
                 Cardinality({c \in Fulls(r.entry.dir)' : Spared(c)'}) >= Keep
    BY DEF RemovalsSafe
  <2>1. PICK d \in Dir : r \in RetentionCandidates(d)
    BY <1>1
  <2>2. r.entry \in Entry /\ r.entry.dir = d
    BY <2>1, CandidateKinds
  <2>3. \A e : (Complete(e)' <=> Complete(e)) /\ Created(e)' = Created(e)
    BY <1>1 DEF Complete, Present, HasGap, HasTrailer, Created
  <2>4. CompleteSets' = CompleteSets /\ Fulls(d)' = Fulls(d)
    BY <2>3 DEF CompleteSets, Fulls
  <2>5. \A s \in removals' : \E q \in Dir : s \in RetentionCandidates(q)
    BY <1>1
  <2>6. \A g : (\A q \in Dir : \A s \in RetentionCandidates(q) : s.entry # g) => Spared(g)'
    BY <2>5 DEF Spared
  <2>7. Complete(r.entry)' => disk'[r.entry].run # rid'
    BY <1>1, <2>1, <2>3, NotOwnSets
  <2>8. ASSUME losses = 0, Complete(FullOf(r.entry)) PROVE Superseded(r)'
    <3>1. PICK g \in CompleteSets :
           /\ \A q \in Dir : \A s \in RetentionCandidates(q) : s.entry # g
           /\ g.dir = r.entry.dir
           /\ \/ ~IsDiff(g) /\ Created(FullOf(r.entry)) < Created(g)
              \/ IsDiff(g) /\ FullOf(g) = FullOf(r.entry) /\ r.entry.n < g.n
      BY <2>1, <2>8, CandidateSuperseded
    <3> QED BY <2>3, <2>4, <2>6, <3>1 DEF Superseded
  <2>9. ASSUME losses = 0, r.class = 1
        PROVE  Cardinality({c \in Fulls(r.entry.dir)' : Spared(c)'}) >= Keep
    <3> DEFINE K == {c \in Fulls(d) :
                       \A q \in Dir : \A s \in RetentionCandidates(q) : s.entry # c}
               M == {c \in Fulls(d) : Spared(c)'}
    <3>1. Cardinality(K) >= Keep
      BY <1>1, <2>1, <2>9, FullsSpared
    <3>2. K \subseteq M
      BY <2>6
    <3>3. IsFiniteSet(M) /\ M = {c \in Fulls(r.entry.dir)' : Spared(c)'}
      BY <2>2, <2>4, FullsFinite, FS_Subset
    <3> HIDE DEF K, M
    <3>4. IsFiniteSet(K) /\ Cardinality(K) <= Cardinality(M)
      BY <3>2, <3>3, FS_Subset
    <3>5. Cardinality(K) \in Nat /\ Cardinality(M) \in Nat
      BY <3>3, <3>4, FS_CardinalityType
    <3>6. Cardinality(M) >= Keep
      BY <3>1, <3>4, <3>5, CatalogAssumption
    <3> QED BY <3>3, <3>6
  <2> QED BY <1>1, <2>3, <2>7, <2>8, <2>9
<1> QED BY <1>1, <1>3, <1>4 DEF NumberInv, CurrentInOrder, NumberNotReused

\* A part is deleted: the last differential of the newest chain stays.
LEMMA DeletePartNumbers ==
  ASSUME DirInv, NumberInv, NEW r \in removals, DeletePart(r)
  PROVE  NumberInv'
<1>1. /\ TypeOK /\ PartsInRange /\ PlanFits /\ RunTimes /\ TopKept /\ RemovalsSafe
      /\ PlanInOrder /\ SetsInOrder
  BY DEF DirInv, NumberInv
<1>2. PICK x : x = r.entry
  OBVIOUS
<1>3. /\ \A e \in Entry : Shrinks(e)
      /\ \A e \in Entry \ {x} : disk'[e] = disk[e]
      /\ x \in Entry /\ ~Complete(x)'
      /\ removals' \subseteq removals
      /\ \A s \in removals : s.entry # x => s \in removals'
  BY <1>1, <1>2, DeletePartShrinks
<1>4. pc = "cleaning" /\ UNCHANGED <<clock, losses, top, pc, rid, todo, plan>>
  BY DEF DeletePart
<1>5. \A e \in Entry : Complete(e)' => Complete(e) /\ Created(e)' = Created(e)
  BY <1>3 DEF Shrinks, Complete
<1>6. \A e \in Entry \ {x} : /\ Complete(e)' <=> Complete(e)
                             /\ Present(e)' <=> Present(e)
                             /\ Created(e)' = Created(e)
  BY <1>3 DEF Complete, Present, HasGap, HasTrailer, Created
<1>7. SetsInOrder' /\ RunTimes' /\ PlanInOrder'
  BY <1>1, <1>3, <1>4, ShrinkingSets, RunTimesStays, PlanStays
<1>8. \A g \in Entry : Spared(g) => g # x /\ Spared(g)'
  BY <1>2, <1>3 DEF Spared
<1>9. TopKept'
  <2> SUFFICES ASSUME losses = 0, NEW d \in Dir, NEW b \in Fulls(d)',
                      \A c \in Fulls(d)' : Created(c)' <= Created(b)'
               PROVE  top'[b] = 0 \/ \E e \in DiffsOf(b)' : top'[b] <= e.n
    BY <1>4 DEF TopKept
  <2>1. b \in Entry /\ Complete(b)' /\ ~IsDiff(b) /\ b.dir = d /\ b.n = 0 /\ b # x
    BY <1>3, CatalogAssumption DEF Fulls, CompleteSets, IsDiff, Entry
  <2>2. Complete(b) /\ Created(b)' = Created(b) /\ b \in Fulls(d)
    BY <1>5, <2>1 DEF Fulls, CompleteSets
  <2>3. \A g \in Fulls(d) : g \in Entry /\ Complete(g) /\ ~IsDiff(g) /\ g.dir = d
    BY DEF Fulls, CompleteSets
  <2>4. \A g \in Fulls(d) : g # x => g \in Fulls(d)' /\ Created(g)' = Created(g)
    BY <1>6, <2>3 DEF Fulls, CompleteSets
  <2>5. \A g \in Entry : Created(g) \in Nat
    BY <1>1, CreatedType
  <2>6. Complete(FullOf(x)) => Superseded(r)
    BY <1>1, <1>2 DEF RemovalsSafe
  <2>7. ASSUME NEW g \in Fulls(d) PROVE Created(g) <= Created(b)
    <3>1. CASE g # x
      BY <2>2, <2>4, <2>7, <3>1
    <3>2. CASE g = x
      <4>1. FullOf(x) = x /\ x.dir = d
        BY <1>3, <2>3, <3>2, CatalogAssumption DEF FullOf, IsDiff, Entry
      <4>2. Superseded(r)
        BY <2>3, <2>6, <3>2, <4>1
      <4>3. PICK h \in CompleteSets :
              /\ Spared(h) /\ h.dir = d
              /\ \/ ~IsDiff(h) /\ Created(x) < Created(h)
                 \/ IsDiff(h) /\ FullOf(h) = x /\ x.n < h.n
        BY <1>2, <4>1, <4>2 DEF Superseded
      <4>4. h \in Entry /\ Complete(h) /\ Present(h) /\ h # x
        BY <1>8, <4>3 DEF CompleteSets, Complete
      <4>5. CASE ~IsDiff(h) /\ Created(x) < Created(h)
        <5>1. h \in Fulls(d)
          BY <4>3, <4>4, <4>5 DEF Fulls, CompleteSets
        <5>2. Created(h) <= Created(b)
          BY <2>2, <2>4, <4>4, <5>1
        <5>3. Created(h) \in Nat /\ Created(x) \in Nat /\ Created(b) \in Nat
          BY <1>3, <2>1, <2>5, <4>4
        <5> QED BY <3>2, <4>5, <5>2, <5>3
      <4>6. CASE IsDiff(h) /\ FullOf(h) = x
        <5>1. Complete(h)' /\ Complete(FullOf(h))'
          <6>1. Complete(h)'
            BY <1>6, <4>4
          <6>2. DifferentialsUsable'
            BY DirInvNext DEF DirInv, Next
          <6> QED BY <1>4, <4>4, <4>6, <6>1, <6>2 DEF DifferentialsUsable, CompleteSets
        <5>2. Complete(x)'
          BY <4>6, <5>1 DEF Complete, Present, HasGap, HasTrailer
        <5> QED BY <1>3, <5>2
      <4> QED BY <4>3, <4>5, <4>6
    <3> QED BY <3>1, <3>2
  <2>8. top[b] = 0 \/ \E e \in DiffsOf(b) : top[b] <= e.n
    BY <1>1, <2>2, <2>7 DEF TopKept
  <2>9. ASSUME NEW e \in DiffsOf(b), top[b] <= e.n
        PROVE  \E f \in DiffsOf(b)' : top[b] <= f.n
    <3>1. e \in Entry /\ Present(e) /\ IsDiff(e) /\ FullOf(e) = b
      BY DEF DiffsOf
    <3>2. CASE e # x
      <4>1. e \in DiffsOf(b)'
        BY <1>6, <3>1, <3>2 DEF DiffsOf
      <4> QED BY <2>9, <4>1
    <3>3. CASE e = x
      <4>1. PICK h \in CompleteSets :
              /\ Spared(h) /\ h.dir = d
              /\ \/ ~IsDiff(h) /\ Created(b) < Created(h)
                 \/ IsDiff(h) /\ FullOf(h) = b /\ x.n < h.n
        <5>1. x.dir = d
          BY <2>1, <3>1, <3>3 DEF FullOf
        <5> QED BY <1>2, <2>2, <2>6, <3>1, <3>3, <5>1 DEF Superseded
      <4>2. h \in Entry /\ Complete(h) /\ Present(h) /\ h # x
        BY <1>8, <4>1 DEF CompleteSets, Complete
      <4>3. IsDiff(h) /\ FullOf(h) = b /\ x.n < h.n
        <5> SUFFICES ASSUME ~IsDiff(h), Created(b) < Created(h) PROVE FALSE
          BY <4>1
        <5>1. h \in Fulls(d)
          BY <4>1, <4>2 DEF Fulls, CompleteSets
        <5> QED BY <2>1, <2>5, <2>7, <4>2, <5>1
      <4>4. h \in DiffsOf(b)'
        BY <1>6, <4>2, <4>3 DEF DiffsOf
      <4>5. top[b] \in Nat /\ x.n \in Nat /\ h.n \in Nat
        BY <1>1, <1>3, <2>1, <4>2 DEF TypeOK, Entry
      <4>6. top[b] <= h.n
        BY <2>9, <3>3, <4>3, <4>5
      <4> QED BY <4>4, <4>6
    <3> QED BY <3>2, <3>3
  <2> QED BY <1>4, <2>8, <2>9
<1>10. RemovalsSafe'
  <2> SUFFICES ASSUME NEW q \in removals'
      PROVE /\ Complete(q.entry)' => disk'[q.entry].run # rid'
            /\ losses' = 0 /\ Complete(FullOf(q.entry))' => Superseded(q)'
            /\ losses' = 0 /\ q.class = 1 =>
                 Cardinality({c \in Fulls(q.entry.dir)' : Spared(c)'}) >= Keep
    BY DEF RemovalsSafe
  <2>1. q \in removals /\ q.entry \in Entry /\ FullOf(q.entry) \in Entry
    BY <1>1, <1>3, FullOfType DEF TypeOK, RemovalRecord
  <2>2. Complete(q.entry)' => disk'[q.entry].run # rid'
    BY <1>1, <1>3, <1>4, <2>1 DEF RemovalsSafe, Shrinks, Complete
  <2>3. ASSUME losses = 0, Complete(FullOf(q.entry))' PROVE Superseded(q)'
    <3>1. Complete(FullOf(q.entry)) /\ Created(FullOf(q.entry))' = Created(FullOf(q.entry))
      BY <1>5, <2>1, <2>3
    <3>2. PICK g \in CompleteSets :
            /\ Spared(g) /\ g.dir = q.entry.dir
            /\ \/ ~IsDiff(g) /\ Created(FullOf(q.entry)) < Created(g)
               \/ IsDiff(g) /\ FullOf(g) = FullOf(q.entry) /\ q.entry.n < g.n
      BY <1>1, <2>1, <2>3, <3>1 DEF RemovalsSafe, Superseded
    <3>3. g \in Entry /\ Complete(g) /\ g # x /\ Spared(g)'
      BY <1>8, <3>2 DEF CompleteSets
    <3>4. g \in CompleteSets' /\ Created(g)' = Created(g)
      BY <1>6, <3>3 DEF CompleteSets
    <3> QED BY <3>1, <3>2, <3>3, <3>4 DEF Superseded
  <2>4. ASSUME losses = 0, q.class = 1
        PROVE  Cardinality({c \in Fulls(q.entry.dir)' : Spared(c)'}) >= Keep
    <3>1. PICK d : d = q.entry.dir
      OBVIOUS
    <3>2. Cardinality({c \in Fulls(d) : Spared(c)}) >= Keep
      BY <1>1, <2>1, <2>4, <3>1 DEF RemovalsSafe
    <3>3. ASSUME NEW c \in Fulls(d)', Spared(c)' PROVE c \in Fulls(d) /\ Spared(c)
      <4>1. c \in Entry /\ Complete(c)' /\ c.dir = d /\ ~IsDiff(c) /\ c # x
        BY <1>3, <3>3 DEF Fulls, CompleteSets
      <4>2. c \in Fulls(d)
        BY <1>6, <4>1 DEF Fulls, CompleteSets
      <4>3. Spared(c)
        BY <1>3, <3>3, <4>1 DEF Spared
      <4> QED BY <4>2, <4>3
    <3>4. ASSUME NEW c \in Fulls(d), Spared(c) PROVE c \in Fulls(d)' /\ Spared(c)'
      <4>1. c \in Entry /\ Complete(c) /\ c.dir = d /\ ~IsDiff(c)
        BY DEF Fulls, CompleteSets
      <4>2. c # x /\ Spared(c)'
        BY <1>8, <3>4, <4>1
      <4> QED BY <1>6, <4>1, <4>2 DEF Fulls, CompleteSets
    <3>5. {c \in Fulls(d)' : Spared(c)'} = {c \in Fulls(d) : Spared(c)}
      BY <3>3, <3>4, Zenon
    <3> QED BY <3>1, <3>2, <3>5
  <2> QED BY <1>4, <2>2, <2>3, <2>4
<1> QED BY <1>4, <1>7, <1>9, <1>10 DEF NumberInv, CurrentInOrder, NumberNotReused

LEMMA LoseNumbers ==
  ASSUME DirInv, NumberInv, NEW e \in Entry, NEW k \in disk[e].final, Lose(e, k)
  PROVE  NumberInv'
<1>1. TypeOK /\ PartsInRange /\ PlanFits /\ RunKnown
  BY DEF DirInv
<1>2. /\ \A f \in Entry : Shrinks(f)
      /\ \A f \in Entry \ {e} : disk'[f] = disk[f]
  BY <1>1, LoseShrinks
<1>3. /\ UNCHANGED <<clock, top, pc, rid, todo, plan, cur, removals>>
      /\ losses' # 0 /\ (e = cur => pc = "cleaning")
  BY <1>1, MaxLossesAssumption DEF Lose, runVars, TypeOK
<1>4. SetsInOrder' /\ PlanInOrder'
  BY <1>1, <1>2, <1>3, ShrinkingSets, PlanStays DEF NumberInv
<1>5. TopKept' /\ NumberNotReused'
  BY <1>3 DEF TopKept, NumberNotReused
<1>6. RunTimes'
  BY <1>2, <1>3 DEF NumberInv, RunTimes, Shrinks, CompleteSets, Complete
<1>7. RemovalsSafe'
  <2>1. \A q \in removals : q.entry \in Entry
    BY <1>1 DEF TypeOK, RemovalRecord
  <2> QED BY <1>2, <1>3, <2>1 DEF NumberInv, RemovalsSafe, Shrinks, Complete
<1>8. CurrentInOrder'
  <2> SUFFICES ASSUME pc \in {"writing", "renaming"} PROVE CurrentInOrder'
    BY <1>3 DEF CurrentInOrder
  <2>1. PICK x : x = cur
    OBVIOUS
  <2>2. /\ Created(x) = clock /\ x \in Entry /\ x # e
        /\ \A f \in Entry \ {x} : f.dir = x.dir /\ Present(f) => Created(f) < clock
        /\ IsDiff(x) => Continues(x)
        /\ ~IsDiff(x) => DiffsOf(x) = {} /\ top[x] = 0
    BY <1>1, <1>3, <2>1 DEF NumberInv, CurrentInOrder, RunKnown
  <2>3. /\ \A f \in Entry \ {x} : f.dir = x.dir /\ Present(f)' => Created(f)' < clock
        /\ IsDiff(x) => Continues(x)'
    BY <1>2, <2>2, ShrinkingContinues DEF Shrinks
  <2>4. ~IsDiff(x) => DiffsOf(x)' = {}
    BY <1>2, <2>2 DEF Shrinks, DiffsOf
  <2>5. x = cur' /\ Created(x)' = clock
    BY <1>2, <1>3, <2>1, <2>2 DEF Created
  <2>6. /\ Created(cur)' = clock'
        /\ \A f \in Entry \ {cur'} : f.dir = cur'.dir /\ Present(f)' => Created(f)' < clock'
        /\ IsDiff(cur') => Continues(cur)'
        /\ ~IsDiff(cur') => DiffsOf(cur)' = {} /\ top'[cur'] = 0
    BY <1>3, <2>2, <2>3, <2>4, <2>5, Zenon
  <2> QED BY <2>6 DEF CurrentInOrder, IsDiff
<1> QED BY <1>4, <1>5, <1>6, <1>7, <1>8 DEF NumberInv

\* Every step keeps the sets, the plan and the removals in order.
LEMMA NumberInvNext ==
  ASSUME DirInv, LogInv, NumberInv, [Next]_vars
  PROVE  NumberInv'
<1>0. TypeOK /\ RunKnown
  BY DEF DirInv
<1>1. CASE UNCHANGED vars
  <2>1. UNCHANGED <<disk, clock, losses, top, pc, rid, srcs, todo, plan, cur, removals>>
    BY <1>1 DEF vars, runVars
  <2> USE <2>1 DEF NumberInv
  <2>2. SetsInOrder' /\ TopKept' /\ NumberNotReused' /\ RunTimes'
    BY DEF SetsInOrder, TopKept, NumberNotReused, RunTimes, Fulls, DiffsOf, CompleteSets,
       Complete, Present, HasGap, HasTrailer, Created
  <2>3. PlanInOrder' /\ CurrentInOrder'
    BY DEF PlanInOrder, CurrentInOrder, Continues, Fulls, DiffsOf, CompleteSets,
       Complete, Present, HasGap, HasTrailer, Created
  <2>4. RemovalsSafe'
    BY DEF RemovalsSafe, Superseded, Spared, Fulls, CompleteSets,
       Complete, Present, HasGap, HasTrailer, Created
  <2> QED BY <2>2, <2>3, <2>4
<1>2. ASSUME NEW S \in SUBSET Dir, NEW t \in (clock + 1) .. MaxTime,
             NEW id \in RunId, NEW forceFull, NEW newKeys,
             NEW stuck, Start(S, t, id, forceFull, newKeys, stuck)
      PROVE  NumberInv'
  BY <1>2, StartNumbers
<1>3. CASE \/ Abandon \/ RenameFails \/ NoRetention \/ DeleteFails \/ Crash
           \/ \E L \in SUBSET logs : DeleteLogs(L)
  <2>1. EndRun /\ UNCHANGED <<disk, losses, top>>
    BY <1>3 DEF Abandon, RenameFails, NoRetention, DeleteFails, Crash, DeleteLogs
  <2> QED BY <2>1, DiskHeld, EndNumbers
<1>4. CASE \/ \E k \in Key : ObtainKeys(k)
           \/ Written
           \/ \E misses \in BOOLEAN : SetDone(misses)
  BY <1>4, QuietNumbers
<1>5. ASSUME NEW d \in Dir, NEW c \in 1 .. MaxParts, NEW large \in BOOLEAN,
             BeginDiff(d, c, large)
      PROVE  NumberInv'
  <2>1. PICK e : e = plan[d]
    OBVIOUS
  <2>2. e \in Entry /\ e.dir = d /\ ~Present(e) /\ d \in todo /\ pc = "running" /\ IsDiff(e)
    BY <1>5, <2>1 DEF BeginDiff, DirInv, PlanFits
  <2>3. BeginWrite(e, c, large) /\ top' = top
    BY <1>5, <2>1 DEF BeginDiff, BeginWrite
  <2> QED BY <2>1, <2>2, <2>3, BeginNumbers
<1>6. ASSUME NEW d \in Dir, NEW c \in 1 .. MaxParts, BeginFull(d, c)
      PROVE  NumberInv'
  <2>1. PICK e : e = FullEntry(d, rid)
    OBVIOUS
  <2>2. e \in Entry /\ e.dir = d /\ e.chain = rid /\ ~IsDiff(e) /\ d \in todo /\ pc = "running"
    BY <1>0, <1>6, <2>1, CatalogAssumption
       DEF BeginFull, RunKnown, FullEntry, Entry, IsDiff
  <2>3. ~Present(e)
    BY <2>2 DEF DirInv, TimesInOrder
  <2>4. BeginWrite(e, c, FALSE) /\ top' = [top EXCEPT ![e] = 0]
    BY <1>6, <2>1 DEF BeginFull, BeginWrite
  <2> QED BY <2>2, <2>3, <2>4, BeginNumbers
<1>7. CASE WritePart
  BY <1>7, WritePartNumbers
<1>8. ASSUME NEW stuck \in SUBSET (1 .. count), WriteFails(stuck) PROVE NumberInv'
  <2>1. EndRun /\ UNCHANGED <<losses, top>>
    BY <1>8 DEF WriteFails
  <2> QED BY <1>0, <1>8, <2>1, WriteFailsHeld, EndNumbers
<1>9. CASE RenamePart
  BY <1>9, RenamePartNumbers
<1>10. CASE StartRetention
  BY <1>10, StartRetentionNumbers
<1>11. CASE \E r \in removals : DeletePart(r)
  BY <1>11, DeletePartNumbers
<1>12. CASE \E e \in Entry : \E k \in disk[e].final : Lose(e, k)
  BY <1>12, LoseNumbers
<1> QED
  BY <1>1, <1>2, <1>3, <1>4, <1>5, <1>6, <1>7, <1>8, <1>9, <1>10, <1>11, <1>12 DEF Next

LEMMA NumberInvInit == Init => NumberInv
<1> SUFFICES ASSUME Init PROVE NumberInv
  OBVIOUS
<1>1. \A e \in Entry : ~Present(e)
  BY DEF Init, NoSets, Nothing, Present
<1>2. CompleteSets = {} /\ \A d : Fulls(d) = {}
  BY <1>1 DEF CompleteSets, Complete, Fulls
<1> QED
  BY <1>1, <1>2 DEF Init, NoRun, NumberInv, SetsInOrder, PlanInOrder, CurrentInOrder,
     TopKept, RunTimes, RemovalsSafe, NumberNotReused

\* Deleting a set: it is not of this run, and a complete full backup goes after
\* its differentials and leaves Keep others.
LEMMA DeletePartSafe ==
  ASSUME DirInv, NumberInv, NEW r \in removals, DeletePart(r), Complete(r.entry)
  PROVE  /\ disk[r.entry].run # rid
         /\ ~IsDiff(r.entry) =>
              /\ \A f \in CompleteSets : FullOf(f) = r.entry => f = r.entry
              /\ losses = 0 => Cardinality(Fulls(r.entry.dir)) > Keep
<1>1. TypeOK /\ RemovalsClosed /\ RemovalsSafe /\ SetsInOrder
  BY DEF DirInv, NumberInv
<1>2. PICK e : e = r.entry
  OBVIOUS
<1>3. /\ e \in Entry /\ Complete(e) /\ Present(e) /\ r.class \in 1 .. 3
      /\ Turn(r) /\ pc = "cleaning" /\ e.dir \in Dir
  BY <1>1, <1>2 DEF TypeOK, RemovalRecord, DeletePart, Complete, Entry
<1>4. disk[e].run # rid
  BY <1>1, <1>2, <1>3 DEF RemovalsSafe
<1>5. ASSUME ~IsDiff(e) PROVE r.class = 1
  BY <1>1, <1>2, <1>3, <1>5 DEF RemovalsClosed
<1>6. ASSUME ~IsDiff(e), NEW f \in CompleteSets, FullOf(f) = e, f # e PROVE FALSE
  <2>1. f \in Entry /\ Complete(f) /\ Present(f) /\ f.dir = e.dir
    BY <1>6 DEF CompleteSets, Complete, FullOf
  <2>2. IsDiff(f)
    BY <1>6, <2>1, CatalogAssumption DEF FullOf, IsDiff, Entry
  <2>3. Created(e) < Created(f)
    BY <1>1, <1>3, <1>6, <2>1, <2>2 DEF SetsInOrder
  <2>4. Created(e) \in Nat /\ Created(f) \in Nat
    BY <1>1, <1>3, <2>1, CreatedType
  <2> DEFINE q == Removal(f, 1, r.age)
  <2>5. q \in removals
    BY <1>1, <1>2, <1>5, <1>6 DEF RemovalsClosed
  <2>6. q.entry = f /\ q.class = 1 /\ q.age = r.age
    BY DEF Removal
  <2> HIDE DEF q
  <2>7. Precedes(q, r)
    BY <1>2, <1>5, <1>6, <2>1, <2>3, <2>4, <2>6 DEF Precedes
  <2>8. cur = e /\ cur # NoEntry
    BY <1>2, <1>3, <1>6, <2>5, <2>6, <2>7 DEF Turn
  <2>9. 1 \notin disk[e].final
    BY <1>1, <1>3, <2>8 DEF RemovalsClosed
  <2>10. disk[e].final \subseteq 1 .. MaxParts
    BY <1>1, <1>3, FilesType
  <2> QED BY <1>3, <2>9, <2>10 DEF Complete, Present, HasGap
<1>7. ASSUME ~IsDiff(e), losses = 0 PROVE Cardinality(Fulls(e.dir)) > Keep
  <2> DEFINE F == Fulls(e.dir)
             K == {c \in F : Spared(c)}
  <2>1. Cardinality(K) >= Keep
    BY <1>1, <1>2, <1>5, <1>7 DEF RemovalsSafe
  <2>2. IsFiniteSet(F) /\ e \in F /\ e \notin K
    BY <1>2, <1>3, <1>7, FullsFinite DEF Fulls, CompleteSets, Spared
  <2>3. K \subseteq F
    OBVIOUS
  <2> HIDE DEF F, K
  <2>4. IsFiniteSet(K)
    BY <2>2, <2>3, FS_Subset
  <2>5. Cardinality(K \cup {e}) = Cardinality(K) + 1
    BY <2>2, <2>4, FS_AddElement
  <2>6. Cardinality(K \cup {e}) <= Cardinality(F)
    BY <2>2, <2>3, FS_Subset
  <2>7. Cardinality(K) \in Nat /\ Cardinality(F) \in Nat
    BY <2>2, <2>4, FS_CardinalityType
  <2>8. Cardinality(F) > Keep
    BY <2>1, <2>5, <2>6, <2>7, CatalogAssumption
  <2> QED BY <2>8 DEF F
<1> QED BY <1>2, <1>4, <1>6, <1>7

-----------------------------------------------------------------------------
(* The preview of retention *)

\* The first part of ForeseenInv is kept by steps that leave the other sets alone.
LEMMA ForeseenStays ==
  ASSUME ForeseenInv, losses = 0, pc \in {"planned", "running", "writing", "renaming"},
         UNCHANGED <<rid, srcs, plan, foreseen, clock>>,
         \A e \in Entry : NotOfRun(e) => Held(e),
         NEW e \in Entry, NotOfRun(e)'
  PROVE  /\ foreseen'[e].final = disk'[e].final
         /\ Present(e)' => /\ foreseen'[e].created = Created(e)'
                           /\ foreseen'[e].parts = disk'[e].parts
<1>1. NotOfRun(e)
  BY DEF NotOfRun
<1>2. Held(e) /\ (Present(e)' <=> Present(e))
  BY <1>1, HeldSame
<1> QED BY <1>1, <1>2 DEF ForeseenInv, Held

\* Steps of the run that give no part its final name.
LEMMA HeldForeseen ==
  ASSUME ForeseenInv, losses' = losses, losses = 0,
         pc \in {"planned", "running", "writing", "renaming"},
         UNCHANGED <<rid, srcs, plan, foreseen, clock>>,
         \A e \in Entry : Held(e),
         pc' \in {"writing", "renaming"} =>
           /\ cur' \in Entry /\ ~NotOfRun(cur')
           /\ \A e \in Entry \ {cur'} :
                e.dir = cur'.dir /\ ~NotOfRun(e) => ~Present(e)
  PROVE  ForeseenInv'
<1>1. \A e \in Entry : (Present(e)' <=> Present(e))
  BY HeldSame
<1>2. ASSUME NEW e \in Entry, NotOfRun(e)'
      PROVE  /\ foreseen'[e].final = disk'[e].final
             /\ Present(e)' => /\ foreseen'[e].created = Created(e)'
                               /\ foreseen'[e].parts = disk'[e].parts
  BY <1>2, ForeseenStays
<1>3. ASSUME NEW d \in srcs
      PROVE  /\ plan[d] \in Entry /\ plan[d].dir = d
             /\ foreseen[plan[d]].final = {1} /\ foreseen[plan[d]].parts = 1
             /\ foreseen[plan[d]].created = clock
             /\ \A e \in Entry \ {plan[d]} :
                  e.dir = d /\ e.chain = rid =>
                    /\ foreseen[e].final = {}
                    /\ Present(e)' => ~Present(plan[d])'
  <2>1. PICK p : p = plan[d]
    OBVIOUS
  <2>2. /\ p \in Entry /\ p.dir = d
        /\ foreseen[p].final = {1} /\ foreseen[p].parts = 1 /\ foreseen[p].created = clock
        /\ \A e \in Entry \ {p} :
             e.dir = d /\ e.chain = rid =>
               foreseen[e].final = {} /\ (Present(e) => ~Present(p))
    BY <2>1 DEF ForeseenInv
  <2>3. p = plan'[d]
    BY <2>1
  <2>4. ~Present(p)' => ~Present(plan[d])'
    BY <2>3, Zenon
  <2> QED BY <1>1, <2>1, <2>2, <2>4
<1>4. \A e : NotOfRun(e)' <=> NotOfRun(e)
  BY DEF NotOfRun
<1>5. pc' \in {"writing", "renaming"} =>
        /\ ~NotOfRun(cur)'
        /\ \A e \in Entry \ {cur'} : e.dir = cur'.dir /\ ~NotOfRun(e)' => ~Present(e)'
  <2>1. NotOfRun(cur)' <=> NotOfRun(cur')
    BY DEF NotOfRun
  <2> QED BY <1>1, <1>4, <2>1
<1> QED BY <1>2, <1>3, <1>5 DEF ForeseenInv

LEMMA StartForeseen ==
  ASSUME DirInv, NEW S \in SUBSET Dir, NEW t, NEW id \in RunId,
         NEW forceFull, NEW newKeys,
         NEW stuck, Start(S, t, id, forceFull, newKeys, stuck)
  PROVE  ForeseenInv'
<1>1. TypeOK
  BY DEF DirInv
<1>2. \A e \in Entry : Held(e) /\ (Present(e)' <=> Present(e))
  BY <1>1, StartHeld, HeldSame
<1>3. PICK p : p = plan'
  OBVIOUS
<1>4. /\ pc' = "planned" /\ rid' = id /\ srcs' = S /\ clock' = t
      /\ foreseen' = Imagined(S, p, t) /\ id \notin UsedIds
  BY <1>3 DEF Start
<1>5. \A d \in S : p[d] \in Entry /\ p[d].dir = d
  BY <1>1, <1>3, PlanFolderFits DEF Start
<1>6. \A e \in Entry : (e.dir \in S => e # p[e.dir]) => foreseen'[e] = disk[e]
  BY <1>4, <1>5 DEF Imagined
<1>7. \A d \in S : /\ foreseen'[p[d]].final = {1} /\ foreseen'[p[d]].parts = 1
                   /\ foreseen'[p[d]].created = t
  BY <1>4, <1>5 DEF Imagined
<1>8. \A e \in Entry : e.chain = id => ~Present(e)
  BY <1>4 DEF UsedIds
<1>9. ASSUME NEW e \in Entry, NotOfRun(e)'
      PROVE  /\ foreseen'[e].final = disk'[e].final
             /\ Present(e)' => /\ foreseen'[e].created = Created(e)'
                               /\ foreseen'[e].parts = disk'[e].parts
  <2>1. foreseen'[e] = disk[e]
    BY <1>3, <1>4, <1>6, <1>9 DEF NotOfRun
  <2> QED BY <1>2, <2>1 DEF Held, Created
<1>10. ASSUME NEW d \in S, NEW e \in Entry \ {p[d]}, e.dir = d, e.chain = id
       PROVE  foreseen'[e].final = {} /\ ~Present(e)'
  BY <1>2, <1>6, <1>8, <1>10 DEF Present
<1> QED BY <1>3, <1>4, <1>5, <1>7, <1>9, <1>10 DEF ForeseenInv

LEMMA BeginForeseen ==
  ASSUME DirInv, ForeseenInv, losses = 0, NEW e \in Entry, NEW c, NEW large,
         pc = "running", BeginWrite(e, c, large), e.dir \in todo, ~Present(e),
         e = plan[e.dir] \/ e.chain = rid
  PROVE  ForeseenInv'
<1>1. TypeOK /\ PlanFits /\ TimesInOrder
  BY DEF DirInv
<1>2. /\ UNCHANGED <<clock, losses, rid, srcs, plan, foreseen>>
      /\ cur' = e /\ e.dir \in srcs
  BY <1>1 DEF BeginWrite, TypeOK
<1>3. ~NotOfRun(e)
  BY <1>2 DEF NotOfRun
<1>4. ASSUME NEW f \in Entry \ {e}, f.dir = e.dir, ~NotOfRun(f) PROVE ~Present(f)
  <2>1. f = plan[e.dir] \/ f.chain = rid
    BY <1>4 DEF NotOfRun
  <2> QED BY <1>1, <1>4, <2>1 DEF PlanFits, TimesInOrder
<1> QED BY <1>1, <1>2, <1>3, <1>4, BeginHeld, HeldForeseen

LEMMA RenamePartForeseen ==
  ASSUME DirInv, ForeseenInv, losses = 0, RenamePart
  PROVE  ForeseenInv'
<1>1. PICK x : x = cur
  OBVIOUS
<1>2. /\ x \in Entry /\ pc = "renaming"
      /\ UNCHANGED <<clock, losses, rid, srcs, plan, foreseen, pc, cur>>
      /\ \A e \in Entry \ {x} : Held(e)
  BY <1>1, RenamePartFiles, DiskHeld DEF RenamePart
<1>3. \A e \in Entry \ {x} : (Present(e)' <=> Present(e))
  BY <1>2, HeldSame
<1>4. /\ ~NotOfRun(x)
      /\ \A e \in Entry \ {x} : e.dir = x.dir /\ ~NotOfRun(e) => ~Present(e)
  BY <1>1, <1>2 DEF ForeseenInv
<1>5. \A e : NotOfRun(e)' <=> NotOfRun(e)
  BY <1>2 DEF NotOfRun
<1>6. ASSUME NEW e \in Entry, NotOfRun(e)'
      PROVE  /\ foreseen'[e].final = disk'[e].final
             /\ Present(e)' => /\ foreseen'[e].created = Created(e)'
                               /\ foreseen'[e].parts = disk'[e].parts
  <2>1. \A f \in Entry : NotOfRun(f) => Held(f)
    BY <1>2, <1>4
  <2> QED BY <1>2, <1>6, <2>1, ForeseenStays
<1>7. ASSUME NEW d \in srcs
      PROVE  /\ plan[d] \in Entry /\ plan[d].dir = d
             /\ foreseen[plan[d]].final = {1} /\ foreseen[plan[d]].parts = 1
             /\ foreseen[plan[d]].created = clock
             /\ \A e \in Entry \ {plan[d]} :
                  e.dir = d /\ e.chain = rid =>
                    /\ foreseen[e].final = {}
                    /\ Present(e)' => ~Present(plan[d])'
  <2>1. PICK p : p = plan[d]
    OBVIOUS
  <2>2. /\ p \in Entry /\ p.dir = d
        /\ foreseen[p].final = {1} /\ foreseen[p].parts = 1 /\ foreseen[p].created = clock
        /\ \A e \in Entry \ {p} :
             e.dir = d /\ e.chain = rid =>
               foreseen[e].final = {} /\ (Present(e) => ~Present(p))
    BY <1>2, <2>1 DEF ForeseenInv
  <2>3. ASSUME NEW e \in Entry \ {p}, e.dir = d, e.chain = rid, Present(e)'
        PROVE  ~Present(p)'
    <3>1. ~NotOfRun(e) /\ ~NotOfRun(p)
      BY <2>1, <2>2, <2>3 DEF NotOfRun
    <3>2. CASE e = x
      BY <1>3, <1>4, <2>2, <2>3, <3>1, <3>2
    <3>3. CASE e # x
      <4>1. Present(e) /\ p # x
        BY <1>3, <1>4, <2>2, <2>3, <3>1, <3>3
      <4> QED BY <1>3, <2>2, <2>3, <4>1
    <3> QED BY <3>2, <3>3
  <2>4. p = plan'[d]
    BY <1>2, <2>1
  <2>5. ~Present(p)' => ~Present(plan[d])'
    BY <2>4, Zenon
  <2> QED BY <2>1, <2>2, <2>3, <2>5
<1>8. /\ ~NotOfRun(cur)'
      /\ \A e \in Entry \ {cur'} : e.dir = cur'.dir /\ ~NotOfRun(e)' => ~Present(e)'
  <2>1. x = cur'
    BY <1>1, <1>2
  <2>2. ~NotOfRun(x)' /\ \A e \in Entry \ {x} : e.dir = x.dir /\ ~NotOfRun(e)' => ~Present(e)'
    BY <1>2, <1>3, <1>4, <1>5
  <2> QED BY <2>1, <2>2, Zenon
<1> QED BY <1>2, <1>6, <1>7, <1>8 DEF ForeseenInv

LEMMA ForeseenNext ==
  ASSUME DirInv, ForeseenInv, [Next]_vars
  PROVE  ForeseenInv'
<1>0. TypeOK /\ RunKnown
  BY DEF DirInv
<1>1. CASE losses' # 0 \/ pc' \in {"idle", "cleaning"}
  BY <1>1 DEF ForeseenInv
<1>2. CASE losses' = 0 /\ pc' \notin {"idle", "cleaning"}
  <2>1. losses = 0
    <3>1. losses <= losses' /\ losses \in Nat
      BY <1>0, LossesGrow, MaxLossesAssumption DEF TypeOK
    <3> QED BY <1>2, <3>1
  <2>2. CASE UNCHANGED vars
    <3>1. UNCHANGED <<disk, clock, losses, pc, rid, srcs, plan, foreseen, cur>>
      BY <2>2 DEF vars, runVars
    <3>2. pc \in {"planned", "running", "writing", "renaming"}
      BY <1>0, <1>2, <3>1 DEF TypeOK, Steps
    <3>3. \A e \in Entry : Held(e)
      BY <3>1, DiskHeld
    <3>4. pc \in {"writing", "renaming"} =>
            /\ cur \in Entry /\ ~NotOfRun(cur)
            /\ \A e \in Entry \ {cur} : e.dir = cur.dir /\ ~NotOfRun(e) => ~Present(e)
      BY <1>0, <2>1 DEF ForeseenInv, RunKnown
    <3> QED BY <2>1, <3>1, <3>2, <3>3, <3>4, HeldForeseen
  <2>3. ASSUME NEW S \in SUBSET Dir, NEW t \in (clock + 1) .. MaxTime,
               NEW id \in RunId, NEW forceFull, NEW newKeys,
               NEW stuck, Start(S, t, id, forceFull, newKeys, stuck)
        PROVE  ForeseenInv'
    BY <2>3, StartForeseen
  <2>4. CASE \/ \E k \in Key : ObtainKeys(k)
             \/ Written
             \/ \E misses \in BOOLEAN : SetDone(misses)
    <3>1. /\ UNCHANGED <<disk, clock, losses, rid, srcs, plan, foreseen>>
          /\ pc \in {"planned", "writing", "renaming"} /\ pc' # "writing"
          /\ pc' = "renaming" => pc = "writing" /\ cur' = cur
      BY <2>4 DEF ObtainKeys, Written, SetDone
    <3>2. \A e \in Entry : Held(e)
      BY <3>1, DiskHeld
    <3>3. pc \in {"writing", "renaming"} =>
            /\ cur \in Entry /\ ~NotOfRun(cur)
            /\ \A e \in Entry \ {cur} : e.dir = cur.dir /\ ~NotOfRun(e) => ~Present(e)
      BY <1>0, <2>1 DEF ForeseenInv, RunKnown
    <3> QED BY <2>1, <3>1, <3>2, <3>3, HeldForeseen
  <2>5. ASSUME NEW d \in Dir, NEW c \in 1 .. MaxParts, NEW large \in BOOLEAN,
               BeginDiff(d, c, large)
        PROVE  ForeseenInv'
    <3>1. PICK e : e = plan[d]
      OBVIOUS
    <3>2. e \in Entry /\ e.dir = d /\ ~Present(e) /\ d \in todo /\ pc = "running"
      BY <2>5, <3>1 DEF BeginDiff, DirInv, PlanFits
    <3>3. BeginWrite(e, c, large)
      BY <2>5, <3>1 DEF BeginDiff, BeginWrite
    <3> QED BY <2>1, <3>1, <3>2, <3>3, BeginForeseen
  <2>6. ASSUME NEW d \in Dir, NEW c \in 1 .. MaxParts, BeginFull(d, c)
        PROVE  ForeseenInv'
    <3>1. PICK e : e = FullEntry(d, rid)
      OBVIOUS
    <3>2. e \in Entry /\ e.dir = d /\ e.chain = rid /\ d \in todo /\ pc = "running"
      BY <1>0, <2>6, <3>1, CatalogAssumption DEF BeginFull, RunKnown, FullEntry, Entry
    <3>3. ~Present(e)
      BY <3>2 DEF DirInv, TimesInOrder
    <3>4. BeginWrite(e, c, FALSE)
      BY <2>6, <3>1 DEF BeginFull, BeginWrite
    <3> QED BY <2>1, <3>2, <3>3, <3>4, BeginForeseen
  <2>7. CASE WritePart
    <3>1. /\ UNCHANGED <<clock, losses, rid, srcs, plan, foreseen, pc, cur>>
          /\ pc = "writing"
      BY <2>7 DEF WritePart
    <3>2. \A e \in Entry : Held(e)
      BY <1>0, <2>7, WritePartHeld
    <3>3. /\ cur \in Entry /\ ~NotOfRun(cur)
          /\ \A e \in Entry \ {cur} : e.dir = cur.dir /\ ~NotOfRun(e) => ~Present(e)
      BY <1>0, <2>1, <3>1 DEF ForeseenInv, RunKnown
    <3> QED BY <2>1, <3>1, <3>2, <3>3, HeldForeseen
  <2>8. CASE RenamePart
    BY <2>1, <2>8, RenamePartForeseen
  <2>9. CASE \/ Abandon \/ RenameFails \/ NoRetention \/ DeleteFails \/ Crash
             \/ \E L \in SUBSET logs : DeleteLogs(L)
             \/ \E stuck \in SUBSET (1 .. count) : WriteFails(stuck)
             \/ StartRetention
             \/ \E r \in removals : DeletePart(r)
    BY <1>2, <2>9 DEF Abandon, RenameFails, NoRetention, DeleteFails, Crash, DeleteLogs,
       WriteFails, EndRun, StartRetention, DeletePart
  <2>10. CASE \E e \in Entry : \E k \in disk[e].final : Lose(e, k)
    BY <1>0, <1>2, <2>1, <2>10 DEF Lose
  <2> QED BY <2>2, <2>3, <2>4, <2>5, <2>6, <2>7, <2>8, <2>9, <2>10 DEF Next
<1> QED BY <1>1, <1>2

\* When the run has written what it planned, the foreseen directory has the same
\* sets, as complete and as old, as the real one.
LEMMA ForeseenAgrees ==
  ASSUME DirInv, NumberInv, ForeseenInv, losses = 0, pc = "running", AsPlanned,
         NEW e \in Entry
  PROVE  /\ Foreseen!Present(e) <=> Present(e)
         /\ Foreseen!Complete(e) <=> Complete(e)
         /\ Foreseen!Incomplete(e) <=> Incomplete(e)
         /\ Foreseen!Unreadable(e) <=> Unreadable(e)
         /\ Present(e) => Foreseen!Created(e) = Created(e)
<1> USE DEF Foreseen!Present, Foreseen!Complete, Foreseen!Incomplete, Foreseen!Unreadable,
        Foreseen!HasGap, Foreseen!HasTrailer, Foreseen!Created,
        Present, Complete, Incomplete, Unreadable, HasGap, HasTrailer
<1>1. CASE NotOfRun(e)
  BY <1>1 DEF ForeseenInv
<1>2. CASE e.dir \in srcs /\ e = plan[e.dir]
  <2>1. Complete(e) /\ disk[e].run = rid
    BY <1>2 DEF AsPlanned
  <2>2. Created(e) = clock
    BY <2>1 DEF NumberInv, RunTimes, CompleteSets
  <2>3. foreseen[e].final = {1} /\ foreseen[e].parts = 1 /\ foreseen[e].created = clock
    BY <1>2 DEF ForeseenInv
  <2> QED BY <2>1, <2>2, <2>3
<1>3. CASE e.dir \in srcs /\ e # plan[e.dir] /\ e.chain = rid
  <2>1. Present(plan[e.dir])
    BY <1>3 DEF AsPlanned
  <2>2. foreseen[e].final = {} /\ ~Present(e)
    BY <1>3, <2>1 DEF ForeseenInv
  <2> QED BY <2>2
<1> QED BY <1>1, <1>2, <1>3 DEF NotOfRun

LEMMA SameCardinality ==
  ASSUME NEW S
  PROVE  Foreseen!Cardinality(S) = Cardinality(S)
BY DEF Foreseen!Cardinality, Cardinality

\* The same sets make retention choose the same.
LEMMA SameCandidates ==
  ASSUME \A e \in Entry :
           /\ Foreseen!Present(e) <=> Present(e)
           /\ Foreseen!Complete(e) <=> Complete(e)
           /\ Foreseen!Incomplete(e) <=> Incomplete(e)
           /\ Present(e) => Foreseen!Created(e) = Created(e),
         NEW d
  PROVE  Foreseen!RetentionCandidates(d) = RetentionCandidates(d)
<1> USE DEF Foreseen!FullOf, FullOf, Foreseen!IsDiff, IsDiff, Foreseen!Removal, Removal,
        Foreseen!Entry, Entry
<1>1. Foreseen!CompleteSets = CompleteSets
  BY DEF Foreseen!CompleteSets, CompleteSets
<1>2. \A e \in CompleteSets : Foreseen!Created(e) = Created(e)
  BY DEF CompleteSets, Complete
<1>3. Foreseen!Fulls(d) = Fulls(d) /\ Fulls(d) \subseteq CompleteSets
  BY <1>1 DEF Foreseen!Fulls, Fulls
<1>4. \A b : Foreseen!DiffsOf(b) = DiffsOf(b)
  BY DEF Foreseen!DiffsOf, DiffsOf
<1>5. Foreseen!OldFulls(d) = OldFulls(d)
  <2>1. \A b \in Fulls(d) : {c \in Fulls(d) : Foreseen!Created(c) > Foreseen!Created(b)}
                              = {c \in Fulls(d) : Created(c) > Created(b)}
    BY <1>2, <1>3
  <2> QED BY <1>3, <2>1, SameCardinality DEF Foreseen!OldFulls, OldFulls
<1>6. OldFulls(d) \subseteq Fulls(d)
  BY DEF OldFulls
<1>7. Foreseen!OldChainRemovals(d) = OldChainRemovals(d)
  <2>1. \A e \in CompleteSets : FullOf(e) \in OldFulls(d) =>
          Foreseen!Created(FullOf(e)) = Created(FullOf(e))
    BY <1>2, <1>3, <1>6
  <2> QED BY <1>1, <1>5, <2>1 DEF Foreseen!OldChainRemovals, OldChainRemovals
<1>8. \A b : Foreseen!Surplus(b) = Surplus(b)
  BY <1>1, <1>4, SameCardinality DEF Foreseen!Surplus, Surplus
<1>9. Foreseen!SurplusRemovals(d) = SurplusRemovals(d)
  <2> DEFINE B == IF Keep = 0 THEN Fulls(d) ELSE Fulls(d) \ OldFulls(d)
             Old(b) == {Removal(e, 2, Created(b)) : e \in Surplus(b)}
             New(b) == {Foreseen!Removal(e, 2, Foreseen!Created(b)) : e \in Foreseen!Surplus(b)}
  <2>1. \A b \in B : New(b) = Old(b)
    BY <1>2, <1>3, <1>8
  <2>2. SurplusRemovals(d) = IF KeepDiffs = 0 THEN {} ELSE UNION {Old(b) : b \in B}
    BY DEF SurplusRemovals
  <2>3. Foreseen!SurplusRemovals(d) = IF KeepDiffs = 0 THEN {} ELSE UNION {New(b) : b \in B}
    BY <1>3, <1>5 DEF Foreseen!SurplusRemovals
  <2> HIDE DEF B, Old, New
  <2>4. {New(b) : b \in B} = {Old(b) : b \in B}
    BY <2>1
  <2> QED BY <2>2, <2>3, <2>4
<1>10. Foreseen!IncompleteRemovals(d) = IncompleteRemovals(d)
  <2>1. \A f \in Entry : Incomplete(f) => Foreseen!Created(f) = Created(f)
    BY DEF Incomplete
  <2> QED BY <1>1, <1>2, <2>1 DEF Foreseen!IncompleteRemovals, IncompleteRemovals
<1> QED BY <1>7, <1>9, <1>10 DEF Foreseen!RetentionCandidates, RetentionCandidates

LEMMA PreviewExact ==
  ASSUME DirInv, NumberInv, ForeseenInv, StartRetention, losses = 0, AsPlanned
  PROVE  removals' = UNION {RetentionPreview(d) : d \in srcs \ hold}
<1>1. /\ pc = "running" /\ ~RetentionRefused(srcs)
      /\ removals' = UNION {RetentionCandidates(d) : d \in srcs \ hold}
  BY DEF StartRetention
<1>2. \A e \in Entry : /\ Foreseen!Present(e) <=> Present(e)
                       /\ Foreseen!Complete(e) <=> Complete(e)
                       /\ Foreseen!Incomplete(e) <=> Incomplete(e)
                       /\ Foreseen!Unreadable(e) <=> Unreadable(e)
                       /\ Present(e) => Foreseen!Created(e) = Created(e)
  BY <1>1, ForeseenAgrees
<1>3. ~Foreseen!RetentionRefused(srcs)
  BY <1>1, <1>2 DEF Foreseen!RetentionRefused, RetentionRefused, Foreseen!Entry, Entry
<1>4. \A d : Foreseen!RetentionCandidates(d) = RetentionCandidates(d)
  BY <1>2, SameCandidates
<1> QED BY <1>1, <1>3, <1>4 DEF RetentionPreview

-----------------------------------------------------------------------------
(* The theorems *)

\* The inductive invariant of the backup directory holds in every run.
THEOREM DirInvariant == Spec => []DirInv
  BY DirInvInit, DirInvNext, PTL DEF Spec

\* However runs are interrupted, and whatever they plan, write and remove: as
\* long as nobody else removes files, no complete differential is without its
\* complete, older full backup under the same keys.
THEOREM UsableDifferentials == Spec => []DifferentialsUsable
<1>1. DirInv => DifferentialsUsable
  BY DEF DirInv
<1> QED BY <1>1, DirInvariant, PTL

\* No part file is ever renamed onto an existing one, also after interrupted
\* runs and after losses.
THEOREM NoClash == Spec => []NoNameClash
<1>1. DirInv => NoNameClash
  BY DEF DirInv
<1> QED BY <1>1, DirInvariant, PTL

\* For any number of directories: the log of the run that wrote a complete set
\* stays, whatever retention of other directories deletes (deleteOrphanLogFiles).
THEOREM LogsStay == Spec => []LogsKept
<1>1. Init => LogInv
  BY DEF Init, NoRun, LogInv, LogsKept, RunLogged, NoSets, Nothing, CompleteSets,
     Complete, Present
<1>2. LogInv => LogsKept
  BY DEF LogInv
<1> QED BY <1>1, <1>2, LogInvNext, DirInvariant, PTL DEF Spec

\* The order of the sets of a directory holds in every run.
THEOREM NumberInvariant == Spec => []NumberInv
<1>1. Init => LogInv
  BY DEF Init, NoRun, LogInv, LogsKept, RunLogged, NoSets, Nothing, CompleteSets,
     Complete, Present
<1>2. LogInv /\ NumberInv /\ DirInv /\ [Next]_vars => LogInv' /\ NumberInv'
  BY LogInvNext, NumberInvNext
<1> QED BY <1>1, <1>2, NumberInvInit, DirInvariant, PTL DEF Spec

\* For any number of directories, runs and differentials: as long as nobody else
\* removes files, a new differential has a higher number than every one its chain
\* ever had under a final name, also after interrupted runs and after retention
\* (planFolder, MaxNumber).
THEOREM NumbersNotReused == Spec => []NumberNotReused
<1>1. NumberInv => NumberNotReused
  BY DEF NumberInv
<1> QED BY <1>1, NumberInvariant, PTL

\* Whatever was interrupted or lost before: deleting spares the sets of the run
\* and takes a complete full backup after all its complete differentials, and
\* while nobody else removes files more than Keep full backups are left when one
\* goes (retentionCandidates, deleteSetFiles).
THEOREM SafeRetention == Spec => RetentionIsSafe
<1>1. ASSUME DirInv, NumberInv, NEW r \in removals
      PROVE  LET e == r.entry IN
             DeletePart(r) /\ Complete(e) =>
               /\ disk[e].run # rid
               /\ ~IsDiff(e) =>
                    /\ \A f \in CompleteSets : FullOf(f) = e => f = e
                    /\ losses = 0 => Cardinality(Fulls(e.dir)) > Keep
  BY <1>1, DeletePartSafe
<1>2. DirInv /\ NumberInv =>
        \A r \in removals :
          LET e == r.entry IN
          DeletePart(r) /\ Complete(e) =>
            /\ disk[e].run # rid
            /\ ~IsDiff(e) =>
                 /\ \A f \in CompleteSets : FullOf(f) = e => f = e
                 /\ losses = 0 => Cardinality(Fulls(e.dir)) > Keep
  BY <1>1
<1> QED BY <1>2, DirInvariant, NumberInvariant, PTL DEF RetentionIsSafe

\* When every set was written as planned and nobody else removed files, retention
\* deletes exactly what the plan announced, in every directory that is not held
\* back (plan.RetentionPreview, SPEC-gui 11.3).
THEOREM PreviewIsExact == Spec => PreviewKept
<1>1. Init => ForeseenInv
  BY DEF Init, NoRun, ForeseenInv
<1>2. DirInv /\ ForeseenInv /\ [Next]_vars => ForeseenInv'
  BY ForeseenNext
<1>3. DirInv /\ NumberInv /\ ForeseenInv =>
        (StartRetention /\ losses = 0 /\ AsPlanned
           => removals' = UNION {RetentionPreview(d) : d \in srcs \ hold})
  BY PreviewExact
<1> QED BY <1>1, <1>2, <1>3, DirInvariant, NumberInvariant, PTL DEF Spec, PreviewKept

\* The directory implements RestorePoints: until somebody else removes files,
\* sets become complete one at a time, a differential only next to its full
\* backup, and retention, even when it is cut short, takes a full backup last.
THEOREM PointsRefinement == Spec => ImplementsRestorePoints
<1>1. Init => RP!Init
  BY DirInvInit DEF Init, RP!Init, NoSets, Nothing, CompleteSets, Complete, Present
<1>2. DirInv /\ [Next]_vars => [RP!Next]_<<CompleteSets, losses > 0>>
  <2> SUFFICES ASSUME DirInv, [Next]_vars PROVE [RP!Next]_<<CompleteSets, losses > 0>>
    OBVIOUS
  <2>1. DirInv' /\ PointsStep
    BY DirInvNext
  <2>2. losses \in Nat /\ losses' \in Nat /\ losses <= losses'
    BY <2>1, MaxLossesAssumption, LossesGrow DEF DirInv, TypeOK
  <2>3. CASE losses' = 0
    <3>1. (losses > 0) = FALSE /\ (losses' > 0) = FALSE
      BY <2>2, <2>3
    <3>2. CompleteSets' = CompleteSets \/ RP!Step
      BY <2>1, <2>3 DEF PointsStep
    <3> QED BY <3>1, <3>2 DEF RP!Next
  <2>4. CASE losses' # 0
    <3>1. (losses' > 0) = TRUE
      BY <2>2, <2>4
    <3> QED BY <3>1 DEF RP!Next
  <2> QED BY <2>3, <2>4
<1> QED BY <1>1, <1>2, DirInvariant, PTL DEF Spec, ImplementsRestorePoints, RP!Spec
=============================================================================
