------------------------------- MODULE Catalog -------------------------------
(***************************************************************************)
(* What RestoreSafe reads from the files of a backup directory without a   *)
(* password, and what a backup run plans from it: the inventory            *)
(* (internal/format/catalog), the choice between a full and a differential *)
(* backup, and the sets that retention removes (internal/workflow/plan).   *)
(* Everything is a function of disk, the content of the directory.         *)
(***************************************************************************)
EXTENDS Integers, FiniteSets

CONSTANTS
  Dir,            \* backup names of the source directories, numbered in the
                  \* alphabetical order retention takes them in
  RunId,          \* run IDs; the run ID of a full backup is its chain ID
  Key,            \* key set IDs
  MaxDiffNumber,  \* naming.MaxDiffNumber
  FullInterval,   \* differential.full_backup_interval_days
  Keep,           \* retention_keep
  KeepDiffs,      \* differential.retention_keep_differentials
  MaxParts,       \* bound: parts of a set
  MaxTime         \* bound: readings of the clock

VARIABLE disk     \* disk[e]: the files of set e

None == "none"

ASSUME CatalogAssumption ==
  /\ Dir \subseteq Nat
  /\ IsFiniteSet(RunId) /\ None \notin RunId /\ None \notin Key
  /\ MaxDiffNumber \in Nat /\ FullInterval \in Nat
  /\ Keep \in Nat /\ KeepDiffs \in Nat
  /\ MaxParts \in Nat \ {0} /\ MaxTime \in Nat

\* naming.BackupEntry: directory, chain and differential number (0: full).  The
\* date is left out: the other three identify a set.
Entry == [dir : Dir, chain : RunId, n : 0 .. MaxDiffNumber]

FullOf(e) == [dir |-> e.dir, chain |-> e.chain, n |-> 0]
IsDiff(e) == e.n > 0

\* The files of a set.  final and temp are the numbers of its parts under
\* their final and under their temporary names; the rest is its content:
\* created_utc, run_id and the key set ID of the header, the part count of the
\* trailer, and whether the data section is at least max_size_percent of the
\* full backup's.  Parts are written within the tick of their header, so
\* created stands for the modification time of the parts too.
SetFiles == [final : SUBSET (1 .. MaxParts), temp : SUBSET (1 .. MaxParts),
             created : 0 .. MaxTime, run : RunId \cup {None},
             key : Key \cup {None}, parts : 0 .. MaxParts, large : BOOLEAN]
Nothing == [final |-> {}, temp |-> {}, created |-> 0, run |-> None,
            key |-> None, parts |-> 0, large |-> FALSE]

-----------------------------------------------------------------------------
(* The catalog: what the files say without a password *)

Present(e) == disk[e].final # {}

\* checkContinuity: a part before the last one present is missing.
HasGap(e) == \E k \in disk[e].final : \E j \in 1 .. k : j \notin disk[e].final

\* container.Open: the trailer is at the end of part number `parts`, and its
\* part count is the number of parts present.
HasTrailer(e) == disk[e].parts \in disk[e].final

Complete(e) == Present(e) /\ ~HasGap(e) /\ HasTrailer(e)

\* The set is not complete and its error is an ErrIncomplete ...
Incomplete(e) == Present(e) /\ ~HasGap(e) /\ ~HasTrailer(e)

\* ... or another one (ErrMissingParts): Retention gives up.
Unreadable(e) == HasGap(e)

CompleteSets == {e \in Entry : Complete(e)}
Created(e) == disk[e].created

NewestOf(S) == CHOOSE e \in S : \A f \in S : Created(f) <= Created(e)

\* CurrentKeySet: the key set of the newest complete set.
CurrentKeySet ==
  IF CompleteSets = {} THEN None ELSE disk[NewestOf(CompleteSets)].key

\* The IDs newRunID avoids.
UsedIds == {e.chain : e \in {f \in Entry : Present(f)}}
             \cup {disk[e].run : e \in CompleteSets}

-----------------------------------------------------------------------------
(* Planning: plan.KeysFor, plan.Folders, plan.Retention *)

Fulls(d) == {e \in CompleteSets : e.dir = d /\ ~IsDiff(e)}
DiffsOf(b) == {e \in Entry : Present(e) /\ IsDiff(e) /\ FullOf(e) = b}

\* Faulty variant: counts only complete differentials.
MaxCompleteNumber(b) ==
  CHOOSE m \in 0 .. MaxDiffNumber :
    /\ \A e \in DiffsOf(b) : Complete(e) => e.n <= m
    /\ m = 0 \/ \E e \in DiffsOf(b) : Complete(e) /\ e.n = m

\* The highest number of the chain of b, complete or not.
MaxNumber(b) ==
  CHOOSE m \in 0 .. MaxDiffNumber :
    /\ \A e \in DiffsOf(b) : e.n <= m
    /\ m = 0 \/ \E e \in DiffsOf(b) : e.n = m

\* planFolder: the entry planned for directory d by run id at time t, with key
\* set ks (None: new keys).
PlanFolder(d, id, t, ks, forceFull) ==
  LET full == [dir |-> d, chain |-> id, n |-> 0]
      base == NewestOf(Fulls(d))
      newestDiff == NewestOf(DiffsOf(base) \cap CompleteSets)
  IN IF \/ forceFull
        \/ ks = None
        \/ Fulls(d) = {}
        \/ disk[base].key # ks
        \/ t - Created(base) >= FullInterval
        \/ MaxNumber(base) >= MaxDiffNumber
        \/ DiffsOf(base) \cap CompleteSets # {} /\ disk[newestDiff].large
     THEN full
     ELSE [dir |-> d, chain |-> base.chain, n |-> MaxNumber(base) + 1]

\* Faulty variant: keeps one chain too few.
OldFullsOffByOne(d) ==
  {b \in Fulls(d) : Cardinality({c \in Fulls(d) : Created(c) > Created(b)}) + 1 >= Keep}

\* The chains of d with a complete full backup that has more than Keep - 1
\* newer ones.
OldFulls(d) ==
  {b \in Fulls(d) : Cardinality({c \in Fulls(d) : Created(c) > Created(b)}) >= Keep}

\* Differentials of a kept chain beyond the newest KeepDiffs.
Surplus(b) ==
  LET diffs == DiffsOf(b) \cap CompleteSets
  IN {e \in diffs : Cardinality({f \in diffs : f.n > e.n}) >= KeepDiffs}

\* A set to remove.  retentionCandidates lists the sets of old chains first,
\* then surplus differentials, then incomplete sets: class 1, 2, 3.
Removal(e, class, chainAge) == [entry |-> e, class |-> class, age |-> chainAge]

\* Faulty variant: only the full backup of an old chain.
OldFullRemovals(d) ==
  IF Keep = 0 THEN {} ELSE {Removal(e, 1, Created(e)) : e \in OldFulls(d)}

OldChainRemovals(d) ==
  IF Keep = 0 THEN {}
  ELSE {Removal(e, 1, Created(FullOf(e))) :
          e \in {f \in CompleteSets : FullOf(f) \in OldFulls(d)}}

SurplusRemovals(d) ==
  IF KeepDiffs = 0 THEN {}
  ELSE UNION {{Removal(e, 2, Created(b)) : e \in Surplus(b)} :
                b \in IF Keep = 0 THEN Fulls(d) ELSE Fulls(d) \ OldFulls(d)}

IncompleteRemovals(d) ==
  {Removal(e, 3, 0) :
     e \in {f \in Entry : /\ f.dir = d
                          /\ Incomplete(f)
                          /\ \E g \in CompleteSets : g.dir = d /\ Created(f) < Created(g)}}

RetentionCandidates(d) ==
  OldChainRemovals(d) \cup SurplusRemovals(d) \cup IncompleteRemovals(d)

RetentionRefused(S) == \E e \in Entry : e.dir \in S /\ Unreadable(e)
=============================================================================
