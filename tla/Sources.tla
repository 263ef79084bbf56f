------------------------------- MODULE Sources -------------------------------
(***************************************************************************)
(* The source directories of config.yaml and their backup names            *)
(* (internal/workflow/plan/sources.go).  The backup name of a source is    *)
(* its base name; sources that share a base name get an alias made from    *)
(* the rest of their path.                                                 *)
(***************************************************************************)
EXTENDS Integers, Sequences

CONSTANTS
  Path,      \* configured paths, resolved
  PathKey,   \* PathKey[p]: fsx.NormalizePathKey, equal for the same directory
  Plain,     \* Plain[p]: the backup name that is the base name of p
  Aliased    \* Aliased[p]: the backup name with the alias of p

\* A collision of aliases is possible (`Aliased` need not be injective), and so
\* are two spellings of one directory.
ASSUME SourcesAssumption ==
  DOMAIN PathKey = Path /\ DOMAIN Plain = Path /\ DOMAIN Aliased = Path

\* markIdenticalSourceDuplicates: an earlier valid source is the same directory.
IdenticalDuplicate(paths, readable, i) ==
  /\ paths[i] \in readable
  /\ \E j \in 1 .. i - 1 : /\ paths[j] \in readable
                           /\ PathKey[paths[j]] = PathKey[paths[i]]

\* groupSourcesByBasename: the valid sources, duplicates left out, with the base
\* name of source i.
Group(paths, readable, i) ==
  {j \in DOMAIN paths : /\ paths[j] \in readable
                        /\ ~IdenticalDuplicate(paths, readable, j)
                        /\ Plain[paths[j]] = Plain[paths[i]]}

\* assignNamesByGroup: the name of a source of a group ...
AssignedName(paths, readable, i) ==
  IF Group(paths, readable, i) = {i} THEN Plain[paths[i]] ELSE Aliased[paths[i]]

\* ... and whether its alias is that of another source of the group.
AliasCollision(paths, readable, i) ==
  \E j \in Group(paths, readable, i) \ {i} : Aliased[paths[j]] = Aliased[paths[i]]

\* fillMissingBackupNames: a duplicate has the name of its counterpart, the source
\* of the same directory that is backed up, if there is one; any other source has
\* its base name.
FilledName(paths, readable, i) ==
  LET named == {j \in DOMAIN paths :
                  /\ j \in Group(paths, readable, j) /\ ~AliasCollision(paths, readable, j)
                  /\ PathKey[paths[j]] = PathKey[paths[i]]}
  IN IF IdenticalDuplicate(paths, readable, i) /\ named # {}
     THEN AssignedName(paths, readable, CHOOSE j \in named : TRUE)
     ELSE Plain[paths[i]]

\* ResolveSources.  readable are the paths that ValidateSourceDirectory accepts.
ResolveSources(paths, readable) ==
  [i \in DOMAIN paths |->
     LET skip == IdenticalDuplicate(paths, readable, i)
         valid == i \in Group(paths, readable, i)
     IN [path |-> paths[i],
         skip |-> skip,
         err  |-> \/ paths[i] \notin readable
                  \/ (valid /\ AliasCollision(paths, readable, i)),
         name |-> IF valid THEN AssignedName(paths, readable, i)
                           ELSE FilledName(paths, readable, i)]]

\* The sources a backup run backs up.
Runnable(sources) == {i \in DOMAIN sources : ~sources[i].err /\ ~sources[i].skip}
=============================================================================
