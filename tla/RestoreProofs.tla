---------------------------- MODULE RestoreProofs ----------------------------
(***************************************************************************)
(* What a restore gives back is what was backed up, for any files, folders *)
(* and changes of the source directory while a set is written.             *)
(*                                                                         *)
(* The argument follows a file through the walk.  Its change time only     *)
(* grows, so that a file with the change time that was read when it was    *)
(* opened has not changed since: what was copied of it is a beginning of   *)
(* its content (CopyInv).  The walk comes to every path at most once, to a *)
(* folder before its files (WalkInv), and so the TAR has each file once    *)
(* (SoundSet); a file that nobody has touched since the run began is still *)
(* ahead of the walk or told by the manifest (TrueSoFar).  A restore then  *)
(* meets in the sections exactly the files that it has not restored yet    *)
(* (RestoreInv).                                                           *)
(***************************************************************************)
EXTENDS Restore, SequenceTheorems, TLAPS

-----------------------------------------------------------------------------
(* Manifests.                                                              *)

\* Files, folders and the source directory are different paths.
LEMMA Paths ==
    /\ \A f \in File : f \notin Folder /\ f # Root
    /\ \A d \in Folder : d \notin File /\ d # Root
    /\ \A f \in File : FolderOf[f] \in Folder \cup {Root}
  BY ArchiveAssumption

\* The entries have one of three types.
LEMMA Records ==
    /\ \A e \in FileRecord : /\ e.type = "file" /\ e.inSet \in BOOLEAN /\ e.stale \in BOOLEAN
                             /\ e.void \in BOOLEAN /\ e.size \in Nat /\ e.chg \in Nat
                             /\ e.mod \in Nat /\ e.hash \in Seq(Nat)
                             /\ e.origin \in {"full", "diff"}
    /\ \A e \in SkippedRecord : e.type = "skipped" /\ e.void \in BOOLEAN
    /\ DirEntry.type = "dir"
  BY DEF FileRecord, SkippedRecord, DirEntry

\* An entry e of file f that is not in the TAR of a set of kind k.
NotStored(k, f, e, b) ==
    e.type = "file" =>
       /\ ~e.inSet /\ k = "diff" /\ e.origin = "full"
       /\ e.void => e.stale
       /\ IsFile(b, f) /\ e.hash = b[f].hash /\ e.size = b[f].size

\* An entry e of file f with the content x in the TAR.
IsStored(k, e, x) ==
    /\ e.type = "file" /\ e.inSet /\ e.origin = k /\ ~e.stale /\ ~e.void
    /\ Len(e.hash) = e.size /\ x = e.hash

\* The file f can be added to the manifest m.
Fits(m, f) ==
    /\ f \notin DOMAIN m
    /\ FolderOf[f] # Root => FolderOf[f] \in DOMAIN m /\ m[FolderOf[f]].type = "dir"

\* The manifest n is m with the entry e of file f.
AddsFile(n, m, f, e) ==
    /\ DOMAIN n = DOMAIN m \cup {f} /\ n[f] = e
    /\ \A x \in DOMAIN m : n[x] = m[x]
    /\ DOMAIN n \subseteq File \cup Folder
    /\ \A p \in DOMAIN n : \/ p \in File /\ n[p] \in FileRecord \cup SkippedRecord
                           \/ p \in Folder /\ n[p] \in {DirEntry} \cup SkippedRecord
    /\ \A g \in File : g # f => (IsFile(n, g) <=> IsFile(m, g))
    /\ IsFile(n, f) <=> e.type = "file"
    /\ \A g \in File : g \in DOMAIN n /\ FolderOf[g] # Root =>
          FolderOf[g] \in DOMAIN n /\ n[FolderOf[g]].type = "dir"

LEMMA PutFile ==
    ASSUME NEW k, NEW m, NEW t, NEW b, SoundSet(k, m, t, b),
           NEW f \in File, Fits(m, f), NEW e \in FileRecord \cup SkippedRecord,
           NEW n, n = Put(m, f, e)
    PROVE  AddsFile(n, m, f, e)
<1>1. DOMAIN n = DOMAIN m \cup {f} /\ n[f] = e /\ \A x \in DOMAIN m : n[x] = m[x]
  <2>1. /\ DOMAIN n = DOMAIN m \cup {f} /\ n[f] = e
        /\ \A x \in DOMAIN m : x # f => n[x] = m[x]
    BY DEF Put
  <2> QED
    BY <2>1 DEF Fits
<1>2. /\ DOMAIN m \subseteq File \cup Folder
      /\ \A p \in DOMAIN m : \/ p \in File /\ m[p] \in FileRecord \cup SkippedRecord
                             \/ p \in Folder /\ m[p] \in {DirEntry} \cup SkippedRecord
      /\ \A g \in File : g \in DOMAIN m /\ FolderOf[g] # Root =>
            FolderOf[g] \in DOMAIN m /\ m[FolderOf[g]].type = "dir"
  BY DEF SoundSet
<1>3. \A p \in DOMAIN n : \/ p \in File /\ n[p] \in FileRecord \cup SkippedRecord
                          \/ p \in Folder /\ n[p] \in {DirEntry} \cup SkippedRecord
  BY <1>1, <1>2
<1>4. \A g \in File : g # f => (IsFile(n, g) <=> IsFile(m, g))
  BY <1>1 DEF IsFile
<1>5. IsFile(n, f) <=> e.type = "file"
  BY <1>1 DEF IsFile
<1>6. \A g \in File : g \in DOMAIN n /\ FolderOf[g] # Root =>
         FolderOf[g] \in DOMAIN n /\ n[FolderOf[g]].type = "dir"
  <2> SUFFICES ASSUME NEW g \in File, g \in DOMAIN n, FolderOf[g] # Root
               PROVE  FolderOf[g] \in DOMAIN n /\ n[FolderOf[g]].type = "dir"
    OBVIOUS
  <2>1. FolderOf[g] \in DOMAIN m /\ m[FolderOf[g]].type = "dir"
    BY <1>1, <1>2 DEF Fits
  <2> QED
    BY <1>1, <2>1
<1> QED
  BY <1>1, <1>2, <1>3, <1>4, <1>5, <1>6 DEF AddsFile

\* A new entry of a file that is not stored.
LEMMA SoundAdd ==
    ASSUME NEW k, NEW m, NEW t, NEW b, SoundSet(k, m, t, b),
           NEW f \in File, Fits(m, f), NEW e \in FileRecord \cup SkippedRecord,
           NotStored(k, f, e, b)
    PROVE  SoundSet(k, Put(m, f, e), t, b)
<1> DEFINE n == Put(m, f, e)
<1>0. AddsFile(n, m, f, e)
  BY PutFile
<1> HIDE DEF n
<1>1. /\ DOMAIN n = DOMAIN m \cup {f} /\ n[f] = e
      /\ \A x \in DOMAIN m : n[x] = m[x]
      /\ \A g \in File : g # f => (IsFile(n, g) <=> IsFile(m, g))
      /\ IsFile(n, f) <=> e.type = "file"
  BY <1>0 DEF AddsFile
<1>2. /\ DOMAIN n \subseteq File \cup Folder
      /\ \A p \in DOMAIN n : \/ p \in File /\ n[p] \in FileRecord \cup SkippedRecord
                             \/ p \in Folder /\ n[p] \in {DirEntry} \cup SkippedRecord
      /\ \A g \in File : g \in DOMAIN n /\ FolderOf[g] # Root =>
            FolderOf[g] \in DOMAIN n /\ n[FolderOf[g]].type = "dir"
  BY <1>0 DEF AddsFile
<1>3. \A i \in 1 .. Len(t) :
         /\ t[i].path \in DOMAIN n
         /\ \/ IsFile(n, t[i].path) /\ n[t[i].path].inSet /\ t[i].blocks = n[t[i].path].hash
            \/ n[t[i].path].void
  BY <1>1 DEF SoundSet, IsFile
<1>4. \A g \in File : IsFile(n, g) =>
         /\ n[g].inSet => /\ n[g].origin = k /\ ~n[g].stale /\ ~n[g].void
                          /\ Len(n[g].hash) = n[g].size
                          /\ \E i \in 1 .. Len(t) : t[i].path = g
         /\ ~n[g].inSet => /\ k = "diff" /\ n[g].origin = "full"
                           /\ n[g].void => n[g].stale
                           /\ IsFile(b, g)
                           /\ n[g].hash = b[g].hash /\ n[g].size = b[g].size
  <2> SUFFICES ASSUME NEW g \in File, IsFile(n, g)
               PROVE  /\ n[g].inSet => /\ n[g].origin = k /\ ~n[g].stale /\ ~n[g].void
                                       /\ Len(n[g].hash) = n[g].size
                                       /\ \E i \in 1 .. Len(t) : t[i].path = g
                      /\ ~n[g].inSet => /\ k = "diff" /\ n[g].origin = "full"
                                        /\ n[g].void => n[g].stale
                                        /\ IsFile(b, g)
                                        /\ n[g].hash = b[g].hash /\ n[g].size = b[g].size
    OBVIOUS
  <2>1. CASE g = f
    BY <1>1, <2>1 DEF NotStored
  <2>2. CASE g # f
    <3>1. IsFile(m, g) /\ n[g] = m[g]
      BY <1>1, <2>2 DEF IsFile
    <3> QED
      BY <3>1 DEF SoundSet
  <2> QED
    BY <2>1, <2>2
<1> QED
  BY <1>2, <1>3, <1>4 DEF SoundSet, n

\* One that is, with its content x, or with what was written of it when the entry
\* is void.
LEMMA SoundStore ==
    ASSUME NEW k, NEW m, NEW t, NEW b, SoundSet(k, m, t, b),
           NEW f \in File, Fits(m, f), NEW e \in FileRecord \cup SkippedRecord,
           NEW x \in Seq(Nat),
           IsStored(k, e, x) \/ (NotStored(k, f, e, b) /\ e.void)
    PROVE  SoundSet(k, Put(m, f, e), Append(t, [path |-> f, blocks |-> x]), b)
<1> DEFINE n == Put(m, f, e)
           r == [path |-> f, blocks |-> x]
           u == Append(t, r)
<1>0. AddsFile(n, m, f, e)
  BY PutFile
<1> HIDE DEF n
<1>1. /\ DOMAIN n = DOMAIN m \cup {f} /\ n[f] = e
      /\ \A y \in DOMAIN m : n[y] = m[y]
      /\ \A g \in File : g # f => (IsFile(n, g) <=> IsFile(m, g))
      /\ IsFile(n, f) <=> e.type = "file"
  BY <1>0 DEF AddsFile
<1>2. /\ DOMAIN n \subseteq File \cup Folder
      /\ \A p \in DOMAIN n : \/ p \in File /\ n[p] \in FileRecord \cup SkippedRecord
                             \/ p \in Folder /\ n[p] \in {DirEntry} \cup SkippedRecord
      /\ \A g \in File : g \in DOMAIN n /\ FolderOf[g] # Root =>
            FolderOf[g] \in DOMAIN n /\ n[FolderOf[g]].type = "dir"
  BY <1>0 DEF AddsFile
<1>3. r \in TarRecord /\ r.path = f /\ r.blocks = x
  BY DEF TarRecord
<1> HIDE DEF r
<1>4. /\ t \in Seq(TarRecord)
      /\ \A i, j \in 1 .. Len(t) : t[i].path = t[j].path => i = j
      /\ \A i \in 1 .. Len(t) :
            /\ t[i].path \in DOMAIN m
            /\ \/ IsFile(m, t[i].path) /\ m[t[i].path].inSet /\ t[i].blocks = m[t[i].path].hash
               \/ m[t[i].path].void
  BY DEF SoundSet
<1>5. /\ u \in Seq(TarRecord)
      /\ Len(t) \in Nat /\ Len(u) = Len(t) + 1
      /\ \A i \in 1 .. Len(t) : u[i] = t[i]
      /\ u[Len(t) + 1] = r
  BY <1>3, <1>4
<1> HIDE DEF u
<1>6. \A i \in 1 .. Len(u) : i \in 1 .. Len(t) \/ i = Len(t) + 1
  BY <1>5
<1>7. \A i \in 1 .. Len(t) : u[i].path # f /\ u[i].path \in DOMAIN m
  BY <1>4, <1>5 DEF Fits
<1>8. \A i, j \in 1 .. Len(u) : u[i].path = u[j].path => i = j
  <2> SUFFICES ASSUME NEW i \in 1 .. Len(u), NEW j \in 1 .. Len(u), u[i].path = u[j].path
               PROVE  i = j
    OBVIOUS
  <2>1. CASE i \in 1 .. Len(t) /\ j \in 1 .. Len(t)
    BY <1>4, <1>5, <2>1
  <2>2. CASE i = Len(t) + 1 \/ j = Len(t) + 1
    BY <1>3, <1>5, <1>6, <1>7, <2>2
  <2> QED
    BY <1>6, <2>1, <2>2
<1>9. \A i \in 1 .. Len(u) :
         /\ u[i].path \in DOMAIN n
         /\ \/ IsFile(n, u[i].path) /\ n[u[i].path].inSet /\ u[i].blocks = n[u[i].path].hash
            \/ n[u[i].path].void
  <2> SUFFICES ASSUME NEW i \in 1 .. Len(u)
               PROVE  /\ u[i].path \in DOMAIN n
                      /\ \/ IsFile(n, u[i].path) /\ n[u[i].path].inSet
                            /\ u[i].blocks = n[u[i].path].hash
                         \/ n[u[i].path].void
    OBVIOUS
  <2>1. CASE i \in 1 .. Len(t)
    <3>1. /\ u[i] = t[i] /\ t[i].path \in DOMAIN m /\ n[t[i].path] = m[t[i].path]
          /\ t[i].path \in DOMAIN n
      BY <1>1, <1>4, <1>5, <2>1
    <3> QED
      BY <1>4, <2>1, <3>1 DEF IsFile
  <2>2. CASE i = Len(t) + 1
    <3>1. u[i].path = f /\ u[i].blocks = x
      BY <1>3, <1>5, <2>2
    <3> QED
      BY <1>1, <3>1 DEF IsStored
  <2> QED
    BY <1>6, <2>1, <2>2
<1>10. Len(t) + 1 \in 1 .. Len(u) /\ u[Len(t) + 1].path = f
  BY <1>3, <1>5
<1>11. \A g \in File : IsFile(n, g) =>
         /\ n[g].inSet => /\ n[g].origin = k /\ ~n[g].stale /\ ~n[g].void
                          /\ Len(n[g].hash) = n[g].size
                          /\ \E i \in 1 .. Len(u) : u[i].path = g
         /\ ~n[g].inSet => /\ k = "diff" /\ n[g].origin = "full"
                           /\ n[g].void => n[g].stale
                           /\ IsFile(b, g)
                           /\ n[g].hash = b[g].hash /\ n[g].size = b[g].size
  <2> SUFFICES ASSUME NEW g \in File, IsFile(n, g)
               PROVE  /\ n[g].inSet => /\ n[g].origin = k /\ ~n[g].stale /\ ~n[g].void
                                       /\ Len(n[g].hash) = n[g].size
                                       /\ \E i \in 1 .. Len(u) : u[i].path = g
                      /\ ~n[g].inSet => /\ k = "diff" /\ n[g].origin = "full"
                                        /\ n[g].void => n[g].stale
                                        /\ IsFile(b, g)
                                        /\ n[g].hash = b[g].hash /\ n[g].size = b[g].size
    OBVIOUS
  <2>1. CASE g = f
    BY <1>1, <1>10, <2>1 DEF NotStored, IsStored
  <2>2. CASE g # f
    <3>1. IsFile(m, g) /\ n[g] = m[g]
      BY <1>1, <2>2 DEF IsFile
    <3>2. ASSUME NEW i \in 1 .. Len(t), t[i].path = g
          PROVE  \E h \in 1 .. Len(u) : u[h].path = g
      <4>1. i \in 1 .. Len(u) /\ u[i].path = g
        BY <1>5, <3>2
      <4> QED
        BY <4>1
    <3> QED
      BY <3>1, <3>2 DEF SoundSet
  <2> QED
    BY <2>1, <2>2
<1> QED
  BY <1>2, <1>5, <1>8, <1>9, <1>11 DEF SoundSet, n, u, r

\* The entry of a folder; one that is unreadable has no files in the manifest.
LEMMA SoundFolder ==
    ASSUME NEW k, NEW m, NEW t, NEW b, SoundSet(k, m, t, b),
           NEW d \in Folder, NEW e \in {DirEntry} \cup SkippedRecord,
           e.type = "dir" \/ \A f \in File : f \in DOMAIN m => FolderOf[f] # d
    PROVE  SoundSet(k, Put(m, d, e), t, b)
<1> DEFINE n == Put(m, d, e)
<1>1. /\ DOMAIN n = DOMAIN m \cup {d} /\ n[d] = e
      /\ \A x \in DOMAIN m : x # d => n[x] = m[x]
  BY DEF Put
<1> HIDE DEF n
<1>2. /\ \A g \in File : g \in DOMAIN n <=> g \in DOMAIN m
      /\ \A g \in File : g \in DOMAIN m => n[g] = m[g]
      /\ \A g \in File : IsFile(n, g) <=> IsFile(m, g)
  BY <1>1, Paths DEF IsFile
<1>3. /\ DOMAIN n \subseteq File \cup Folder
      /\ \A p \in DOMAIN n : \/ p \in File /\ n[p] \in FileRecord \cup SkippedRecord
                             \/ p \in Folder /\ n[p] \in {DirEntry} \cup SkippedRecord
  BY <1>1 DEF SoundSet
<1>4. \A g \in File : g \in DOMAIN n /\ FolderOf[g] # Root =>
         FolderOf[g] \in DOMAIN n /\ n[FolderOf[g]].type = "dir"
  <2> SUFFICES ASSUME NEW g \in File, g \in DOMAIN m, FolderOf[g] # Root
               PROVE  FolderOf[g] \in DOMAIN n /\ n[FolderOf[g]].type = "dir"
    BY <1>2
  <2>1. FolderOf[g] \in DOMAIN m /\ m[FolderOf[g]].type = "dir"
    BY DEF SoundSet
  <2> QED
    BY <1>1, <2>1
<1>5. \A i \in 1 .. Len(t) : t[i].path \in File
  <2>1. t \in Seq(TarRecord)
    BY DEF SoundSet
  <2>2. \A i \in 1 .. Len(t) : t[i] \in TarRecord
    BY <2>1
  <2> QED
    BY <2>2 DEF TarRecord
<1>6. \A i \in 1 .. Len(t) :
         /\ t[i].path \in DOMAIN n
         /\ \/ IsFile(n, t[i].path) /\ n[t[i].path].inSet /\ t[i].blocks = n[t[i].path].hash
            \/ n[t[i].path].void
  BY <1>2, <1>5 DEF SoundSet
<1>7. \A g \in File : IsFile(n, g) =>
         /\ n[g].inSet => /\ n[g].origin = k /\ ~n[g].stale /\ ~n[g].void
                          /\ Len(n[g].hash) = n[g].size
                          /\ \E i \in 1 .. Len(t) : t[i].path = g
         /\ ~n[g].inSet => /\ k = "diff" /\ n[g].origin = "full"
                           /\ n[g].void => n[g].stale
                           /\ IsFile(b, g)
                           /\ n[g].hash = b[g].hash /\ n[g].size = b[g].size
  <2> SUFFICES ASSUME NEW g \in File, IsFile(n, g)
               PROVE  /\ n[g].inSet => /\ n[g].origin = k /\ ~n[g].stale /\ ~n[g].void
                                       /\ Len(n[g].hash) = n[g].size
                                       /\ \E i \in 1 .. Len(t) : t[i].path = g
                      /\ ~n[g].inSet => /\ k = "diff" /\ n[g].origin = "full"
                                        /\ n[g].void => n[g].stale
                                        /\ IsFile(b, g)
                                        /\ n[g].hash = b[g].hash /\ n[g].size = b[g].size
    OBVIOUS
  <2>1. IsFile(m, g) /\ n[g] = m[g]
    BY <1>2 DEF IsFile
  <2> QED
    BY <2>1 DEF SoundSet
<1> QED
  BY <1>3, <1>4, <1>6, <1>7 DEF SoundSet, n

-----------------------------------------------------------------------------
(* Other programs change the source directory.                             *)

\* An entry of a sound manifest is one of a file or not.
LEMMA SoundEntries ==
    ASSUME NEW k, NEW m, NEW t, NEW b, SoundSet(k, m, t, b), NEW f \in File
    PROVE  /\ IsFile(m, f) => m[f] \in FileRecord
           /\ IsFile(m, f) => /\ m[f].chg \in Nat /\ m[f].size \in Nat /\ m[f].mod \in Nat
                              /\ m[f].inSet \in BOOLEAN /\ m[f].hash \in Seq(Nat)
           /\ f \in DOMAIN m => m[f].type \in {"file", "skipped"}
<1>1. f \in DOMAIN m => m[f] \in FileRecord \cup SkippedRecord
  BY Paths DEF SoundSet
<1>2. IsFile(m, f) => m[f] \in FileRecord
  BY <1>1, Records DEF IsFile
<1> QED
  BY <1>1, <1>2, Records DEF IsFile

\* The source directory src at time now becomes src2 a moment later: each file
\* stays as it is or gets a new change time.
LaterSource(src, src2, now) ==
    \A f \in File : src2[f] = src[f] \/ src2[f].chg = now + 1

LEMMA LaterRecorded ==
    ASSUME NEW k, NEW m, NEW t, NEW b, NEW src, NEW src2, NEW now \in Nat,
           SoundSet(k, m, t, b), Recorded(m, src, now), LaterSource(src, src2, now)
    PROVE  Recorded(m, src2, now + 1)
<1> SUFFICES ASSUME NEW f \in File, IsFile(m, f)
             PROVE  /\ m[f].chg <= now + 1
                    /\ src2[f].exists /\ m[f].chg = src2[f].chg => m[f].hash = src2[f].blocks
  BY DEF Recorded
<1>1. /\ m[f].chg \in Nat /\ m[f].chg <= now
      /\ src[f].exists /\ m[f].chg = src[f].chg => m[f].hash = src[f].blocks
  BY SoundEntries DEF Recorded
<1>2. src2[f] = src[f] \/ src2[f].chg = now + 1
  BY DEF LaterSource
<1> QED
  BY <1>1, <1>2

LEMMA LaterTrue ==
    ASSUME NEW m, NEW s \in Nat, NEW src, NEW src2, NEW now \in Nat, s <= now,
           TrueSince(m, s, src), LaterSource(src, src2, now)
    PROVE  TrueSince(m, s, src2)
<1> SUFFICES ASSUME NEW f \in File, src2[f].chg <= s
             PROVE  IF src2[f].exists THEN Told(m, f, src2) ELSE ~IsFile(m, f)
  BY DEF TrueSince
<1>1. src2[f] = src[f]
  BY DEF LaterSource
<1> QED
  BY <1>1 DEF TrueSince, Told

LEMMA LaterSet ==
    ASSUME NEW k, NEW s, NEW b, NEW src, NEW src2, NEW now \in Nat,
           SetInv(k, s, b, src, now), LaterSource(src, src2, now)
    PROVE  SetInv(k, s, b, src2, now + 1)
<1>1. /\ SoundSet(k, s.entries, s.tar, b) /\ Recorded(s.entries, src, now)
      /\ s.start \in Nat /\ s.start <= now /\ TrueSince(s.entries, s.start, src)
  BY DEF SetInv
<1>2. Recorded(s.entries, src2, now + 1)
  BY <1>1, LaterRecorded
<1>3. TrueSince(s.entries, s.start, src2)
  BY <1>1, LaterTrue
<1>4. s.start <= now + 1
  BY <1>1
<1> QED
  BY <1>1, <1>2, <1>3, <1>4 DEF SetInv

Disk == [File -> [exists : BOOLEAN, blocks : Seq(Nat), mod : Nat, chg : Nat]]

\* A change keeps the invariant, whatever the run does at the time.
LEMMA ChangeKeeps ==
    ASSUME ArchiveInv, clock' = clock + 1, disk' \in Disk, LaterSource(disk, disk', clock),
           \A f \in File : disk'[f].exists => FolderOf[f] \in folders' \cup {Root},
           folders' \subseteq Folder, UNCHANGED <<sets, skipUnreadable, runVars>>
    PROVE  ArchiveInv'
<1>0. /\ ArchiveType /\ WalkInv /\ CopyInv
      /\ \A k \in DOMAIN sets : SetInv(k, sets[k], BaseManifest, disk, clock)
      /\ kind # "idle" => RunInv
  BY DEF ArchiveInv
<1>1. /\ kind' = kind /\ start' = start /\ pending' = pending /\ listed' = listed
      /\ step' = step /\ cur' = cur /\ meta' = meta /\ size' = size /\ copied' = copied
      /\ entries' = entries /\ tar' = tar /\ sets' = sets
  BY DEF runVars, copyVars
<1>2. clock \in Nat /\ start \in Nat /\ start <= clock /\ disk \in Disk
  BY <1>0 DEF ArchiveType, Disk
<1>3. \A f \in File : disk'[f].chg <= clock + 1
  <2> SUFFICES ASSUME NEW f \in File PROVE disk'[f].chg <= clock + 1
    OBVIOUS
  <2>1. disk[f].chg <= clock /\ disk[f].chg \in Nat
    BY <1>0, <1>2 DEF ArchiveType, Disk
  <2>2. disk'[f] = disk[f] \/ disk'[f].chg = clock + 1
    BY DEF LaterSource
  <2> QED
    BY <1>2, <2>1, <2>2
<1>4. ArchiveType'
  <2>1. clock' \in Nat /\ start' \in Nat /\ start' <= clock'
    BY <1>1, <1>2
  <2> QED
    BY <1>0, <1>1, <1>3, <2>1 DEF ArchiveType, Disk
<1>5. WalkInv'
  BY <1>0, <1>1 DEF WalkInv, Listed, FolderAhead
<1>6. CopyInv'
  <2> SUFFICES ASSUME step \in {"size", "copy"} PROVE CopyInv'
    BY <1>0, <1>1 DEF CopyInv
  <2>1. cur \in File /\ meta.chg \in Nat /\ meta.chg <= clock
    BY <1>0 DEF ArchiveType, CopyInv
  <2>2. CASE disk'[cur] = disk[cur]
    BY <1>0, <1>1, <1>2, <2>1, <2>2 DEF CopyInv
  <2>3. CASE disk'[cur].chg = clock + 1
    <3>1. ~(disk'[cur].chg <= start) /\ meta.chg # disk'[cur].chg /\ meta.chg <= clock + 1
      BY <1>2, <2>1, <2>3
    <3> QED
      BY <1>0, <1>1, <3>1 DEF CopyInv
  <2> QED
    BY <2>1, <2>2, <2>3 DEF LaterSource
<1>7. \A k \in DOMAIN sets : SetInv(k, sets[k], BaseManifest, disk', clock + 1)
  BY <1>0, <1>2, LaterSet
<1>8. ASSUME kind # "idle" PROVE RunInv'
  <2>1. SoundSet(kind, entries, tar, BaseManifest) /\ Recorded(entries, disk, clock) /\ TrueSoFar
    BY <1>0, <1>8 DEF RunInv
  <2>2. Recorded(entries, disk', clock + 1)
    BY <1>2, <2>1, LaterRecorded
  <2>3. TrueSoFar'
    <3> SUFFICES ASSUME NEW f \in File, disk'[f].chg <= start
                 PROVE  IF disk'[f].exists
                        THEN Listed(f)' \/ FolderAhead(FolderOf[f])' \/ Told(entries', f, disk')
                        ELSE ~Listed(f)' /\ f \notin DOMAIN entries'
      BY <1>1 DEF TrueSoFar
    <3>1. disk'[f] = disk[f]
      BY <1>2 DEF LaterSource
    <3>2. (Listed(f)' <=> Listed(f)) /\ (FolderAhead(FolderOf[f])' <=> FolderAhead(FolderOf[f]))
      BY <1>1 DEF Listed, FolderAhead
    <3>3. Told(entries', f, disk') <=> Told(entries, f, disk)
      BY <1>1, <3>1 DEF Told
    <3> QED
      BY <1>1, <2>1, <3>1, <3>2, <3>3 DEF TrueSoFar
  <2> QED
    BY <1>1, <2>1, <2>2, <2>3 DEF RunInv, BaseManifest
<1> QED
  BY <1>1, <1>4, <1>5, <1>6, <1>7, <1>8 DEF ArchiveInv, BaseManifest

\* The contents a change can give.
LEMMA RewrittenType ==
    ASSUME NEW f \in File, disk \in Disk, clock' \in Nat, NEW b \in Rewritten(f)
    PROVE  b \in Seq(Nat)
<1> DEFINE a == disk[f].blocks
<1>1. a \in Seq(Nat)
  BY DEF Disk
<1>2. \/ \E i \in DOMAIN a : b = [a EXCEPT ![i] = clock']
      \/ b = Append(a, clock')
      \/ \E n \in {Len(a) - 1} \cap Nat : b = SubSeq(a, 1, n)
  BY DEF Rewritten
<1> HIDE DEF a
<1>3. ASSUME NEW i \in DOMAIN a, b = [a EXCEPT ![i] = clock'] PROVE b \in Seq(Nat)
  <2>1. i \in 1 .. Len(a)
    BY <1>1, <1>3
  <2> QED
    BY <1>1, <1>3, <2>1, ExceptSeq
<1>4. ASSUME b = Append(a, clock') PROVE b \in Seq(Nat)
  BY <1>1, <1>4
<1>5. ASSUME NEW n \in {Len(a) - 1} \cap Nat, b = SubSeq(a, 1, n) PROVE b \in Seq(Nat)
  <2>1. n \in Nat /\ n <= Len(a) /\ Len(a) \in Nat
    BY <1>1, <1>5
  <2>2. \A i \in 1 .. n : a[i] \in Nat
    BY <1>1, <2>1
  <2> QED
    BY <1>1, <1>5, <2>1, <2>2
<1> QED
  BY <1>2, <1>3, <1>4, <1>5

LEMMA OthersKeep ==
    ASSUME ArchiveInv, Others
    PROVE  ArchiveInv'
<1>0. /\ clock \in Nat /\ disk \in Disk /\ folders \subseteq Folder
      /\ \A f \in File : disk[f].exists => FolderOf[f] \in folders \cup {Root}
  BY DEF ArchiveInv, ArchiveType, Disk
<1>1. ASSUME NEW f \in File, NEW r \in [exists : BOOLEAN, blocks : Seq(Nat), mod : Nat, chg : Nat],
             clock' = clock + 1, disk' = [disk EXCEPT ![f] = r], r.chg = clock + 1,
             r.exists => FolderOf[f] \in folders \cup {Root},
             UNCHANGED <<folders, sets, skipUnreadable, runVars>>
      PROVE  ArchiveInv'
  <2>1. disk' \in Disk /\ disk'[f] = r /\ \A g \in File : g # f => disk'[g] = disk[g]
    BY <1>0, <1>1 DEF Disk
  <2>2. LaterSource(disk, disk', clock)
    BY <1>1, <2>1 DEF LaterSource
  <2>3. \A g \in File : disk'[g].exists => FolderOf[g] \in folders' \cup {Root}
    BY <1>0, <1>1, <2>1
  <2>4. folders' \subseteq Folder /\ UNCHANGED <<sets, skipUnreadable, runVars>>
    BY <1>0, <1>1
  <2> QED
    BY <1>1, <2>1, <2>2, <2>3, <2>4, ChangeKeeps
<1>2. ASSUME NEW f \in File, Change(f) PROVE ArchiveInv'
  <2>1. clock' = clock + 1 /\ clock' \in Nat /\ disk[f].exists
    BY <1>0, <1>2 DEF Change, Tick
  <2>2. PICK b \in Rewritten(f), m \in {clock', disk[f].mod} :
           disk' = [disk EXCEPT ![f] = [exists |-> TRUE, blocks |-> b, mod |-> m, chg |-> clock']]
    BY <1>2 DEF Change
  <2>3. b \in Seq(Nat) /\ m \in Nat
    BY <1>0, <2>1, <2>2, RewrittenType DEF Disk
  <2> DEFINE r == [exists |-> TRUE, blocks |-> b, mod |-> m, chg |-> clock']
  <2>4. /\ r \in [exists : BOOLEAN, blocks : Seq(Nat), mod : Nat, chg : Nat]
        /\ r.chg = clock + 1 /\ r.exists
    BY <2>1, <2>3
  <2>5. disk' = [disk EXCEPT ![f] = r]
    BY <2>2
  <2> HIDE DEF r
  <2> QED
    BY <1>0, <1>1, <1>2, <2>1, <2>4, <2>5 DEF Change
<1>3. ASSUME NEW f \in File, Create(f) PROVE ArchiveInv'
  <2>1. clock' = clock + 1 /\ clock' \in Nat
    BY <1>0, <1>3 DEF Create, Tick
  <2> DEFINE r == [exists |-> TRUE, blocks |-> <<clock'>>, mod |-> clock', chg |-> clock']
  <2>2. <<clock'>> \in Seq(Nat)
    BY <2>1
  <2>3. /\ r \in [exists : BOOLEAN, blocks : Seq(Nat), mod : Nat, chg : Nat]
        /\ r.chg = clock + 1 /\ r.exists
    BY <2>1, <2>2
  <2>4. disk' = [disk EXCEPT ![f] = r]
    BY <1>3 DEF Create
  <2> HIDE DEF r
  <2> QED
    BY <1>1, <1>3, <2>1, <2>3, <2>4 DEF Create
<1>4. ASSUME NEW f \in File, Delete(f) PROVE ArchiveInv'
  <2>1. clock' = clock + 1 /\ clock' \in Nat
    BY <1>0, <1>4 DEF Delete, Tick
  <2> DEFINE r == [exists |-> FALSE, blocks |-> <<>>, mod |-> 0, chg |-> clock']
  <2>2. <<>> \in Seq(Nat)
    OBVIOUS
  <2>3. /\ r \in [exists : BOOLEAN, blocks : Seq(Nat), mod : Nat, chg : Nat]
        /\ r.chg = clock + 1 /\ ~r.exists
    BY <2>1, <2>2
  <2>4. disk' = [disk EXCEPT ![f] = r]
    BY <1>4 DEF Delete
  <2> HIDE DEF r
  <2> QED
    BY <1>1, <1>4, <2>1, <2>3, <2>4 DEF Delete
<1>5. ASSUME NEW d \in Folder, ToggleFolder(d) PROVE ArchiveInv'
  <2>1. /\ clock' = clock + 1 /\ disk' = disk /\ Children(d) = {}
        /\ folders' = IF d \in folders THEN folders \ {d} ELSE folders \cup {d}
        /\ UNCHANGED <<sets, skipUnreadable, runVars>>
    BY <1>5 DEF ToggleFolder, Tick
  <2>2. \A f \in File : disk[f].exists => FolderOf[f] # d
    BY <2>1 DEF Children
  <2>3. \A f \in File : disk'[f].exists => FolderOf[f] \in folders' \cup {Root}
    BY <1>0, <2>1, <2>2
  <2>4. LaterSource(disk, disk', clock) /\ disk' \in Disk /\ folders' \subseteq Folder
    BY <1>0, <2>1 DEF LaterSource
  <2> QED
    BY <2>1, <2>3, <2>4, ChangeKeeps
<1> QED
  BY <1>2, <1>3, <1>4, <1>5 DEF Others

-----------------------------------------------------------------------------
(* The run begins and ends.                                                *)

\* The source directory and the sets stay as they are.
LEMMA RunKeeps ==
    ASSUME ArchiveInv, UNCHANGED <<srcVars, sets>>, ArchiveType', WalkInv', CopyInv',
           kind' # "idle" => RunInv'
    PROVE  ArchiveInv'
<1>1. /\ disk' = disk /\ clock' = clock /\ sets' = sets
      /\ \A k \in DOMAIN sets : SetInv(k, sets[k], BaseManifest, disk, clock)
  BY DEF ArchiveInv, srcVars
<1>2. \A k \in DOMAIN sets' : SetInv(k, sets'[k], BaseManifest', disk', clock')
  BY <1>1 DEF BaseManifest
<1> QED
  BY <1>2 DEF ArchiveInv

\* The run ends; sets may have become more.
LEMMA IdleKeeps ==
    ASSUME ArchiveInv, UNCHANGED srcVars, RunIdle,
           DOMAIN sets' \in {{}, {"full"}, {"full", "diff"}},
           \A k \in DOMAIN sets' : SetInv(k, sets'[k], BaseManifest', disk, clock)
    PROVE  ArchiveInv'
<1>1. /\ disk' = disk /\ folders' = folders /\ clock' = clock
      /\ kind' = "idle" /\ start' = 0 /\ pending' = {} /\ step' = "next"
      /\ size' = 0 /\ copied' = <<>> /\ DOMAIN entries' = {} /\ tar' = <<>>
      /\ meta' \in [mod : Nat, chg : Nat]
  BY DEF RunIdle, srcVars
<1>2. ArchiveType'
  <2>1. <<>> \in Seq(Nat) /\ 0 <= clock
    BY DEF ArchiveInv, ArchiveType
  <2> QED
    BY <1>1, <2>1 DEF ArchiveInv, ArchiveType
<1>3. WalkInv'
  BY <1>1 DEF WalkInv, Listed
<1>4. CopyInv'
  BY <1>1 DEF CopyInv
<1> QED
  BY <1>1, <1>2, <1>3, <1>4 DEF ArchiveInv

LEMMA AbortKeeps ==
    ASSUME ArchiveInv, UNCHANGED <<srcVars, sets>>, RunIdle
    PROVE  ArchiveInv'
<1>1. /\ UNCHANGED srcVars /\ sets' = sets
      /\ DOMAIN sets' \in {{}, {"full"}, {"full", "diff"}}
      /\ \A k \in DOMAIN sets : SetInv(k, sets[k], BaseManifest, disk, clock)
  BY DEF ArchiveInv, ArchiveType
<1>2. \A k \in DOMAIN sets' : SetInv(k, sets'[k], BaseManifest', disk, clock)
  BY <1>1 DEF BaseManifest
<1> QED
  BY <1>1, <1>2, IdleKeeps

\* A full backup takes nothing from another set.
LEMMA FullIsOwn ==
    ASSUME NEW m, NEW t, NEW b, NEW b2, SoundSet("full", m, t, b)
    PROVE  SoundSet("full", m, t, b2)
  BY DEF SoundSet

LEMMA EndKeeps ==
    ASSUME ArchiveInv, EndRun
    PROVE  ArchiveInv'
<1> DEFINE s == [entries |-> entries, tar |-> tar, start |-> start]
<1>0. /\ ArchiveType /\ RunInv /\ kind # "idle" /\ step = "next" /\ pending = {}
      /\ \A k \in DOMAIN sets : SetInv(k, sets[k], BaseManifest, disk, clock)
      /\ sets' = Put(sets, kind, s) /\ RunIdle /\ UNCHANGED srcVars
  BY DEF ArchiveInv, EndRun
<1>1. s.entries = entries /\ s.tar = tar /\ s.start = start
  OBVIOUS
<1> HIDE DEF s
<1>2. /\ DOMAIN sets' = DOMAIN sets \cup {kind} /\ sets'[kind] = s
      /\ \A k \in DOMAIN sets : k # kind => sets'[k] = sets[k]
  BY <1>0 DEF Put
<1>3. TrueSince(entries, start, disk)
  <2> SUFFICES ASSUME NEW f \in File, disk[f].chg <= start
               PROVE  IF disk[f].exists THEN Told(entries, f, disk) ELSE ~IsFile(entries, f)
    BY DEF TrueSince
  <2>1. ~Listed(f) /\ ~FolderAhead(FolderOf[f])
    BY <1>0 DEF Listed, FolderAhead
  <2>2. IF disk[f].exists THEN Told(entries, f, disk) ELSE f \notin DOMAIN entries
    BY <1>0, <2>1 DEF RunInv, TrueSoFar
  <2> QED
    BY <2>2 DEF IsFile
<1>4. ASSUME NEW b, SoundSet(kind, entries, tar, b) PROVE SetInv(kind, s, b, disk, clock)
  BY <1>0, <1>1, <1>3, <1>4 DEF SetInv, RunInv, ArchiveType
<1>5. CASE kind = "full"
  <2>1. DOMAIN sets = {} /\ DOMAIN sets' = {"full"} /\ BaseManifest' = entries
    BY <1>0, <1>1, <1>2, <1>5 DEF ArchiveType, BaseManifest
  <2>2. SoundSet(kind, entries, tar, entries)
    BY <1>0, <1>5, FullIsOwn DEF RunInv
  <2>3. SetInv("full", sets'["full"], BaseManifest', disk, clock)
    BY <1>2, <1>4, <1>5, <2>1, <2>2
  <2> QED
    BY <1>0, <2>1, <2>3, IdleKeeps
<1>6. CASE kind = "diff"
  <2>1. /\ DOMAIN sets = {"full"} /\ DOMAIN sets' = {"full", "diff"}
        /\ sets'["full"] = sets["full"] /\ BaseManifest' = BaseManifest
    BY <1>0, <1>2, <1>6 DEF ArchiveType, BaseManifest
  <2>2. SetInv("diff", sets'["diff"], BaseManifest', disk, clock)
    BY <1>0, <1>2, <1>4, <1>6, <2>1 DEF RunInv
  <2>3. SetInv("full", sets'["full"], BaseManifest', disk, clock)
    BY <1>0, <2>1
  <2>4. \A k \in DOMAIN sets' : SetInv(k, sets'[k], BaseManifest', disk, clock)
    BY <2>1, <2>2, <2>3
  <2> QED
    BY <1>0, <2>1, <2>4, IdleKeeps
<1> QED
  BY <1>0, <1>5, <1>6 DEF ArchiveType

LEMMA SoundEmpty ==
    ASSUME NEW k, NEW m, NEW b, DOMAIN m = {}
    PROVE  SoundSet(k, m, <<>>, b)
<1>1. <<>> \in Seq(TarRecord) /\ Len(<<>>) = 0
  OBVIOUS
<1>2. \A f \in File : ~IsFile(m, f)
  BY DEF IsFile
<1> QED
  BY <1>1, <1>2 DEF SoundSet

LEMMA StartKeeps ==
    ASSUME ArchiveInv, NEW k \in {"full", "diff"}, Start(k)
    PROVE  ArchiveInv'
<1>0. /\ ArchiveType /\ WalkInv /\ CopyInv /\ kind = "idle"
      /\ k = (IF DOMAIN sets = {} THEN "full" ELSE "diff") /\ k \notin DOMAIN sets
      /\ kind' = k /\ start' = clock /\ pending' = folders \cup Children(Root)
      /\ UNCHANGED <<srcVars, sets>>
  BY DEF ArchiveInv, Start
<1>1. /\ step' = step /\ cur' = cur /\ meta' = meta /\ size' = size /\ copied' = copied
      /\ entries' = entries /\ tar' = tar
      /\ disk' = disk /\ folders' = folders /\ clock' = clock /\ sets' = sets
  BY DEF Start, copyVars, srcVars
<1>2. step = "next" /\ DOMAIN entries = {} /\ tar = <<>>
  BY <1>0 DEF WalkInv
<1>3. DOMAIN sets \in {{}, {"full"}} /\ (k = "full" => DOMAIN sets = {})
        /\ (k = "diff" => DOMAIN sets = {"full"})
  BY <1>0 DEF ArchiveType
<1>4. ArchiveType'
  <2>1. Children(Root) \subseteq File
    BY DEF Children
  <2>2. pending' \subseteq File \cup Folder
    BY <1>0, <2>1 DEF ArchiveType
  <2>3. start' \in Nat /\ start' <= clock'
    BY <1>0, <1>1 DEF ArchiveType
  <2> QED
    BY <1>0, <1>1, <1>2, <1>3, <2>2, <2>3 DEF ArchiveType
<1>5. \A f \in File : f \in pending' <=> (FolderOf[f] = Root /\ disk[f].exists)
  BY <1>0, Paths DEF ArchiveType, Children
<1>6. \A f \in File : Listed(f)' <=> f \in pending'
  BY <1>1, <1>2 DEF Listed
<1>7. \A d : FolderAhead(d)' <=> d \in pending'
  BY <1>1, <1>2 DEF FolderAhead
<1>8. Root \notin pending'
  BY <1>0, ArchiveAssumption DEF ArchiveType, Children
<1>9. WalkInv'
  BY <1>0, <1>1, <1>2, <1>5, <1>6, <1>7, <1>8 DEF WalkInv
<1>10. CopyInv'
  BY <1>0, <1>1, <1>2 DEF CopyInv
<1>11. TrueSoFar'
  <2>1. \A f \in File : disk[f].exists => Listed(f)' \/ FolderAhead(FolderOf[f])'
    <3> SUFFICES ASSUME NEW f \in File, disk[f].exists
                 PROVE  f \in pending' \/ FolderOf[f] \in pending'
      BY <1>6, <1>7
    <3>1. FolderOf[f] \in folders \cup {Root}
      BY <1>0 DEF ArchiveType
    <3> QED
      BY <1>0, <1>5, <3>1
  <2>2. \A f \in File : ~disk[f].exists => ~Listed(f)' /\ f \notin DOMAIN entries'
    BY <1>1, <1>2, <1>5, <1>6
  <2> QED
    BY <1>1, <2>1, <2>2 DEF TrueSoFar
<1>12. RunInv'
  <2>1. SoundSet(kind', entries', tar', BaseManifest')
    BY <1>1, <1>2, SoundEmpty
  <2>2. Recorded(entries', disk', clock')
    BY <1>1, <1>2 DEF Recorded, IsFile
  <2> QED
    BY <1>11, <2>1, <2>2 DEF RunInv
<1> QED
  BY <1>0, <1>4, <1>9, <1>10, <1>12, RunKeeps

-----------------------------------------------------------------------------
(* The walk comes to a file.                                               *)

\* The walk is at file f.
At(f) == Visit(f) \/ (step \in {"open", "size", "copy"} /\ cur = f)

\* The manifest n is m, but for what it tells of path p.
OnlyAt(n, m, p) ==
    /\ DOMAIN m \subseteq DOMAIN n /\ DOMAIN n \subseteq DOMAIN m \cup {p}
    /\ \A x \in DOMAIN m : x # p => n[x] = m[x]

\* What the walk has told so far can be told of f as well.
LEMMA AtFile ==
    ASSUME ArchiveInv, NEW f \in File, At(f)
    PROVE  /\ kind \in {"full", "diff"} /\ RunInv /\ Listed(f) /\ Fits(entries, f)
           /\ disk[f].chg <= start => disk[f].exists
<1>1. kind # "idle"
  BY DEF At, Visit, ArchiveInv, WalkInv
<1>2. Listed(f)
  BY DEF At, Visit, Listed
<1>3. RunInv /\ kind \in {"full", "diff"}
  BY <1>1 DEF ArchiveInv, ArchiveType
<1>4. Fits(entries, f)
  BY <1>2 DEF ArchiveInv, WalkInv, Fits
<1>5. disk[f].chg <= start => disk[f].exists
  BY <1>2, <1>3 DEF RunInv, TrueSoFar
<1> QED
  BY <1>2, <1>3, <1>4, <1>5

\* The walk goes on after f.
LEMMA GoFile ==
    ASSUME ArchiveInv, NEW f \in File, At(f), NEW m2, NEW t2, Go(f, m2, t2),
           UNCHANGED <<srcVars, sets>>,
           OnlyAt(m2, entries, f), SoundSet(kind, m2, t2, BaseManifest),
           Recorded(m2, disk, clock),
           disk[f].chg <= start => Told(m2, f, disk)
    PROVE  ArchiveInv'
<1>0. /\ ArchiveType /\ WalkInv /\ CopyInv /\ RunInv /\ Listed(f) /\ Fits(entries, f)
      /\ kind \in {"full", "diff"} /\ (disk[f].chg <= start => disk[f].exists)
  BY AtFile DEF ArchiveInv
<1>1. /\ entries' = m2 /\ tar' = t2 /\ pending' = pending \ {f} /\ step' = "next"
      /\ meta' \in [mod : Nat, chg : Nat] /\ size' = 0 /\ copied' = <<>>
      /\ kind' = kind /\ start' = start
      /\ disk' = disk /\ folders' = folders /\ clock' = clock /\ sets' = sets
  BY DEF Go, srcVars
<1>2. ArchiveType'
  <2>1. <<>> \in Seq(Nat)
    OBVIOUS
  <2> QED
    BY <1>0, <1>1, <2>1 DEF ArchiveType
<1>3. \A g \in File : Listed(g)' <=> (Listed(g) /\ g # f)
  <2>1. f \notin pending \/ step = "next"
    BY <1>0 DEF At, Visit, WalkInv
  <2> QED
    BY <1>0, <1>1, <2>1 DEF Listed, At, Visit
<1>4. \A g \in File : FolderAhead(FolderOf[g])' <=> FolderAhead(FolderOf[g])
  <2>1. step # "list"
    BY DEF At, Visit
  <2>2. \A g \in File : FolderOf[g] # f
    BY Paths
  <2> QED
    BY <1>1, <2>1, <2>2 DEF FolderAhead
<1>5. WalkInv'
  <2>1. ASSUME NEW g \in File
        PROVE  /\ Listed(g)' => g \notin DOMAIN entries'
               /\ Listed(g)' \/ g \in DOMAIN entries' =>
                    /\ ~FolderAhead(FolderOf[g])'
                    /\ FolderOf[g] # Root => /\ FolderOf[g] \in DOMAIN entries'
                                             /\ entries'[FolderOf[g]].type = "dir"
    <3>1. Listed(g)' => g \notin DOMAIN entries'
      BY <1>0, <1>1, <1>3 DEF OnlyAt, WalkInv
    <3>2. Listed(g)' \/ g \in DOMAIN entries' => Listed(g) \/ g \in DOMAIN entries
      BY <1>0, <1>1, <1>3 DEF OnlyAt
    <3>3. FolderOf[g] # f
      BY Paths
    <3>4. Listed(g) \/ g \in DOMAIN entries =>
            /\ ~FolderAhead(FolderOf[g])
            /\ FolderOf[g] # Root => /\ FolderOf[g] \in DOMAIN entries
                                     /\ entries[FolderOf[g]].type = "dir"
      BY <1>0 DEF WalkInv
    <3> QED
      BY <1>1, <1>4, <3>1, <3>2, <3>3, <3>4 DEF OnlyAt
  <2> QED
    BY <1>0, <1>1, <2>1 DEF WalkInv
<1>6. CopyInv'
  BY <1>1 DEF CopyInv
<1>7. TrueSoFar'
  <2> SUFFICES ASSUME NEW g \in File, disk[g].chg <= start
               PROVE  IF disk[g].exists
                      THEN Listed(g)' \/ FolderAhead(FolderOf[g])' \/ Told(m2, g, disk)
                      ELSE ~Listed(g)' /\ g \notin DOMAIN m2
    BY <1>1 DEF TrueSoFar
  <2>1. CASE g = f
    BY <1>0, <2>1
  <2>2. CASE g # f
    <3>1. IF disk[g].exists THEN Listed(g) \/ FolderAhead(FolderOf[g]) \/ Told(entries, g, disk)
                            ELSE ~Listed(g) /\ g \notin DOMAIN entries
      BY <1>0 DEF RunInv, TrueSoFar
    <3>2. Told(entries, g, disk) => Told(m2, g, disk)
      <4>1. FolderOf[g] # f
        BY Paths
      <4>2. \A x : x # f => (Missing(entries, x) <=> Missing(m2, x))
        BY DEF OnlyAt, Missing
      <4>3. IsFile(entries, g) => IsFile(m2, g) /\ m2[g] = entries[g]
        BY <2>2 DEF OnlyAt, IsFile
      <4> QED
        BY <2>2, <4>1, <4>2, <4>3 DEF Told
    <3> QED
      BY <1>3, <1>4, <2>2, <3>1, <3>2 DEF OnlyAt
  <2> QED
    BY <2>1, <2>2
<1>8. RunInv'
  BY <1>1, <1>7 DEF RunInv, BaseManifest
<1> QED
  BY <1>2, <1>5, <1>6, <1>8, RunKeeps

\* f gets an entry e, with or without content in the TAR.
LEMMA EntryKeeps ==
    ASSUME ArchiveInv, NEW f \in File, At(f), NEW e \in FileRecord \cup SkippedRecord, NEW t2,
           Go(f, Put(entries, f, e), t2), UNCHANGED <<srcVars, sets>>,
           \/ t2 = tar /\ NotStored(kind, f, e, BaseManifest)
           \/ \E x \in Seq(Nat) :
                 /\ t2 = Append(tar, [path |-> f, blocks |-> x])
                 /\ \/ IsStored(kind, e, x)
                    \/ NotStored(kind, f, e, BaseManifest) /\ e.void,
           e.type = "file" =>
              /\ e.chg <= clock
              /\ disk[f].exists /\ e.chg = disk[f].chg => e.hash = disk[f].blocks
           ,
           disk[f].chg <= start =>
              e.type = "skipped" \/ (e.type = "file" /\ (e.stale \/ e.hash = disk[f].blocks))
    PROVE  ArchiveInv'
<1> DEFINE n == Put(entries, f, e)
<1>0. /\ RunInv /\ SoundSet(kind, entries, tar, BaseManifest) /\ Recorded(entries, disk, clock)
      /\ Fits(entries, f)
  BY AtFile DEF RunInv
<1>1. AddsFile(n, entries, f, e)
  BY <1>0, PutFile
<1>2. SoundSet(kind, n, t2, BaseManifest)
  <2>1. CASE t2 = tar /\ NotStored(kind, f, e, BaseManifest)
    BY <1>0, <2>1, SoundAdd
  <2>2. CASE \E x \in Seq(Nat) :
                 /\ t2 = Append(tar, [path |-> f, blocks |-> x])
                 /\ \/ IsStored(kind, e, x)
                    \/ NotStored(kind, f, e, BaseManifest) /\ e.void
    BY <1>0, <2>2, SoundStore
  <2> QED
    BY <2>1, <2>2
<1>3. Go(f, n, t2)
  OBVIOUS
<1> HIDE DEF n
<1>4. /\ DOMAIN n = DOMAIN entries \cup {f} /\ n[f] = e
      /\ \A x \in DOMAIN entries : n[x] = entries[x]
      /\ \A g \in File : g # f => (IsFile(n, g) <=> IsFile(entries, g))
      /\ IsFile(n, f) <=> e.type = "file"
  BY <1>1 DEF AddsFile
<1>5. OnlyAt(n, entries, f)
  BY <1>4 DEF OnlyAt
<1>6. Recorded(n, disk, clock)
  <2> SUFFICES ASSUME NEW g \in File, IsFile(n, g)
               PROVE  /\ n[g].chg <= clock
                      /\ disk[g].exists /\ n[g].chg = disk[g].chg => n[g].hash = disk[g].blocks
    BY DEF Recorded
  <2>1. CASE g = f
    BY <1>4, <2>1
  <2>2. CASE g # f
    <3>1. IsFile(entries, g) /\ n[g] = entries[g]
      BY <1>4, <2>2 DEF IsFile
    <3> QED
      BY <1>0, <3>1 DEF Recorded
  <2> QED
    BY <2>1, <2>2
<1>7. disk[f].chg <= start => Told(n, f, disk)
  BY <1>4 DEF Told, Missing, IsFile
<1> QED
  BY <1>2, <1>3, <1>5, <1>6, <1>7, GoFile

\* What a differential takes over from the full backup.
LEMMA BaseEntry ==
    ASSUME ArchiveInv, NEW f \in File, InBase(f),
           NEW stale \in BOOLEAN, NEW void \in BOOLEAN, void => stale
    PROVE  LET e == FromBase(f, stale, void)
           IN /\ e \in FileRecord /\ e.type = "file" /\ e.void = void /\ e.stale = stale
              /\ NotStored(kind, f, e, BaseManifest)
              /\ e.chg = Base(f).chg /\ e.chg <= clock
              /\ disk[f].exists /\ e.chg = disk[f].chg => e.hash = disk[f].blocks
<1> DEFINE b == BaseManifest[f]
           e == FromBase(f, stale, void)
<1>1. kind = "diff" /\ IsFile(BaseManifest, f) /\ b = Base(f)
  BY DEF InBase, BaseManifest, Base
<1>2. SetInv("full", sets["full"], BaseManifest, disk, clock)
  BY <1>1 DEF ArchiveInv, ArchiveType
<1>3. SoundSet("full", BaseManifest, sets["full"].tar, BaseManifest)
        /\ Recorded(BaseManifest, disk, clock)
  BY <1>2 DEF SetInv, BaseManifest
<1>4. b \in FileRecord
  BY <1>1, <1>3, SoundEntries
<1>5. /\ b.chg <= clock
      /\ disk[f].exists /\ b.chg = disk[f].chg => b.hash = disk[f].blocks
  BY <1>1, <1>3 DEF Recorded
<1>6. e = [b EXCEPT !.origin = "full", !.inSet = FALSE, !.stale = stale, !.void = void]
  BY <1>1 DEF FromBase
<1> HIDE DEF b, e
<1>7. /\ e \in FileRecord /\ e.type = "file" /\ e.origin = "full" /\ e.inSet = FALSE
      /\ e.stale = stale /\ e.void = void
      /\ e.chg = b.chg /\ e.hash = b.hash /\ e.size = b.size
  BY <1>4, <1>6 DEF FileRecord
<1>8. NotStored(kind, f, e, BaseManifest)
  BY <1>1, <1>7 DEF NotStored, b
<1> QED
  BY <1>1, <1>5, <1>7, <1>8 DEF e

\* What is told of an unreadable file.
LEMMA SkippedOk ==
    ASSUME ArchiveInv, NEW f \in File, NEW header \in BOOLEAN
    PROVE  LET e == Skipped(f, header)
           IN /\ e \in FileRecord \cup SkippedRecord /\ e.void = header
              /\ NotStored(kind, f, e, BaseManifest)
              /\ e.type = "file" =>
                   /\ e.stale /\ e.chg <= clock
                   /\ disk[f].exists /\ e.chg = disk[f].chg => e.hash = disk[f].blocks
              /\ e.type = "skipped" \/ e.type = "file"
<1>1. CASE InBase(f)
  <2> DEFINE e == FromBase(f, TRUE, header)
  <2>1. Skipped(f, header) = e
    BY <1>1 DEF Skipped
  <2>2. /\ e \in FileRecord /\ e.type = "file" /\ e.void = header /\ e.stale = TRUE
        /\ NotStored(kind, f, e, BaseManifest)
        /\ e.chg = Base(f).chg /\ e.chg <= clock
        /\ disk[f].exists /\ e.chg = disk[f].chg => e.hash = disk[f].blocks
    BY <1>1, BaseEntry
  <2> HIDE DEF e
  <2> QED
    BY <2>1, <2>2
<1>2. CASE ~InBase(f)
  <2>1. Skipped(f, header) = [type |-> "skipped", void |-> header]
    BY <1>2 DEF Skipped, SkippedEntry
  <2> QED
    BY <2>1 DEF SkippedRecord, NotStored
<1> QED
  BY <1>1, <1>2

LEMMA KeepUnchangedKeeps ==
    ASSUME ArchiveInv, NEW f \in File, KeepUnchanged(f)
    PROVE  ArchiveInv'
<1> DEFINE e == FromBase(f, FALSE, FALSE)
<1>1. /\ At(f) /\ InBase(f) /\ disk[f].exists /\ Base(f).chg = disk[f].chg
      /\ Go(f, Put(entries, f, e), tar) /\ UNCHANGED <<srcVars, sets>>
  BY DEF KeepUnchanged, At, Unchanged
<1>2. /\ e \in FileRecord /\ e.type = "file" /\ NotStored(kind, f, e, BaseManifest)
      /\ e.chg = Base(f).chg /\ e.chg <= clock
      /\ disk[f].exists /\ e.chg = disk[f].chg => e.hash = disk[f].blocks
  BY <1>1, BaseEntry
<1> HIDE DEF e
<1> QED
  BY <1>1, <1>2, EntryKeeps

\* A file that can't be read, before or after its TAR header.
LEMMA SkipKeeps ==
    ASSUME ArchiveInv, NEW f \in File, At(f), NEW header \in BOOLEAN, NEW t2,
           SkipOrAbort(f, Put(entries, f, Skipped(f, header)), t2),
           UNCHANGED <<srcVars, sets>>,
           \/ t2 = tar
           \/ header /\ \E x \in Seq(Nat) : t2 = Append(tar, [path |-> f, blocks |-> x])
    PROVE  ArchiveInv'
<1> DEFINE e == Skipped(f, header)
<1>1. /\ e \in FileRecord \cup SkippedRecord /\ e.void = header
      /\ NotStored(kind, f, e, BaseManifest)
      /\ e.type = "file" =>
           /\ e.stale /\ e.chg <= clock
           /\ disk[f].exists /\ e.chg = disk[f].chg => e.hash = disk[f].blocks
      /\ e.type = "skipped" \/ e.type = "file"
  BY SkippedOk
<1>2. CASE Go(f, Put(entries, f, e), t2)
  <2> HIDE DEF e
  <2> QED
    BY <1>1, <1>2, EntryKeeps
<1>3. CASE RunIdle
  BY <1>3, AbortKeeps
<1> QED
  BY <1>2, <1>3 DEF SkipOrAbort

LEMMA FileUnreadableKeeps ==
    ASSUME ArchiveInv, NEW f \in File, FileUnreadable(f)
    PROVE  ArchiveInv'
<1>1. /\ At(f) /\ SkipOrAbort(f, Put(entries, f, Skipped(f, FALSE)), tar)
      /\ UNCHANGED <<srcVars, sets>>
  BY DEF FileUnreadable, Opening, At
<1> QED
  BY <1>1, SkipKeeps

LEMMA FileVanishedKeeps ==
    ASSUME ArchiveInv, NEW f \in File, FileVanished(f)
    PROVE  ArchiveInv'
<1>1. /\ At(f) /\ ~disk[f].exists /\ Go(f, entries, tar) /\ UNCHANGED <<srcVars, sets>>
  BY DEF FileVanished, Opening, At
<1>2. /\ SoundSet(kind, entries, tar, BaseManifest) /\ Recorded(entries, disk, clock)
      /\ ~(disk[f].chg <= start)
  BY <1>1, AtFile DEF RunInv
<1>3. OnlyAt(entries, entries, f)
  BY DEF OnlyAt
<1> QED
  BY <1>1, <1>2, <1>3, GoFile

\* What is stored of the file being copied.
StoredBlocks == [i \in 1 .. size |-> IF i \in DOMAIN copied THEN copied[i] ELSE 0]

LEMMA Copying ==
    ASSUME ArchiveInv, step = "copy"
    PROVE  /\ cur \in File /\ At(cur) /\ size \in Nat /\ copied \in Seq(Nat)
           /\ StoredBlocks \in Seq(Nat)
           /\ Stored = Append(tar, [path |-> cur, blocks |-> StoredBlocks])
           /\ Len(copied) = size => StoredBlocks = copied
<1>1. cur \in File /\ At(cur) /\ size \in Nat /\ copied \in Seq(Nat)
  BY DEF ArchiveInv, ArchiveType, At
<1>2. \A i \in 1 .. size : StoredBlocks[i] \in Nat
  BY <1>1 DEF StoredBlocks
<1>3. StoredBlocks \in Seq(Nat) /\ Len(StoredBlocks) = size
  BY <1>1 DEF StoredBlocks
<1>4. ASSUME Len(copied) = size PROVE StoredBlocks = copied
  BY <1>1, <1>4 DEF StoredBlocks
<1> QED
  BY <1>1, <1>3, <1>4 DEF Stored, StoredBlocks

LEMMA CutKeeps ==
    ASSUME ArchiveInv, CopyFails \/ FileGrew
    PROVE  ArchiveInv'
<1>1. /\ step = "copy" /\ SkipOrAbort(cur, Put(entries, cur, Skipped(cur, TRUE)), Stored)
      /\ UNCHANGED <<srcVars, sets>>
  BY DEF CopyFails, FileGrew
<1>2. /\ cur \in File /\ At(cur)
      /\ \E x \in Seq(Nat) : Stored = Append(tar, [path |-> cur, blocks |-> x])
  BY <1>1, Copying
<1> QED
  BY <1>1, <1>2, SkipKeeps

LEMMA AddFileKeeps ==
    ASSUME ArchiveInv, AddFile
    PROVE  ArchiveInv'
<1> DEFINE e == FileEntry
<1>1. /\ step = "copy" /\ Len(copied) = size /\ Go(cur, Put(entries, cur, e), Stored)
      /\ UNCHANGED <<srcVars, sets>>
  BY DEF AddFile
<1>2. /\ cur \in File /\ At(cur) /\ copied \in Seq(Nat) /\ size \in Nat
      /\ Stored = Append(tar, [path |-> cur, blocks |-> copied])
      /\ kind \in {"full", "diff"} /\ meta \in [mod : Nat, chg : Nat]
  BY <1>1, Copying, AtFile DEF ArchiveInv, ArchiveType
<1>3. /\ e \in FileRecord /\ e.type = "file" /\ IsStored(kind, e, copied)
      /\ e.chg = meta.chg /\ e.hash = copied
  BY <1>1, <1>2 DEF FileEntry, FileRecord, IsStored
<1>4. /\ meta.chg <= clock
      /\ disk[cur].chg <= start => meta.chg = disk[cur].chg
      /\ meta.chg = disk[cur].chg =>
           /\ size = Len(disk[cur].blocks)
           /\ \A i \in 1 .. Len(copied) : copied[i] = disk[cur].blocks[i]
  BY <1>1 DEF ArchiveInv, CopyInv
<1>5. disk[cur].blocks \in Seq(Nat)
  BY <1>2 DEF ArchiveInv, ArchiveType
<1>6. meta.chg = disk[cur].chg => copied = disk[cur].blocks
  <2>1. \A a, b \in Seq(Nat) : Len(a) = Len(b) /\ (\A i \in 1 .. Len(a) : a[i] = b[i]) => a = b
    BY SeqEqual
  <2> QED
    BY <1>1, <1>2, <1>4, <1>5, <2>1
<1> HIDE DEF e
<1> QED
  BY <1>1, <1>2, <1>3, <1>4, <1>6, EntryKeeps

\* The walk stays at f with another step.
LEMMA ProceedFile ==
    ASSUME ArchiveInv, NEW f \in File, At(f), step # "copy",
           NEW s1 \in {"open", "size"}, Proceed(f, s1),
           entries' = entries, size' = size, copied' = copied,
           meta' \in [mod : Nat, chg : Nat],
           s1 = "size" => meta'.chg = disk[f].chg
    PROVE  ArchiveInv'
<1>0. /\ ArchiveType /\ WalkInv /\ CopyInv /\ RunInv /\ Listed(f)
      /\ kind \in {"full", "diff"}
  BY AtFile DEF ArchiveInv
<1>1. /\ pending' = pending \ {f} /\ cur' = f /\ step' = s1
      /\ kind' = kind /\ start' = start /\ tar' = tar
      /\ disk' = disk /\ folders' = folders /\ clock' = clock /\ sets' = sets
      /\ UNCHANGED <<srcVars, sets>>
  BY DEF Proceed, srcVars
<1>2. ArchiveType'
  BY <1>0, <1>1 DEF ArchiveType
<1>3. \A g \in File : Listed(g)' <=> Listed(g)
  <2>1. f \notin pending \/ step = "next"
    BY <1>0 DEF At, Visit, WalkInv
  <2> QED
    BY <1>0, <1>1, <2>1 DEF Listed, At, Visit
<1>4. \A g \in File : FolderAhead(FolderOf[g])' <=> FolderAhead(FolderOf[g])
  <2>1. step # "list"
    BY DEF At, Visit
  <2>2. \A g \in File : FolderOf[g] # f
    BY Paths
  <2> QED
    BY <1>1, <2>1, <2>2 DEF FolderAhead
<1>5. WalkInv'
  BY <1>0, <1>1, <1>3, <1>4 DEF WalkInv
<1>6. CopyInv'
  <2>1. copied = <<>>
    BY <1>0 DEF CopyInv
  <2>2. s1 = "size" => meta'.chg <= clock /\ meta'.chg = disk[f].chg
    BY <1>0 DEF ArchiveType
  <2> QED
    BY <1>1, <2>1, <2>2 DEF CopyInv
<1>7. TrueSoFar'
  BY <1>0, <1>1, <1>3, <1>4 DEF RunInv, TrueSoFar
<1>8. RunInv'
  BY <1>0, <1>1, <1>7 DEF RunInv, BaseManifest
<1> QED
  BY <1>1, <1>2, <1>5, <1>6, <1>8, RunKeeps

LEMMA OpenKeeps ==
    ASSUME ArchiveInv, NEW f \in File, StoreAnew(f) \/ Open(f)
    PROVE  ArchiveInv'
<1>1. CASE StoreAnew(f)
  <2>1. /\ At(f) /\ step # "copy" /\ Proceed(f, "open") /\ entries' = entries
        /\ meta' = meta /\ size' = size /\ copied' = copied
    BY <1>1 DEF StoreAnew, At, Visit, copyVars
  <2>2. meta' \in [mod : Nat, chg : Nat]
    BY <2>1 DEF ArchiveInv, ArchiveType
  <2> QED
    BY <2>1, <2>2, ProceedFile
<1>2. CASE Open(f)
  <2>1. /\ At(f) /\ step # "copy" /\ Proceed(f, "size") /\ entries' = entries
        /\ meta' = [mod |-> disk[f].mod, chg |-> disk[f].chg]
        /\ size' = size /\ copied' = copied
    BY <1>2 DEF Open, Opening, At, Visit
  <2>2. meta' \in [mod : Nat, chg : Nat] /\ meta'.chg = disk[f].chg
    BY <2>1 DEF ArchiveInv, ArchiveType
  <2> QED
    BY <2>1, <2>2, ProceedFile
<1> QED
  BY <1>1, <1>2

\* The header is written, and then the content.
LEMMA CopyKeeps ==
    ASSUME ArchiveInv, WriteHeader \/ CopyBlock
    PROVE  ArchiveInv'
<1>0. /\ ArchiveType /\ WalkInv /\ CopyInv /\ cur \in File /\ step \in {"size", "copy"}
  BY DEF ArchiveInv, ArchiveType, WriteHeader, CopyBlock
<1>1. At(cur) /\ RunInv /\ kind \in {"full", "diff"}
  BY <1>0, AtFile DEF At
<1>2. /\ kind' = kind /\ start' = start /\ pending' = pending /\ cur' = cur /\ meta' = meta
      /\ entries' = entries /\ tar' = tar /\ step' = "copy"
      /\ disk' = disk /\ folders' = folders /\ clock' = clock /\ sets' = sets
      /\ UNCHANGED <<srcVars, sets>>
  BY DEF WriteHeader, CopyBlock, srcVars
<1>3. /\ disk[cur].blocks \in Seq(Nat) /\ Len(disk[cur].blocks) \in Nat
      /\ copied \in Seq(Nat) /\ size \in Nat
  BY <1>0 DEF ArchiveType
<1>4. size' \in Nat /\ copied' \in Seq(Nat) /\ CopyInv'
  <2>1. CASE WriteHeader
    <3>1. step = "size" /\ size' = Len(disk[cur].blocks) /\ copied' = copied /\ copied = <<>>
      BY <1>0, <2>1 DEF WriteHeader, CopyInv
    <3>2. Len(copied) = 0
      BY <3>1
    <3> QED
      BY <1>0, <1>2, <1>3, <3>1, <3>2 DEF CopyInv
  <2>2. CASE CopyBlock
    <3> DEFINE n == Len(copied)
               x == disk[cur].blocks[n + 1]
    <3>1. /\ step = "copy" /\ n < size /\ n < Len(disk[cur].blocks)
          /\ copied' = Append(copied, x) /\ size' = size
      BY <2>2 DEF CopyBlock
    <3>2. x \in Nat /\ n \in Nat
      BY <1>3, <3>1
    <3>3. copied' \in Seq(Nat) /\ Len(copied') = n + 1 /\ copied'[n + 1] = x
          /\ \A i \in 1 .. n : copied'[i] = copied[i]
      BY <1>3, <3>1, <3>2
    <3>4. meta.chg = disk[cur].chg =>
             \A i \in 1 .. n + 1 : copied'[i] = disk[cur].blocks[i]
      BY <1>0, <3>1, <3>2, <3>3 DEF CopyInv
    <3>5. Len(copied') <= size
      BY <1>3, <3>1, <3>2, <3>3
    <3> HIDE DEF n, x
    <3> QED
      BY <1>0, <1>2, <1>3, <3>1, <3>3, <3>4, <3>5 DEF CopyInv
  <2> QED
    BY <2>1, <2>2
<1>5. ArchiveType'
  BY <1>0, <1>2, <1>4 DEF ArchiveType
<1>6. /\ \A g \in File : Listed(g)' <=> Listed(g)
      /\ \A d : FolderAhead(d)' <=> FolderAhead(d)
  BY <1>0, <1>2 DEF Listed, FolderAhead
<1>7. WalkInv'
  BY <1>0, <1>2, <1>6 DEF WalkInv
<1>8. TrueSoFar'
  BY <1>1, <1>2, <1>6 DEF RunInv, TrueSoFar
<1>9. RunInv'
  BY <1>1, <1>2, <1>8 DEF RunInv, BaseManifest
<1> QED
  BY <1>2, <1>4, <1>5, <1>7, <1>9, RunKeeps

-----------------------------------------------------------------------------
(* The walk comes to a folder.                                             *)

\* Nothing is listed or told of a folder that the walk still comes to.
LEMMA AtFolder ==
    ASSUME ArchiveInv, NEW d \in Folder, Reading(d)
    PROVE  /\ kind \in {"full", "diff"} /\ RunInv /\ FolderAhead(d) /\ step \in {"next", "list"}
           /\ \A f \in File : Listed(f) \/ f \in DOMAIN entries => FolderOf[f] # d
<1>1. kind # "idle"
  BY DEF Reading, Visit, ArchiveInv, WalkInv
<1>2. FolderAhead(d) /\ step \in {"next", "list"}
  BY DEF Reading, Visit, FolderAhead
<1> QED
  BY <1>1, <1>2 DEF ArchiveInv, ArchiveType, WalkInv

\* The manifest n is m with the entry e of folder d, which says nothing of the files.
AddsFolder(n, m, d, e) ==
    /\ OnlyAt(n, m, d) /\ DOMAIN n = DOMAIN m \cup {d} /\ n[d] = e
    /\ \A f \in File : f \in DOMAIN n <=> f \in DOMAIN m
    /\ \A f \in File : IsFile(n, f) <=> IsFile(m, f)
    /\ \A f \in File : IsFile(m, f) => n[f] = m[f]

LEMMA FolderEntry ==
    ASSUME NEW m, NEW d \in Folder, NEW e, NEW src, NEW now, Recorded(m, src, now),
           NEW n, n = Put(m, d, e)
    PROVE  AddsFolder(n, m, d, e) /\ Recorded(n, src, now)
<1>1. /\ DOMAIN n = DOMAIN m \cup {d} /\ n[d] = e
      /\ \A x \in DOMAIN m : x # d => n[x] = m[x]
  BY DEF Put
<1>2. /\ \A f \in File : f \in DOMAIN n <=> f \in DOMAIN m
      /\ \A f \in File : IsFile(n, f) <=> IsFile(m, f)
      /\ \A f \in File : IsFile(m, f) => n[f] = m[f]
  BY <1>1, Paths DEF IsFile
<1>3. OnlyAt(n, m, d)
  BY <1>1 DEF OnlyAt
<1>4. Recorded(n, src, now)
  BY <1>2 DEF Recorded
<1> QED
  BY <1>1, <1>2, <1>3, <1>4 DEF AddsFolder

\* The walk goes on after d: it is gone or told to be unreadable.
LEMMA GoFolder ==
    ASSUME ArchiveInv, NEW d \in Folder, Reading(d), NEW m2, Go(d, m2, tar),
           UNCHANGED <<srcVars, sets>>,
           OnlyAt(m2, entries, d), SoundSet(kind, m2, tar, BaseManifest),
           Recorded(m2, disk, clock),
           \A f \in File : f \in DOMAIN m2 <=> f \in DOMAIN entries,
           d \notin folders \/ Missing(m2, d)
    PROVE  ArchiveInv'
<1>0. /\ ArchiveType /\ WalkInv /\ RunInv /\ FolderAhead(d) /\ step \in {"next", "list"}
      /\ kind \in {"full", "diff"}
      /\ \A f \in File : Listed(f) \/ f \in DOMAIN entries => FolderOf[f] # d
  BY AtFolder DEF ArchiveInv
<1>1. /\ entries' = m2 /\ tar' = tar /\ pending' = pending \ {d} /\ step' = "next"
      /\ meta' \in [mod : Nat, chg : Nat] /\ size' = 0 /\ copied' = <<>>
      /\ kind' = kind /\ start' = start
      /\ disk' = disk /\ folders' = folders /\ clock' = clock /\ sets' = sets
  BY DEF Go, srcVars
<1>2. ArchiveType'
  <2>1. <<>> \in Seq(Nat)
    OBVIOUS
  <2> QED
    BY <1>0, <1>1, <2>1 DEF ArchiveType
<1>3. \A g \in File : Listed(g)' <=> Listed(g)
  BY <1>0, <1>1, Paths DEF Listed
<1>4. \A x : FolderAhead(x)' <=> (FolderAhead(x) /\ x # d)
  BY <1>0, <1>1 DEF FolderAhead, Reading, Visit, WalkInv
<1>5. WalkInv'
  <2>1. ASSUME NEW g \in File, Listed(g)' \/ g \in DOMAIN entries'
        PROVE  /\ ~FolderAhead(FolderOf[g])'
               /\ FolderOf[g] # Root => /\ FolderOf[g] \in DOMAIN entries'
                                        /\ entries'[FolderOf[g]].type = "dir"
    <3>1. Listed(g) \/ g \in DOMAIN entries
      BY <1>1, <1>3, <2>1
    <3>2. /\ FolderOf[g] # d /\ ~FolderAhead(FolderOf[g])
          /\ FolderOf[g] # Root => /\ FolderOf[g] \in DOMAIN entries
                                   /\ entries[FolderOf[g]].type = "dir"
      BY <1>0, <3>1 DEF WalkInv
    <3> QED
      BY <1>1, <1>4, <3>2 DEF OnlyAt
  <2>2. \A g \in File : Listed(g)' => g \notin DOMAIN entries'
    BY <1>0, <1>1, <1>3 DEF WalkInv
  <2> QED
    BY <1>0, <1>1, <2>1, <2>2 DEF WalkInv
<1>6. CopyInv'
  BY <1>1 DEF CopyInv
<1>7. TrueSoFar'
  <2> SUFFICES ASSUME NEW g \in File, disk[g].chg <= start
               PROVE  IF disk[g].exists
                      THEN Listed(g)' \/ FolderAhead(FolderOf[g])' \/ Told(m2, g, disk)
                      ELSE ~Listed(g)' /\ g \notin DOMAIN m2
    BY <1>1 DEF TrueSoFar
  <2>1. IF disk[g].exists THEN Listed(g) \/ FolderAhead(FolderOf[g]) \/ Told(entries, g, disk)
                          ELSE ~Listed(g) /\ g \notin DOMAIN entries
    BY <1>0 DEF RunInv, TrueSoFar
  <2>2. CASE FolderOf[g] = d
    <3>1. disk[g].exists => d \in folders
      BY <1>0, <2>2, Paths DEF ArchiveType
    <3> QED
      BY <1>3, <2>1, <2>2, <3>1 DEF Told
  <2>3. CASE FolderOf[g] # d
    <3>1. \A x : x # d => (Missing(entries, x) <=> Missing(m2, x))
      BY DEF OnlyAt, Missing
    <3>2. IsFile(entries, g) => IsFile(m2, g) /\ m2[g] = entries[g]
      BY Paths DEF OnlyAt, IsFile
    <3>3. Told(entries, g, disk) => Told(m2, g, disk)
      BY <2>3, <3>1, <3>2, Paths DEF Told
    <3> QED
      BY <1>3, <1>4, <2>1, <2>3, <3>3
  <2> QED
    BY <2>2, <2>3
<1>8. RunInv'
  BY <1>1, <1>7 DEF RunInv, BaseManifest
<1> QED
  BY <1>2, <1>5, <1>6, <1>8, RunKeeps

LEMMA FolderLeftKeeps ==
    ASSUME ArchiveInv, NEW d \in Folder, FolderVanished(d) \/ FolderUnreadable(d)
    PROVE  ArchiveInv'
<1>0. /\ Reading(d) /\ UNCHANGED <<srcVars, sets>>
  BY DEF FolderVanished, FolderUnreadable
<1>1. /\ SoundSet(kind, entries, tar, BaseManifest) /\ Recorded(entries, disk, clock)
      /\ \A f \in File : Listed(f) \/ f \in DOMAIN entries => FolderOf[f] # d
  BY <1>0, AtFolder DEF RunInv
<1>2. CASE FolderVanished(d)
  <2>1. Go(d, entries, tar) /\ d \notin folders
    BY <1>2 DEF FolderVanished
  <2>2. OnlyAt(entries, entries, d)
    BY DEF OnlyAt
  <2> QED
    BY <1>0, <1>1, <2>1, <2>2, GoFolder
<1>3. CASE FolderUnreadable(d)
  <2> DEFINE e == SkippedEntry(FALSE)
             n == Put(entries, d, e)
  <2>1. SkipOrAbort(d, n, tar)
    BY <1>3 DEF FolderUnreadable
  <2>2. e \in SkippedRecord /\ e.type = "skipped"
    BY DEF SkippedEntry, SkippedRecord
  <2> HIDE DEF e
  <2>3. SoundSet(kind, n, tar, BaseManifest)
    BY <1>1, <2>2, SoundFolder
  <2>n. AddsFolder(n, entries, d, e) /\ Recorded(n, disk, clock)
    BY <1>1, FolderEntry
  <2> HIDE DEF n
  <2>4. /\ OnlyAt(n, entries, d) /\ DOMAIN n = DOMAIN entries \cup {d} /\ n[d] = e
        /\ \A f \in File : f \in DOMAIN n <=> f \in DOMAIN entries
        /\ Recorded(n, disk, clock)
    BY <2>n DEF AddsFolder
  <2>5. Missing(n, d)
    BY <2>2, <2>4 DEF Missing
  <2>6. CASE Go(d, n, tar)
    BY <1>0, <2>3, <2>4, <2>5, <2>6, GoFolder
  <2>7. CASE RunIdle
    BY <1>0, <2>7, AbortKeeps
  <2> QED
    BY <2>1, <2>6, <2>7 DEF SkipOrAbort
<1> QED
  BY <1>2, <1>3

LEMMA AddDirKeeps ==
    ASSUME ArchiveInv, NEW d \in Folder, AddDir(d)
    PROVE  ArchiveInv'
<1> DEFINE n == Put(entries, d, DirEntry)
<1>0. /\ Visit(d) /\ Reading(d) /\ entries' = n /\ Proceed(d, "list") /\ UNCHANGED copyVars
  BY DEF AddDir, Reading
<1>1. /\ ArchiveType /\ WalkInv /\ CopyInv /\ RunInv /\ FolderAhead(d)
      /\ kind \in {"full", "diff"}
      /\ SoundSet(kind, entries, tar, BaseManifest) /\ Recorded(entries, disk, clock)
      /\ \A f \in File : Listed(f) \/ f \in DOMAIN entries => FolderOf[f] # d
  BY <1>0, AtFolder DEF ArchiveInv, RunInv
<1>2. /\ pending' = pending \ {d} /\ cur' = d /\ step' = "list" /\ step = "next" /\ d \in pending
      /\ kind' = kind /\ start' = start /\ tar' = tar
      /\ meta' = meta /\ size' = size /\ copied' = copied
      /\ disk' = disk /\ folders' = folders /\ clock' = clock /\ sets' = sets
      /\ UNCHANGED <<srcVars, sets>>
  BY <1>0 DEF Proceed, Visit, srcVars, copyVars
<1>3. SoundSet(kind, n, tar, BaseManifest)
  BY <1>1, Records, SoundFolder
<1>n. AddsFolder(n, entries, d, DirEntry) /\ Recorded(n, disk, clock)
  BY <1>1, FolderEntry
<1> HIDE DEF n
<1>4. /\ OnlyAt(n, entries, d) /\ DOMAIN n = DOMAIN entries \cup {d} /\ n[d] = DirEntry
      /\ \A f \in File : f \in DOMAIN n <=> f \in DOMAIN entries
      /\ \A f \in File : IsFile(n, f) <=> IsFile(entries, f)
      /\ \A f \in File : IsFile(entries, f) => n[f] = entries[f]
      /\ Recorded(n, disk, clock)
  BY <1>n DEF AddsFolder
<1>5. ArchiveType'
  BY <1>1, <1>2 DEF ArchiveType
<1>6. \A g \in File : Listed(g)' <=> Listed(g)
  BY <1>2, Paths DEF Listed
<1>7. \A x : FolderAhead(x)' <=> FolderAhead(x)
  BY <1>2 DEF FolderAhead
<1>8. WalkInv'
  <2>1. ASSUME NEW g \in File, Listed(g)' \/ g \in DOMAIN n
        PROVE  /\ ~FolderAhead(FolderOf[g])'
               /\ FolderOf[g] # Root => FolderOf[g] \in DOMAIN n /\ n[FolderOf[g]].type = "dir"
    <3>1. Listed(g) \/ g \in DOMAIN entries
      BY <1>4, <1>6, <2>1
    <3>2. /\ FolderOf[g] # d /\ ~FolderAhead(FolderOf[g])
          /\ FolderOf[g] # Root => /\ FolderOf[g] \in DOMAIN entries
                                   /\ entries[FolderOf[g]].type = "dir"
      BY <1>1, <3>1 DEF WalkInv
    <3> QED
      BY <1>4, <1>7, <3>2 DEF OnlyAt
  <2>2. \A g \in File : Listed(g)' => g \notin DOMAIN n
    BY <1>1, <1>4, <1>6 DEF WalkInv
  <2>3. d \in DOMAIN n /\ n[d].type = "dir"
    BY <1>4, Records
  <2> QED
    BY <1>0, <1>1, <1>2, <2>1, <2>2, <2>3 DEF WalkInv
<1>9. CopyInv'
  BY <1>1, <1>2 DEF CopyInv
<1>10. TrueSoFar'
  <2> SUFFICES ASSUME NEW g \in File, disk[g].chg <= start
               PROVE  IF disk[g].exists
                      THEN Listed(g)' \/ FolderAhead(FolderOf[g])' \/ Told(n, g, disk)
                      ELSE ~Listed(g)' /\ g \notin DOMAIN n
    BY <1>0, <1>2 DEF TrueSoFar
  <2>1. IF disk[g].exists THEN Listed(g) \/ FolderAhead(FolderOf[g]) \/ Told(entries, g, disk)
                          ELSE ~Listed(g) /\ g \notin DOMAIN entries
    BY <1>1 DEF RunInv, TrueSoFar
  <2>2. CASE FolderOf[g] = d
    BY <1>1, <1>4, <1>6, <1>7, <2>1, <2>2
  <2>3. CASE FolderOf[g] # d
    <3>1. \A x : x # d => (Missing(entries, x) <=> Missing(n, x))
      BY <1>4 DEF OnlyAt, Missing
    <3>2. Told(entries, g, disk) => Told(n, g, disk)
      BY <1>4, <2>3, <3>1, Paths DEF Told
    <3> QED
      BY <1>4, <1>6, <1>7, <2>1, <3>2
  <2> QED
    BY <2>2, <2>3
<1>11. RunInv'
  BY <1>0, <1>2, <1>3, <1>4, <1>10 DEF RunInv, BaseManifest
<1> QED
  BY <1>1, <1>2, <1>5, <1>8, <1>9, <1>11, RunKeeps

LEMMA ListFolderKeeps ==
    ASSUME ArchiveInv, ListFolder
    PROVE  ArchiveInv'
<1>0. /\ step = "list" /\ cur \in Folder /\ pending' = pending \cup Children(cur)
      /\ step' = "next" /\ UNCHANGED <<srcVars, sets, copyVars>>
      /\ kind' = kind /\ start' = start /\ entries' = entries /\ tar' = tar
  BY DEF ListFolder, ArchiveInv, ArchiveType
<1>1. Reading(cur)
  BY <1>0 DEF Reading
<1>2. /\ ArchiveType /\ WalkInv /\ CopyInv /\ RunInv /\ FolderAhead(cur)
      /\ kind \in {"full", "diff"}
      /\ \A f \in File : Listed(f) \/ f \in DOMAIN entries => FolderOf[f] # cur
  BY <1>0, <1>1, AtFolder DEF ArchiveInv
<1>3. /\ disk' = disk /\ folders' = folders /\ clock' = clock /\ sets' = sets
      /\ meta' = meta /\ size' = size /\ copied' = copied
  BY <1>0 DEF srcVars, copyVars
<1>4. \A f \in File : f \in Children(cur) <=> (FolderOf[f] = cur /\ disk[f].exists)
  BY DEF Children
<1>5. Children(cur) \subseteq File
  BY DEF Children
<1>6. \A g \in File : Listed(g)' <=> Listed(g) \/ (FolderOf[g] = cur /\ disk[g].exists)
  BY <1>0, <1>4 DEF Listed
<1>7. \A g \in File : FolderAhead(FolderOf[g])' <=>
                        (FolderAhead(FolderOf[g]) /\ FolderOf[g] # cur)
  BY <1>0, <1>2, <1>5, Paths DEF FolderAhead, WalkInv
<1>8. ArchiveType'
  BY <1>0, <1>2, <1>3, <1>5 DEF ArchiveType
<1>9. WalkInv'
  <2>1. ASSUME NEW g \in File
        PROVE  /\ Listed(g)' => g \notin DOMAIN entries
               /\ Listed(g)' \/ g \in DOMAIN entries =>
                    /\ ~FolderAhead(FolderOf[g])'
                    /\ FolderOf[g] # Root => /\ FolderOf[g] \in DOMAIN entries
                                             /\ entries[FolderOf[g]].type = "dir"
    <3>1. CASE FolderOf[g] = cur
      BY <1>0, <1>2, <1>6, <1>7, <3>1 DEF WalkInv
    <3>2. CASE FolderOf[g] # cur
      BY <1>2, <1>6, <1>7, <3>2 DEF WalkInv
    <3> QED
      BY <3>1, <3>2
  <2> QED
    BY <1>0, <1>2, <2>1 DEF WalkInv
<1>10. CopyInv'
  BY <1>0, <1>2, <1>3 DEF CopyInv
<1>11. TrueSoFar'
  <2> SUFFICES ASSUME NEW g \in File, disk[g].chg <= start
               PROVE  IF disk[g].exists
                      THEN Listed(g)' \/ FolderAhead(FolderOf[g])' \/ Told(entries, g, disk)
                      ELSE ~Listed(g)' /\ g \notin DOMAIN entries
    BY <1>0, <1>3 DEF TrueSoFar
  <2>1. IF disk[g].exists THEN Listed(g) \/ FolderAhead(FolderOf[g]) \/ Told(entries, g, disk)
                          ELSE ~Listed(g) /\ g \notin DOMAIN entries
    BY <1>2 DEF RunInv, TrueSoFar
  <2> QED
    BY <1>6, <1>7, <2>1
<1>12. RunInv'
  BY <1>0, <1>2, <1>3, <1>11 DEF RunInv, BaseManifest
<1> QED
  BY <1>0, <1>8, <1>9, <1>10, <1>12, RunKeeps

-----------------------------------------------------------------------------
LEMMA ArchiveInit ==
    ASSUME Init
    PROVE  ArchiveInv
<1>1. /\ disk = [f \in File |-> [exists |-> TRUE, blocks |-> <<0>>, mod |-> 0, chg |-> 0]]
      /\ folders = Folder /\ clock = 0 /\ DOMAIN sets = {} /\ kind = "idle" /\ start = 0
      /\ pending = {} /\ step = "next" /\ meta = [mod |-> 0, chg |-> 0] /\ size = 0
      /\ copied = <<>> /\ DOMAIN entries = {} /\ tar = <<>>
  BY DEF Init
<1>2. <<0>> \in Seq(Nat) /\ <<>> \in Seq(Nat)
  OBVIOUS
<1>3. /\ disk \in Disk /\ \A f \in File : disk[f].chg = 0
  BY <1>1, <1>2 DEF Disk
<1>4. \A f \in File : FolderOf[f] \in folders \cup {Root}
  BY <1>1, Paths
<1>5. ArchiveType
  BY <1>1, <1>2, <1>3, <1>4 DEF ArchiveType, Disk
<1>6. WalkInv /\ CopyInv
  BY <1>1 DEF WalkInv, CopyInv, Listed
<1> QED
  BY <1>1, <1>5, <1>6 DEF ArchiveInv

LEMMA BuildKeeps ==
    ASSUME ArchiveInv, Next
    PROVE  ArchiveInv'
<1>1. CASE Others
  BY <1>1, OthersKeep
<1>2. CASE Stop
  BY <1>2, AbortKeeps DEF Stop
<1>3. CASE \E k \in {"full", "diff"} : Start(k)
  BY <1>3, StartKeeps
<1>4. CASE \E d \in Folder : AddDir(d) \/ FolderVanished(d) \/ FolderUnreadable(d)
  BY <1>4, AddDirKeeps, FolderLeftKeeps
<1>5. CASE \E f \in File : \/ KeepUnchanged(f) \/ StoreAnew(f)
                           \/ Open(f) \/ FileVanished(f) \/ FileUnreadable(f)
  BY <1>5, KeepUnchangedKeeps, OpenKeeps, FileVanishedKeeps, FileUnreadableKeeps
<1>6. CASE ListFolder \/ WriteHeader \/ CopyBlock \/ CopyFails \/ FileGrew \/ AddFile
  BY <1>6, ListFolderKeeps, CopyKeeps, CutKeeps, AddFileKeeps
<1>7. CASE EndRun
  BY <1>7, EndKeeps
<1> QED
  BY <1>1, <1>2, <1>3, <1>4, <1>5, <1>6, <1>7 DEF Next, Build

LEMMA ArchiveStutters ==
    ASSUME ArchiveInv, UNCHANGED vars
    PROVE  ArchiveInv'
<1>1. UNCHANGED <<srcVars, sets, runVars>>
  BY DEF vars
<1>2. /\ disk' = disk /\ folders' = folders /\ clock' = clock /\ sets' = sets
      /\ kind' = kind /\ start' = start /\ pending' = pending /\ listed' = listed
      /\ step' = step /\ cur' = cur /\ meta' = meta /\ size' = size /\ copied' = copied
      /\ entries' = entries /\ tar' = tar /\ UNCHANGED <<srcVars, sets>>
  BY <1>1 DEF srcVars, runVars, copyVars
<1>3. ArchiveType'
  BY <1>2 DEF ArchiveInv, ArchiveType
<1>4. \A x : (Listed(x)' <=> Listed(x)) /\ (FolderAhead(x)' <=> FolderAhead(x))
  BY <1>2 DEF Listed, FolderAhead
<1>5. WalkInv'
  BY <1>2, <1>4 DEF ArchiveInv, WalkInv
<1>6. CopyInv'
  BY <1>2 DEF ArchiveInv, CopyInv
<1>7. kind # "idle" => TrueSoFar'
  BY <1>2, <1>4 DEF ArchiveInv, RunInv, TrueSoFar
<1>8. kind' # "idle" => RunInv'
  BY <1>2, <1>7 DEF ArchiveInv, RunInv, BaseManifest
<1> QED
  BY <1>2, <1>3, <1>5, <1>6, <1>8, RunKeeps

-----------------------------------------------------------------------------
(* A restore or a check.                                                   *)

Own == sets[target].tar
Full == sets["full"].tar

\* The files of a sound set, and the entries of its TAR.
LEMMA SoundFiles ==
    ASSUME NEW k \in {"full", "diff"}, NEW m, NEW t, NEW b, SoundSet(k, m, t, b)
    PROVE  /\ \A f \in FilesOf(m) :
                /\ f \in File /\ f \in DOMAIN m /\ m[f].type = "file" /\ m[f].inSet \in BOOLEAN
                /\ m[f].inSet <=> m[f].origin = k
                /\ k = "full" => m[f].inSet
                /\ m[f].inSet => ~m[f].void /\ Len(m[f].hash) = m[f].size
                                   /\ \E i \in 1 .. Len(t) : t[i].path = f
                /\ ~m[f].inSet => /\ m[f].origin = "full" /\ f \in FilesOf(b)
                                  /\ m[f].hash = b[f].hash /\ m[f].size = b[f].size
                /\ FolderOf[f] \in FoldersOf(m) \cup {Root}
           /\ Len(t) \in Nat
           /\ \A i \in 1 .. Len(t) :
                /\ t[i].path \in File /\ t[i].path \in DOMAIN m
                /\ \/ t[i].path \in FilesOf(m) /\ m[t[i].path].inSet
                        /\ t[i].blocks = m[t[i].path].hash
                   \/ m[t[i].path].void /\ (t[i].path \in FilesOf(m) => ~m[t[i].path].inSet)
                /\ t[i].path \in FilesOf(m) <=> m[t[i].path].type = "file"
<1>1. ASSUME NEW f \in FilesOf(m)
      PROVE  /\ f \in File /\ f \in DOMAIN m /\ m[f].type = "file" /\ m[f].inSet \in BOOLEAN
             /\ m[f].inSet <=> m[f].origin = k
             /\ k = "full" => m[f].inSet
             /\ m[f].inSet => ~m[f].void /\ Len(m[f].hash) = m[f].size
                                /\ \E i \in 1 .. Len(t) : t[i].path = f
             /\ ~m[f].inSet => /\ m[f].origin = "full" /\ f \in FilesOf(b)
                               /\ m[f].hash = b[f].hash /\ m[f].size = b[f].size
             /\ FolderOf[f] \in FoldersOf(m) \cup {Root}
  <2>1. f \in File /\ IsFile(m, f)
    BY DEF FilesOf
  <2>2. m[f].inSet \in BOOLEAN
    BY <2>1, SoundEntries
  <2>3. FolderOf[f] \in FoldersOf(m) \cup {Root}
    BY <2>1, Paths DEF SoundSet, FoldersOf, IsFile
  <2> QED
    BY <2>1, <2>2, <2>3 DEF SoundSet, FilesOf, IsFile
<1>2. t \in Seq(TarRecord) /\ Len(t) \in Nat
  BY DEF SoundSet
<1>3. ASSUME NEW i \in 1 .. Len(t)
      PROVE  /\ t[i].path \in File /\ t[i].path \in DOMAIN m
             /\ \/ t[i].path \in FilesOf(m) /\ m[t[i].path].inSet
                     /\ t[i].blocks = m[t[i].path].hash
                \/ m[t[i].path].void /\ (t[i].path \in FilesOf(m) => ~m[t[i].path].inSet)
             /\ t[i].path \in FilesOf(m) <=> m[t[i].path].type = "file"
  <2>1. t[i] \in TarRecord
    BY <1>2
  <2>2. t[i].path \in File
    BY <2>1 DEF TarRecord
  <2>3. /\ t[i].path \in DOMAIN m
        /\ \/ IsFile(m, t[i].path) /\ m[t[i].path].inSet /\ t[i].blocks = m[t[i].path].hash
           \/ m[t[i].path].void
    BY DEF SoundSet
  <2> QED
    BY <1>1, <2>2, <2>3 DEF FilesOf, IsFile
<1> QED
  BY <1>1, <1>2, <1>3

\* The set being read and its full backup are sound.
LEMMA Sources ==
    ASSUME ArchiveInv, target \in DOMAIN sets
    PROVE  /\ target \in {"full", "diff"}
           /\ SoundSet(target, Target, Own, BaseManifest)
           /\ SoundSet("full", BaseManifest, Full, BaseManifest)
<1>1. target \in {"full", "diff"} /\ "full" \in DOMAIN sets
  BY DEF ArchiveInv, ArchiveType
<1>2. /\ SetInv(target, sets[target], BaseManifest, disk, clock)
      /\ SetInv("full", sets["full"], BaseManifest, disk, clock)
  BY <1>1 DEF ArchiveInv
<1> QED
  BY <1>1, <1>2 DEF SetInv, Target, Own, Full, BaseManifest

\* A section has each file once.
LEMMA PassedNext ==
    ASSUME NEW k, NEW m, NEW t, NEW b, SoundSet(k, m, t, b),
           pos \in Nat \ {0}, pos <= Len(t), pos' = pos + 1
    PROVE  /\ pos \in 1 .. Len(t) /\ ~Passed(t, t[pos].path)
           /\ \A f : Passed(t, f)' <=> (Passed(t, f) \/ f = t[pos].path)
<1>1. t \in Seq(TarRecord) /\ Len(t) \in Nat /\ pos \in 1 .. Len(t)
  BY DEF SoundSet
<1>2. \A i, j \in 1 .. Len(t) : t[i].path = t[j].path => i = j
  BY DEF SoundSet
<1>3. ~Passed(t, t[pos].path)
  BY <1>1, <1>2 DEF Passed
<1>4. \A i \in 1 .. Len(t) : i < pos' <=> i < pos \/ i = pos
  BY <1>1
<1>5. ASSUME NEW f PROVE Passed(t, f)' <=> (Passed(t, f) \/ f = t[pos].path)
  <2>1. Passed(t, f)' <=> \E i \in 1 .. Len(t) : i < pos' /\ t[i].path = f
    BY DEF Passed
  <2> QED
    BY <1>1, <1>4, <2>1 DEF Passed
<1> QED
  BY <1>1, <1>3, <1>5

\* At the end of a section all its files have been passed.
LEMMA PassedAll ==
    ASSUME NEW t, Len(t) \in Nat, pos \in Nat \ {0}, pos > Len(t)
    PROVE  \A f : Passed(t, f) <=> \E i \in 1 .. Len(t) : t[i].path = f
<1>1. \A i \in 1 .. Len(t) : i < pos
  OBVIOUS
<1> QED
  BY <1>1 DEF Passed

LEMMA PassedNone ==
    ASSUME pos = 1
    PROVE  \A t, f : ~Passed(t, f)
  BY DEF Passed

\* A step of a restore leaves the source directory and the sets alone.
LEMMA SameSets ==
    ASSUME UNCHANGED vars
    PROVE  /\ sets' = sets /\ kind' = kind
           /\ target' = target => Target' = Target /\ Own' = Own /\ Full' = Full
  BY DEF vars, runVars, Target, Own, Full

LEMMA BeginKeeps ==
    ASSUME ArchiveInv, RestoreInv, NEW k \in {"full", "diff"}, BeginRestore(k) \/ BeginCheck(k)
    PROVE  RestoreInv'
<1>1. /\ rpc = "idle" /\ kind = "idle" /\ k \in DOMAIN sets /\ target' = k
      /\ \/ mode' = "restore" /\ rpc' = "dirs"
         \/ mode' = "check" /\ rpc' = "own"
      /\ UNCHANGED vars /\ pos' = pos /\ done' = done /\ dest' = dest /\ made' = made
  BY DEF BeginRestore, BeginCheck, Begin
<1>2. sets' = sets /\ kind' = kind
  BY <1>1, SameSets
<1>3. done = {} /\ DOMAIN dest = {} /\ pos = 1
  BY <1>1 DEF RestoreInv
<1>4. \A t, f : ~Passed(t, f)'
  BY <1>1, <1>3 DEF Passed
<1> QED
  BY <1>1, <1>2, <1>3, <1>4 DEF RestoreInv

\* What a step has to keep while a restore or a check runs.
LEMMA Running ==
    ASSUME ArchiveInv, RestoreInv, rpc # "idle"
    PROVE  /\ kind = "idle" /\ target \in DOMAIN sets /\ mode \in {"restore", "check"}
           /\ pos \in Nat \ {0} /\ done \subseteq FilesOf(Target)
           /\ target \in {"full", "diff"}
           /\ SoundSet(target, Target, Own, BaseManifest)
           /\ SoundSet("full", BaseManifest, Full, BaseManifest)
<1>1. /\ kind = "idle" /\ target \in DOMAIN sets /\ mode \in {"restore", "check"}
      /\ pos \in Nat \ {0} /\ done \subseteq FilesOf(Target)
  BY DEF RestoreInv
<1> QED
  BY <1>1, Sources

LEMMA CreateKeeps ==
    ASSUME ArchiveInv, RestoreInv, CreateDirectories
    PROVE  RestoreInv'
<1>1. /\ rpc = "dirs" /\ made' = FoldersOf(Target) /\ UNCHANGED vars
      /\ rpc' = (IF target = "diff" THEN "base" ELSE "own")
      /\ target' = target /\ mode' = mode /\ pos' = pos /\ done' = done /\ dest' = dest
  BY DEF CreateDirectories
<1>2. sets' = sets /\ kind' = kind /\ Target' = Target
  BY <1>1, SameSets
<1>3. /\ kind = "idle" /\ target \in DOMAIN sets /\ target \in {"full", "diff"}
      /\ SoundSet(target, Target, Own, BaseManifest)
  BY <1>1, Running
<1>4. mode = "restore" /\ done = {} /\ pos = 1 /\ DOMAIN dest = done
  BY <1>1 DEF RestoreInv
<1>5. \A t, f : ~Passed(t, f)'
  BY <1>1, <1>4 DEF Passed
<1>6. target = "full" => \A f \in FilesOf(Target) : Target[f].inSet
  BY <1>3, SoundFiles
<1> QED
  BY <1>1, <1>2, <1>3, <1>4, <1>5, <1>6 DEF RestoreInv

\* The next entry is extracted if it is one that the section has for the set,
\* and otherwise read past: none is refused.
LEMMA Extracts ==
    ASSUME ArchiveInv, RestoreInv, InSection, pos <= Len(Section), pos' = pos + 1
    PROVE  LET t == Section[pos]
               f == t.path
               mine == f \in FilesOf(Target) /\ (Target[f].inSet <=> rpc = "own")
           IN /\ f \in File
              /\ mine => /\ Decide(f) = "extract" /\ Extractable(t, f)
                         /\ t.blocks = Target[f].hash /\ f \notin done
              /\ ~mine => Decide(f) = "skip"
<1> DEFINE t == Section[pos]
           f == t.path
           mine == f \in FilesOf(Target) /\ (Target[f].inSet <=> rpc = "own")
<1>0. rpc \in {"base", "own"}
  BY DEF InSection
<1>1. /\ mode \in {"restore", "check"} /\ pos \in Nat \ {0} /\ target \in {"full", "diff"}
      /\ done \subseteq FilesOf(Target)
      /\ SoundSet(target, Target, Own, BaseManifest)
      /\ SoundSet("full", BaseManifest, Full, BaseManifest)
  BY <1>0, Running
<1>2. /\ mode = "restore" => DOMAIN dest = done /\ made = FoldersOf(Target)
  BY <1>0 DEF RestoreInv
<1>3. \A g \in FilesOf(Target) :
        /\ Target[g].inSet \in BOOLEAN /\ Target[g].type = "file"
        /\ IsFile(Target, g) /\ g \in DOMAIN Target
        /\ Target[g].inSet <=> Target[g].origin = target
        /\ FolderOf[g] \in FoldersOf(Target) \cup {Root}
  BY <1>1, SoundFiles DEF IsFile
<1>4. CASE rpc = "base"
  <2>1. Section = Full /\ target = "diff" /\ Decide(f) = DecideFromBase(f) /\ mode = "restore"
    BY <1>4 DEF Section, Full, RestoreInv, Decide
  <2>2. pos \in 1 .. Len(Full) /\ ~Passed(Full, Full[pos].path)
    BY <1>1, <2>1, PassedNext
  <2>3. f \in File /\ t = Full[pos] /\ f = Full[pos].path
        /\ (f \in FilesOf(BaseManifest) => t.blocks = BaseManifest[f].hash)
    BY <1>1, <2>1, <2>2, SoundFiles
  <2>4. ASSUME mine
        PROVE  /\ f \in FilesOf(BaseManifest) /\ t.blocks = Target[f].hash
               /\ Len(t.blocks) = Target[f].size /\ Target[f].origin = "full"
    <3>1. /\ f \in FilesOf(BaseManifest) /\ Target[f].origin = "full"
          /\ Target[f].hash = BaseManifest[f].hash /\ Target[f].size = BaseManifest[f].size
      BY <1>1, <1>3, <1>4, <2>4, SoundFiles
    <3>2. Len(BaseManifest[f].hash) = BaseManifest[f].size
      BY <1>1, <3>1, SoundFiles
    <3> QED
      BY <2>3, <3>1, <3>2
  <2>5. ASSUME mine PROVE f \notin done
    <3>1. f \in FilesOf(Target) /\ ~Passed(Full, f)
      BY <2>2, <2>3, <2>5
    <3> QED
      BY <1>4, <3>1 DEF RestoreInv, Full
  <2>6. mine => Decide(f) = "extract"
    BY <1>3, <2>1, <2>4 DEF DecideFromBase
  <2>7. ~mine => Decide(f) = "skip"
    BY <1>3, <1>4, <2>1, <2>3 DEF DecideFromBase, FilesOf
  <2>8. mine => Extractable(t, f)
    BY <1>2, <1>3, <2>4, <2>5 DEF Extractable
  <2> QED
    BY <2>3, <2>4, <2>5, <2>6, <2>7, <2>8
<1>5. CASE rpc = "own"
  <2>1. Section = Own /\ Decide(f) = DecideOwn(f)
    BY <1>5 DEF Section, Own, Decide
  <2>2. pos \in 1 .. Len(Own) /\ ~Passed(Own, Own[pos].path)
    BY <1>1, <2>1, PassedNext
  <2>3. /\ f \in File /\ t = Own[pos] /\ f = Own[pos].path /\ f \in DOMAIN Target
        /\ \/ f \in FilesOf(Target) /\ Target[f].inSet /\ t.blocks = Target[f].hash
           \/ Target[f].void /\ (f \in FilesOf(Target) => ~Target[f].inSet)
        /\ f \in FilesOf(Target) <=> Target[f].type = "file"
    BY <1>1, <2>1, <2>2, SoundFiles
  <2>4. ASSUME mine
        PROVE  /\ f \in FilesOf(Target) /\ Target[f].inSet /\ t.blocks = Target[f].hash
               /\ Len(t.blocks) = Target[f].size
    <3>1. f \in FilesOf(Target) /\ Target[f].inSet /\ t.blocks = Target[f].hash
      BY <1>3, <1>5, <2>3, <2>4
    <3>2. Len(Target[f].hash) = Target[f].size
      BY <1>1, <3>1, SoundFiles
    <3> QED
      BY <3>1, <3>2
  <2>5. ASSUME mine PROVE f \notin done
    <3>1. f \in FilesOf(Target) /\ Target[f].inSet /\ ~Passed(Own, f)
      BY <2>2, <2>3, <2>4, <2>5
    <3> QED
      BY <1>5, <3>1 DEF RestoreInv, Own
  <2>6. mine => Decide(f) = "extract"
    BY <2>1, <2>3, <2>4 DEF DecideOwn
  <2>7. ~mine => Decide(f) = "skip"
    BY <1>3, <1>5, <2>1, <2>3 DEF DecideOwn
  <2>8. mine => Extractable(t, f)
    BY <1>2, <1>3, <2>4, <2>5 DEF Extractable
  <2> QED
    BY <2>3, <2>4, <2>5, <2>6, <2>7, <2>8
<1> QED
  BY <1>0, <1>4, <1>5

LEMMA ReadKeeps ==
    ASSUME ArchiveInv, RestoreInv, ReadEntry
    PROVE  RestoreInv'
<1> DEFINE t == Section[pos]
           f == t.path
           mine == f \in FilesOf(Target) /\ (Target[f].inSet <=> rpc = "own")
<1>0. /\ InSection /\ pos <= Len(Section) /\ pos' = pos + 1 /\ UNCHANGED vars
      /\ target' = target /\ mode' = mode /\ made' = made /\ rpc \in {"base", "own"}
  BY DEF ReadEntry, InSection
<1>1. /\ f \in File
      /\ mine => /\ Decide(f) = "extract" /\ Extractable(t, f)
                 /\ t.blocks = Target[f].hash /\ f \notin done
      /\ ~mine => Decide(f) = "skip"
  BY <1>0, Extracts
<1>2. /\ rpc' = rpc
      /\ done' = IF mine THEN done \cup {f} ELSE done
      /\ dest' = IF mine /\ mode = "restore" THEN Put(dest, f, t.blocks) ELSE dest
  BY <1>1 DEF ReadEntry
<1>3. /\ kind = "idle" /\ target \in DOMAIN sets /\ mode \in {"restore", "check"}
      /\ pos \in Nat \ {0} /\ done \subseteq FilesOf(Target) /\ target \in {"full", "diff"}
      /\ SoundSet(target, Target, Own, BaseManifest)
      /\ SoundSet("full", BaseManifest, Full, BaseManifest)
  BY <1>0, Running
<1>4. sets' = sets /\ kind' = kind /\ Target' = Target /\ Own' = Own /\ Full' = Full
  BY <1>0, SameSets
<1>5. \A g : Passed(Section, g)' <=> (Passed(Section, g) \/ g = f)
  <2>1. Section = Full \/ Section = Own
    BY DEF Section, Full, Own
  <2>2. Section' = Section
    BY <1>0, <1>2, <1>4 DEF Section
  <2>3. Len(Section) \in Nat /\ pos <= Len(Section) /\ pos \in Nat \ {0}
    BY <1>0, <1>3, <2>1, SoundFiles
  <2>4. \A i \in 1 .. Len(Section) : i < pos' <=> i < pos \/ i = pos
    BY <1>0, <2>3
  <2>5. pos \in 1 .. Len(Section)
    BY <2>3
  <2> QED
    BY <2>2, <2>4, <2>5 DEF Passed
<1>6. /\ mode = "restore" => /\ DOMAIN dest = done /\ made = FoldersOf(Target)
                             /\ \A g \in done : dest[g] = Target[g].hash
      /\ rpc = "base" => /\ target = "diff" /\ mode = "restore"
                         /\ \A g \in FilesOf(Target) :
                              g \in done <=> ~Target[g].inSet /\ Passed(Full, g)
      /\ rpc = "own" => \A g \in FilesOf(Target) :
                           /\ Target[g].inSet => (g \in done <=> Passed(Own, g))
                           /\ ~Target[g].inSet /\ mode = "restore" => g \in done
  BY <1>0 DEF RestoreInv, Full, Own
<1>7. done' \subseteq FilesOf(Target)
  BY <1>2, <1>3
<1>8. ASSUME mode = "restore"
      PROVE  DOMAIN dest' = done' /\ \A g \in done' : dest'[g] = Target[g].hash
  <2>1. CASE mine
    <3>1. dest' = Put(dest, f, t.blocks) /\ done' = done \cup {f} /\ t.blocks = Target[f].hash
      BY <1>1, <1>2, <1>8, <2>1
    <3>2. /\ DOMAIN dest' = DOMAIN dest \cup {f} /\ dest'[f] = t.blocks
          /\ \A g \in DOMAIN dest : g # f => dest'[g] = dest[g]
      BY <3>1 DEF Put
    <3> QED
      BY <1>6, <1>8, <3>1, <3>2
  <2>2. CASE ~mine
    BY <1>2, <1>6, <1>8, <2>2
  <2> QED
    BY <2>1, <2>2
<1>9. rpc = "base" => \A g \in FilesOf(Target) :
                         g \in done' <=> ~Target[g].inSet /\ Passed(Full, g)'
  <2> SUFFICES ASSUME rpc = "base", NEW g \in FilesOf(Target)
               PROVE  g \in done' <=> ~Target[g].inSet /\ Passed(Full, g)'
    OBVIOUS
  <2>1. Passed(Full, g)' <=> (Passed(Full, g) \/ g = f)
    <3>1. Section = Full /\ Section' = Full'
      BY <1>2 DEF Section, Full
    <3> QED
      BY <1>5, <3>1
  <2>2. g \in done <=> ~Target[g].inSet /\ Passed(Full, g)
    BY <1>6
  <2> QED
    BY <1>2, <2>1, <2>2
<1>10. rpc = "own" => \A g \in FilesOf(Target) :
                         /\ Target[g].inSet => (g \in done' <=> Passed(Own, g)')
                         /\ ~Target[g].inSet /\ mode = "restore" => g \in done'
  <2> SUFFICES ASSUME rpc = "own", NEW g \in FilesOf(Target)
               PROVE  /\ Target[g].inSet => (g \in done' <=> Passed(Own, g)')
                      /\ ~Target[g].inSet /\ mode = "restore" => g \in done'
    OBVIOUS
  <2>1. Passed(Own, g)' <=> (Passed(Own, g) \/ g = f)
    <3>1. Section = Own /\ Section' = Own'
      BY <1>2 DEF Section, Own
    <3> QED
      BY <1>5, <3>1
  <2>2. /\ Target[g].inSet => (g \in done <=> Passed(Own, g))
        /\ ~Target[g].inSet /\ mode = "restore" => g \in done
    BY <1>6
  <2> QED
    BY <1>2, <2>1, <2>2
<1>11. pos' \in Nat \ {0}
  BY <1>0, <1>3
<1> HIDE DEF t, f, mine
<1> QED
  BY <1>0, <1>2, <1>3, <1>4, <1>6, <1>7, <1>8, <1>9, <1>10, <1>11 DEF RestoreInv, Full, Own

LEMMA EndOfSectionKeeps ==
    ASSUME ArchiveInv, RestoreInv, EndOfSection
    PROVE  RestoreInv'
<1>0. /\ pos > Len(Section) /\ pos' = 1 /\ UNCHANGED vars /\ rpc \in {"base", "own"}
      /\ rpc' = (IF rpc = "base" THEN "own" ELSE "finish")
      /\ target' = target /\ mode' = mode /\ done' = done /\ dest' = dest /\ made' = made
  BY DEF EndOfSection, InSection
<1>1. /\ kind = "idle" /\ target \in DOMAIN sets /\ mode \in {"restore", "check"}
      /\ pos \in Nat \ {0} /\ done \subseteq FilesOf(Target) /\ target \in {"full", "diff"}
      /\ SoundSet(target, Target, Own, BaseManifest)
      /\ SoundSet("full", BaseManifest, Full, BaseManifest)
  BY <1>0, Running
<1>2. sets' = sets /\ kind' = kind /\ Target' = Target /\ Own' = Own
  BY <1>0, SameSets
<1>3. \A x, g : ~Passed(x, g)'
  BY <1>0 DEF Passed
<1>4. CASE rpc = "base"
  <2>1. /\ Section = Full
        /\ \A g \in FilesOf(Target) : g \in done <=> ~Target[g].inSet /\ Passed(Full, g)
    BY <1>4 DEF RestoreInv, Section, Full
  <2>2. ASSUME NEW g \in FilesOf(Target), ~Target[g].inSet PROVE g \in done
    <3>1. g \in FilesOf(BaseManifest)
      BY <1>1, <2>2, SoundFiles
    <3>2. Len(Full) \in Nat /\ \E i \in 1 .. Len(Full) : Full[i].path = g
      BY <1>1, <3>1, SoundFiles
    <3>3. Passed(Full, g)
      BY <1>0, <1>1, <2>1, <3>2, PassedAll
    <3> QED
      BY <2>1, <2>2, <3>3
  <2> QED
    BY <1>0, <1>1, <1>2, <1>3, <1>4, <2>1, <2>2 DEF RestoreInv
<1>5. CASE rpc = "own"
  <2>1. /\ Section = Own
        /\ \A g \in FilesOf(Target) :
             /\ Target[g].inSet => (g \in done <=> Passed(Own, g))
             /\ ~Target[g].inSet /\ mode = "restore" => g \in done
    BY <1>5 DEF RestoreInv, Section, Own
  <2>2. ASSUME NEW g \in FilesOf(Target), Target[g].inSet PROVE g \in done
    <3>1. Len(Own) \in Nat /\ \E i \in 1 .. Len(Own) : Own[i].path = g
      BY <1>1, <2>2, SoundFiles
    <3>2. Passed(Own, g)
      BY <1>0, <1>1, <2>1, <3>1, PassedAll
    <3> QED
      BY <2>1, <2>2, <3>2
  <2>3. \A g \in FilesOf(Target) : g \in done \/ (mode = "check" /\ ~Target[g].inSet)
    BY <1>1, <2>1, <2>2
  <2> QED
    BY <1>0, <1>1, <1>2, <1>5, <2>3 DEF RestoreInv
<1> QED
  BY <1>0, <1>4, <1>5

LEMMA RestoreKeeps ==
    ASSUME ArchiveInv, RestoreInv, RestoreStep
    PROVE  RestoreInv'
<1>1. CASE \E k \in {"full", "diff"} : BeginRestore(k) \/ BeginCheck(k)
  BY <1>1, BeginKeeps
<1>2. CASE CreateDirectories
  BY <1>2, CreateKeeps
<1>3. CASE ReadEntry
  BY <1>3, ReadKeeps
<1>4. CASE EndOfSection
  BY <1>4, EndOfSectionKeeps
<1>5. CASE Finish
  <2>1. /\ rpc = "finish" /\ UNCHANGED vars /\ target' = target /\ mode' = mode /\ pos' = pos
        /\ done' = done /\ dest' = dest /\ made' = made
        /\ \A f \in FilesOf(Target) : f \in done \/ (mode = "check" /\ ~Target[f].inSet)
    BY <1>5 DEF Finish, RestoreInv
  <2>2. rpc' = "done"
    BY <1>5, <2>1 DEF Finish
  <2>3. sets' = sets /\ kind' = kind /\ Target' = Target
    BY <2>1, SameSets
  <2> QED
    BY <2>1, <2>2, <2>3 DEF RestoreInv
<1>6. CASE Fails
  <2>1. /\ rpc # "idle" /\ rpc' = "failed" /\ UNCHANGED vars /\ target' = target /\ mode' = mode
        /\ pos' = pos /\ done' = done /\ dest' = dest
    BY <1>6 DEF Fails
  <2>2. sets' = sets /\ kind' = kind /\ Target' = Target
    BY <2>1, SameSets
  <2> QED
    BY <2>1, <2>2 DEF RestoreInv
<1>7. CASE Leave
  BY <1>7 DEF Leave, RestoreInv
<1> QED
  BY <1>1, <1>2, <1>3, <1>4, <1>5, <1>6, <1>7 DEF RestoreStep

\* The invariant: every set is sound and true, and a restore has done what it
\* has passed.
THEOREM RestoreInvariant == SpecAll => [](ArchiveInv /\ RestoreInv)
<1>1. InitAll => ArchiveInv /\ RestoreInv
  BY ArchiveInit DEF InitAll, RestoreInv
<1>2. ArchiveInv /\ RestoreInv /\ [NextAll]_allVars => (ArchiveInv /\ RestoreInv)'
  <2> SUFFICES ASSUME ArchiveInv, RestoreInv, [NextAll]_allVars
               PROVE  ArchiveInv' /\ RestoreInv'
    OBVIOUS
  <2>1. CASE rpc = "idle" /\ Next /\ UNCHANGED restoreVars
    <3>1. ArchiveInv'
      BY <2>1, BuildKeeps
    <3>2. rpc' = "idle" /\ pos' = pos /\ done' = done /\ dest' = dest
      BY <2>1 DEF restoreVars
    <3>3. RestoreInv'
      BY <2>1, <3>2 DEF RestoreInv
    <3> QED
      BY <3>1, <3>3
  <2>2. CASE RestoreStep
    <3>1. UNCHANGED vars
      BY <2>2 DEF RestoreStep, BeginRestore, BeginCheck, Begin, CreateDirectories, ReadEntry,
                  EndOfSection, Finish, Fails, Leave
    <3> QED
      BY <2>2, <3>1, ArchiveStutters, RestoreKeeps
  <2>3. CASE UNCHANGED allVars
    <3>1. UNCHANGED vars /\ UNCHANGED restoreVars
      BY <2>3 DEF allVars
    <3>2. /\ rpc' = rpc /\ target' = target /\ mode' = mode /\ pos' = pos /\ done' = done
          /\ dest' = dest /\ made' = made
      BY <3>1 DEF restoreVars
    <3>3. sets' = sets /\ kind' = kind /\ Target' = Target
      BY <3>1, <3>2, SameSets
    <3>4. \A x, f : Passed(x, f)' <=> Passed(x, f)
      BY <3>2 DEF Passed
    <3>5. RestoreInv'
      BY <3>2, <3>3, <3>4 DEF RestoreInv
    <3> QED
      BY <3>1, <3>5, ArchiveStutters
  <2> QED
    BY <2>1, <2>2, <2>3 DEF NextAll
<1> QED
  BY <1>1, <1>2, PTL DEF SpecAll

\* A file with the size and times of its entry in the full backup has the content
\* stored there: the test by which tarBuilder leaves a file out of a differential
\* is right, whatever other programs do during and after the full backup.
THEOREM TheTestIsRight == SpecAll => []UnchangedIsSame
<1>1. ArchiveInv => UnchangedIsSame
  <2> DEFINE m == BaseManifest
             t == Full
  <2> SUFFICES ASSUME ArchiveInv, "full" \in DOMAIN sets, NEW f \in File, IsFile(m, f),
                      disk[f].exists, m[f].chg = disk[f].chg
               PROVE  ContentIn(t, f) = {disk[f].blocks}
    BY DEF UnchangedIsSame, BaseManifest, Full
  <2>1. SoundSet("full", m, t, m) /\ Recorded(m, disk, clock)
    BY DEF ArchiveInv, SetInv, BaseManifest, Full
  <2>2. m[f].hash = disk[f].blocks
    BY <2>1 DEF Recorded
  <2> HIDE DEF m, t
  <2>3. f \in FilesOf(m)
    BY DEF FilesOf
  <2>4. m[f].inSet /\ \E i \in 1 .. Len(t) : t[i].path = f
    BY <2>1, <2>3, SoundFiles
  <2>5. \A i \in 1 .. Len(t) : t[i].path = f => t[i].blocks = m[f].hash
    BY <2>1, <2>3, <2>4, SoundFiles
  <2>6. DOMAIN t = 1 .. Len(t)
    BY <2>1 DEF SoundSet
  <2> QED
    BY <2>2, <2>4, <2>5, <2>6 DEF ContentIn
<1> QED
  BY <1>1, RestoreInvariant, PTL

\* What a run writes passes the program's own checks: its manifest is valid at
\* every moment, and no restore and no check of a finished set is refused.
THEOREM WhatIsWrittenIsAccepted == SpecAll => []SoundSetsAccepted
<1>1. ArchiveInv /\ RestoreInv => SoundSetsAccepted
  <2> SUFFICES ASSUME ArchiveInv, RestoreInv, kind # "idle"
               PROVE  ValidManifest(entries, kind)
    BY DEF SoundSetsAccepted, RestoreInv
  <2>1. SoundSet(kind, entries, tar, BaseManifest) /\ kind \in {"full", "diff"}
    BY DEF ArchiveInv, ArchiveType, RunInv
  <2> SUFFICES ASSUME NEW p \in DOMAIN entries
               PROVE  /\ ValidEntry(entries[p], kind)
                      /\ p \in File /\ FolderOf[p] # Root =>
                           FolderOf[p] \in DOMAIN entries /\ entries[FolderOf[p]].type = "dir"
    BY DEF ValidManifest
  <2>2. p \in File /\ FolderOf[p] # Root =>
          FolderOf[p] \in DOMAIN entries /\ entries[FolderOf[p]].type = "dir"
    BY <2>1 DEF SoundSet
  <2>3. ValidEntry(entries[p], kind)
    <3> SUFFICES ASSUME entries[p].type = "file" PROVE ValidEntry(entries[p], kind)
      BY DEF ValidEntry
    <3>1. p \in File /\ IsFile(entries, p)
      BY <2>1, Records DEF SoundSet, IsFile
    <3>2. entries[p].inSet \in BOOLEAN
      BY <2>1, <3>1, SoundEntries
    <3>3. /\ entries[p].inSet => entries[p].origin = kind /\ ~entries[p].stale /\ ~entries[p].void
          /\ ~entries[p].inSet => /\ kind = "diff" /\ entries[p].origin = "full"
                                  /\ entries[p].void => entries[p].stale
      BY <2>1, <3>1 DEF SoundSet
    <3> QED
      BY <2>1, <3>2, <3>3 DEF ValidEntry
  <2> QED
    BY <2>2, <2>3
<1> QED
  BY <1>1, RestoreInvariant, PTL

\* A restore that reports success gives back every file that nobody has touched
\* since the run began, as it is in the source directory, except those that the
\* set reports as unreadable, and none that was gone by then.
THEOREM RestoresAreFaithful == SpecAll => []RestoredAsBackedUp
<1>1. ArchiveInv /\ RestoreInv => RestoredAsBackedUp
  <2> SUFFICES ASSUME ArchiveInv, RestoreInv, rpc = "done", mode = "restore",
                      NEW f \in File, disk[f].chg <= sets[target].start
               PROVE  IF disk[f].exists
                      THEN \/ Reported(sets[target], f) \/ Reported(sets[target], FolderOf[f])
                           \/ f \in DOMAIN dest /\ dest[f] = disk[f].blocks
                      ELSE f \notin DOMAIN dest
    BY DEF RestoredAsBackedUp
  <2>1. /\ target \in DOMAIN sets /\ done = FilesOf(Target) /\ DOMAIN dest = done
        /\ \A g \in done : dest[g] = Target[g].hash
    BY DEF RestoreInv
  <2>2. TrueSince(Target, sets[target].start, disk)
    BY <2>1 DEF ArchiveInv, SetInv, Target
  <2>3. IF disk[f].exists THEN Told(Target, f, disk) ELSE ~IsFile(Target, f)
    BY <2>2 DEF TrueSince
  <2>4. \A p : Missing(Target, p) => Reported(sets[target], p)
    BY DEF Missing, Reported, Target
  <2>5. f \in done <=> IsFile(Target, f)
    BY <2>1 DEF FilesOf
  <2> QED
    BY <2>1, <2>3, <2>4, <2>5 DEF Told
<1> QED
  BY <1>1, RestoreInvariant, PTL
=============================================================================
