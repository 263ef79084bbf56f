----------------------------- MODULE WriteAndRead -----------------------------
(***************************************************************************)
(* A set is written and then read again, section by section, as a backup   *)
(* with verify_after_backup, a verification or a restore does: the set is  *)
(* opened, its manifest read, then its data (restorepoint.VerifyOwnData).  *)
(* The part files may be lost, cut off, damaged or mixed up with those of  *)
(* another set, before the set is opened and after.                        *)
(***************************************************************************)
EXTENDS SetWriter, Container

CONSTANT MaxDamages  \* bound: times something happens to the part files

VARIABLES
  files,      \* the part files on the disk, by their number in the name
  mine,       \* the set that was written
  damages,
  fault,      \* "" before the set is opened, then what Open says
  opened,     \* the opened set
  got,        \* the plaintext chunks of the sections that were read
  section, chunks, damage, stopped, dpc, sent, decErr, recorded, readEnd,
  readClosed, cpc, consumeErr, outcome

diskVars == <<files, mine, damages, fault, opened, got>>
readVars == <<section, chunks, damage, stopped, dpc, sent, decErr, recorded, readEnd,
              readClosed, cpc, consumeErr, outcome>>

Reading == INSTANCE ReadPipeline WITH
  size <- chunks, cancelled <- stopped, pipeEnd <- readEnd,
  pipeClosed <- readClosed, result <- outcome

allVars == <<vars, diskVars, readVars>>

NoFiles == <<>>

-----------------------------------------------------------------------------
(* The part files *)

Sections(n, dataRest, m, manifestRest) ==
  [data |-> [full |-> n, rest |-> dataRest],
   manifest |-> [full |-> m, rest |-> manifestRest]]

Named(name, sections) ==
  [name |-> name, data |-> sections.data, manifest |-> sections.manifest]

PartFiles(set) ==
  LET parts_ == PartsFor(set.data.full + set.manifest.full + 4)
      stream == Stream(set, parts_)
  IN [i \in 1 .. parts_ |-> Part(stream, PartSize, i)]

\* What Write wrote and renamed.  The final chunks may be empty if others aren't.
Written ==
  /\ Over /\ result = "ok" /\ files = NoFiles /\ mine.name = ""
  /\ \E dataRest, manifestRest \in BOOLEAN :
       /\ taken > 0 \/ dataRest
       /\ mtaken > 0 \/ manifestRest
       /\ mine' = Named("this", Sections(taken, dataRest, mtaken, manifestRest))
  /\ files' = LET stream == Stream(mine', promised)
              IN [i \in 1 .. renamed |-> Part(stream, PartSize, i)]
  /\ UNCHANGED <<vars, damages, fault, opened, got, readVars>>

\* Sets whose files are as long as this one's: another run of the same folder, or
\* one with more data and a shorter manifest.
Others ==
  {Named("other", Sections(mine.data.full + k, mine.data.rest,
                           mine.manifest.full - k, mine.manifest.rest)) :
    k \in 0 .. mine.manifest.full}

\* Something happens to the part files, while they are still to be read.
Happens(new) ==
  /\ mine.name # "" /\ damages < MaxDamages /\ fault \in {"", "none"}
  /\ section = "none" \/ (section = "manifest" /\ Reading!Over /\ outcome = "ok")
  /\ files' = new /\ files' # files
  /\ damages' = damages + 1
  /\ UNCHANGED <<vars, mine, fault, opened, got, readVars>>

\* A part is deleted or not copied.
LosePart == \E p \in DOMAIN files : Happens([q \in DOMAIN files \ {p} |-> files[q]])

\* A part is cut off.
CutPart ==
  \E p \in DOMAIN files :
    files[p] # <<>> /\ Happens([files EXCEPT ![p] = SubSeq(@, 1, Len(@) - 1)])

\* A unit is damaged on the disk.
DamageUnit ==
  \E p \in DOMAIN files : \E k \in DOMAIN files[p] :
    Happens([files EXCEPT ![p][k] = Garbage])

\* Part files of this set or of another one get the names of others.
MixParts ==
  \/ \E p, q \in DOMAIN files : Happens([files EXCEPT ![p] = files[q], ![q] = files[p]])
  \/ \E s \in Others : \E ps \in SUBSET (DOMAIN files \cap DOMAIN PartFiles(s)) :
       Happens([p \in DOMAIN files |-> IF p \in ps THEN PartFiles(s)[p] ELSE files[p]])

Disk == LosePart \/ CutPart \/ DamageUnit \/ MixParts

-----------------------------------------------------------------------------
(* Reading *)

OpenSet ==
  /\ mine.name # "" /\ fault = "" /\ files # NoFiles
  /\ fault' = Fault(files, "this")
  /\ opened' = IF fault' = "none" THEN Open(files) ELSE opened
  /\ UNCHANGED <<vars, files, mine, damages, got, readVars>>

\* The chunks of the section are decrypted as far as they authenticate.
ReadSection(s) ==
  LET units == Units(files, opened, s)
      plain == Plaintext(units, opened.set, s)
  IN /\ Reading!Begin(s, Len(plain), ~EndsWell(units, opened.set, s))
     /\ got' = [got EXCEPT ![s] = plain]
     /\ UNCHANGED <<vars, files, mine, damages, fault, opened>>

ReadManifest == fault = "none" /\ section = "none" /\ ReadSection("manifest")

\* ... if the manifest could be read.
ReadData ==
  section = "manifest" /\ Reading!Over /\ outcome = "ok" /\ ReadSection("data")

Reads == section # "none" /\ Reading!Next /\ UNCHANGED <<vars, diskVars>>

\* Nothing is left to read: no set was written or it can't be opened, a section
\* failed, or both were read.
Ended ==
  /\ Over /\ UNCHANGED allVars
  /\ \/ result # "ok"
     \/ fault \notin {"", "none"}
     \/ mine.name # "" /\ files = NoFiles
     \/ section # "none" /\ Reading!Over /\ (outcome = "ok" => section = "data")

AllInit ==
  /\ Init /\ Reading!Init
  /\ files = NoFiles /\ damages = 0 /\ fault = "" /\ opened = [set |-> NoFiles]
  /\ mine = Named("", Sections(0, FALSE, 0, FALSE))
  /\ got = [manifest |-> <<>>, data |-> <<>>]
AllNext ==
  \/ Next /\ UNCHANGED <<diskVars, readVars>>
  \/ Written \/ Disk \/ OpenSet \/ ReadManifest \/ ReadData \/ Reads \/ Ended

\* The goroutines of either side go on, and a set that was opened is read.
AllSpec ==
  /\ AllInit /\ [][AllNext]_allVars
  /\ Fairness /\ Reading!Fairness
  /\ WF_allVars(ReadManifest) /\ WF_allVars(ReadData)

-----------------------------------------------------------------------------
(* Properties *)

\* What counts as read is what was written, whatever happened to the part files:
\* if manifest and data were read, all chunks of both sections were decrypted and
\* consumed, none was left out, moved, or taken from another set with the same
\* keys.  An error is blamed on the side that had one of its own, never on the
\* side that only felt the other one end, and a set nothing happened to can be
\* opened.
SuccessMeansAll ==
  /\ Reading!SuccessMeansAll /\ Reading!BlameIsReal
  /\ outcome = "ok" =>
       /\ got[section] = SelectSeq(SectionOf(mine, section), Holds)
       /\ sent = Len(got[section])
  /\ damages = 0 => fault \in {"", "none"}

\* Whoever stops first, the other side ends too: "the decrypt goroutine can
\* never block forever" (decrypt_pipeline.go).
ReadReturns == section # "none" ~> Reading!Over

-----------------------------------------------------------------------------
(* The inductive invariant *)

SectionRecords == [full : Nat, rest : BOOLEAN]
SetRecords == [name : {"", "this", "other"}, data : SectionRecords, manifest : SectionRecords]

\* What a writer of the set writes.
UnitsOf(set) ==
  {Header(set), Trailer(set, PartsFor(set.data.full + set.manifest.full + 4))}
    \cup UNION {{Chunk(set, s, i) : i \in 1 .. set[s].full + 1} : s \in {"data", "manifest"}}

\* What can be in a part file: a unit that was written for this set or another
\* one, or bytes nobody wrote.
Readable == {Garbage} \cup UNION {UnitsOf(set) : set \in {mine} \cup Others}

\* The part files, from the first write on: as they were written until something
\* happens to them, and never with a unit that was sealed for this set but that
\* its writer didn't write.
FilesInOrder ==
  /\ damages \in Nat /\ mine \in SetRecords /\ mine.name \in {"", "this"}
  /\ mine.name = "" => files = NoFiles /\ fault = ""
  /\ \A p \in DOMAIN files : files[p] \in Seq(Readable)
  /\ mine.name = "this" /\ damages = 0 => files = PartFiles(mine)
  /\ damages = 0 => fault \in {"", "none"}

\* The opened set is the one that was written, whatever the trailer says, and a
\* section that ended well was the section of that set.
OpenedInOrder ==
  /\ DOMAIN got = {"data", "manifest"}
  /\ fault = "none" =>
       /\ mine.name = "this" /\ opened.set = mine
       /\ {opened.trailer.data, opened.trailer.manifest} \subseteq Nat \ {0}
  /\ section # "none" =>
       /\ fault = "none" /\ section \in {"data", "manifest"}
       /\ chunks = Len(got[section])
       /\ ~damage => got[section] = SelectSeq(SectionOf(mine, section), Holds)

SetInv == WriterInv /\ Reading!ReadInv /\ FilesInOrder /\ OpenedInOrder
=============================================================================
