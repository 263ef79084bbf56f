------------------------------ MODULE Container ------------------------------
(***************************************************************************)
(* The container format of a set (internal/format/container) as units: the *)
(* header, every encrypted chunk of the data and the manifest section, and *)
(* the trailer.  Its part files, put together, are read back: Open finds   *)
(* the structure without a key, and every chunk authenticates only with    *)
(* the keys, the header, the section and the place it was sealed for       *)
(* (internal/security/cryptox).                                            *)
(*                                                                         *)
(* A set is a record: its name, the full chunks of its sections, and       *)
(* whether the final chunk of a section holds a rest or is empty.          *)
(***************************************************************************)
EXTENDS Naturals, Sequences, SequencesExt

-----------------------------------------------------------------------------
(* What Write writes *)

Header(set) == [kind |-> "header", set |-> set]

\* writeEncryptedChunk: flags, index, section and header hash are authenticated;
\* the key is of this set and section.
Chunk(set, section, index) ==
  [kind |-> "chunk", set |-> set, section |-> section, index |-> index,
   final |-> index = set[section].full + 1]

\* EncryptStream: the full chunks and a final one.
SectionOf(set, section) ==
  [i \in 1 .. set[section].full + 1 |-> Chunk(set, section, i)]

\* A chunk that holds plaintext.
Holds(chunk) == chunk.final => chunk.set[chunk.section].rest

\* The trailer locates the sections and says how many parts there are.  It names
\* no set.
Trailer(set, parts) ==
  [kind |-> "trailer", data |-> set.data.full + 1, manifest |-> set.manifest.full + 1,
   parts |-> parts]

Stream(set, parts) ==
  <<Header(set)>> \o SectionOf(set, "data") \o SectionOf(set, "manifest")
    \o <<Trailer(set, parts)>>

\* The split writer: the units of part i.
Part(stream, partSize, i) ==
  SubSeq(stream, partSize * (i - 1) + 1,
         IF partSize * i < Len(stream) THEN partSize * i ELSE Len(stream))

\* Bytes no program wrote.
Garbage == [kind |-> "garbage"]

-----------------------------------------------------------------------------
(* Open: files is a function from the numbers of the parts that are there to *)
(* their units.                                                              *)

\* checkContinuity: no part is missing below the last one.
NoGap(files) == \A p \in DOMAIN files : p = 1 \/ p - 1 \in DOMAIN files

\* newPartsReader measures the parts once: the place of every unit.
Layout(files) ==
  FlattenSeq([p \in DOMAIN files |-> [k \in DOMAIN files[p] |-> <<p, k>>]])

\* partsReader.ReadAt: a part that was removed or is shorter than it was gives no
\* unit.
ReadAt(files, place) ==
  IF place[1] \in DOMAIN files /\ place[2] \in DOMAIN files[place[1]]
  THEN files[place[1]][place[2]] ELSE Garbage

\* ReadHeader: a header that is valid and of this format.
ReadHeader(unit) == unit.kind = "header"

\* DecodeTrailer: its magic number and checksum are there.
DecodeTrailer(unit) == unit.kind = "trailer"

\* Trailer.check, with the header as first unit.
CheckTrailer(t, units, parts) ==
  /\ 1 + t.data + t.manifest + 1 = units
  /\ t.parts = parts

\* OpenSet: why the part files can't be used under this name, as FaultOf says it,
\* or "none".  A missing last part is seen only by the trailer.
Fault(files, name) ==
  LET layout == Layout(files)
      units == Len(layout)
      first == ReadAt(files, layout[1])
      last == ReadAt(files, layout[units])
  IN IF ~NoGap(files) THEN "missing parts"
     ELSE IF units = 0 \/ ~ReadHeader(first) THEN "damaged"
     ELSE IF ~DecodeTrailer(last) THEN "incomplete"
     ELSE IF ~CheckTrailer(last, units, Len(files)) THEN "incomplete"
     ELSE IF first.set.name # name THEN "renamed"
     ELSE "none"

\* The opened set: its header and trailer, and the places of its units.
Open(files) ==
  LET layout == Layout(files)
  IN [set |-> ReadAt(files, layout[1]).set,
      trailer |-> ReadAt(files, layout[Len(layout)]),
      layout |-> layout]

-----------------------------------------------------------------------------
(* Reading a section of an opened set *)

\* sectionReader: the units between two offsets, as they are now.
Units(files, opened, section) ==
  LET start == IF section = "data" THEN 1 ELSE 1 + opened.trailer.data
  IN [i \in 1 .. opened.trailer[section] |-> ReadAt(files, opened.layout[start + i])]

\* Faulty variant: keys and associated data don't depend on the header.
AuthenticInSection(unit, set, section, index) ==
  /\ unit.kind = "chunk"
  /\ unit.section = section /\ unit.index = index

\* gcm.Open with the nonce of the index, the associated data of header hash,
\* section, index and flags, and the key derived from the header hash.
Authentic(unit, set, section, index) ==
  /\ unit.kind = "chunk" /\ unit.set = set
  /\ unit.section = section /\ unit.index = index

\* DecryptStream: how many chunks decrypt before the first that doesn't, or that
\* follows the final one.
Decrypted(units, set, section) ==
  LET good(i) == /\ Authentic(units[i], set, section, i)
                 /\ i > 1 => ~units[i - 1].final
      prefixes == {n \in 0 .. Len(units) : \A i \in 1 .. n : good(i)}
  IN CHOOSE n \in prefixes : \A k \in prefixes : k <= n

\* ... and whether the section ends well: after its final chunk.
EndsWell(units, set, section) ==
  /\ Decrypted(units, set, section) = Len(units)
  /\ units[Len(units)].final

\* The chunks with plaintext among them.
Plaintext(units, set, section) ==
  SelectSeq(SubSeq(units, 1, Decrypted(units, set, section)), Holds)
=============================================================================
