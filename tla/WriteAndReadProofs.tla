-------------------------- MODULE WriteAndReadProofs --------------------------
(***************************************************************************)
(* For any sizes of streams, buffer and parts: a set that is reported as   *)
(* written is whole, and what is reported as read is what was written,     *)
(* whatever happened to the part files in between.                         *)
(***************************************************************************)
EXTENDS WriteAndRead, TLAPS, SequenceTheorems, WellFoundedInduction

-----------------------------------------------------------------------------
(* Writing *)

\* Before its first step the writer is in order.
LEMMA WriterInvInit == Init => WriterInv
<1> SUFFICES ASSUME Init PROVE WriterInv
  OBVIOUS
<1> USE DEF Init
<1>0. MaxData \in Nat /\ MaxManifest \in Nat
  BY SizesAssumption
<1>a. size \in Nat /\ taken \in 0 .. size /\ msize \in Nat /\ mtaken \in 0 .. msize
  BY <1>0
<1>b. /\ pipeClosed \in BOOLEAN /\ manifestClosed \in BOOLEAN /\ tarDone \in BOOLEAN
      /\ outErr \in BOOLEAN
  OBVIOUS
<1>1. WriterType
  BY <1>a, <1>b DEF WriterType, EarlySteps
<1>2. TarInOrder /\ ManifestInOrder /\ CallerInOrder
  BY DEF TarInOrder, ManifestInOrder, CallerInOrder, EarlySteps, ManifestSteps, LateSteps
<1>3. UnitsInOrder /\ WholeSetOnSuccess
  BY DEF UnitsInOrder, WholeSetOnSuccess, EarlySteps, LateSteps, Emitted
<1> QED
  BY <1>1, <1>2, <1>3 DEF WriterInv

\* One unit more is in the buffer or behind it, unless writing fails.
LEMMA EmitAdds ==
  ASSUME buf \in Nat, written \in Nat, outErr = FALSE, Emit
  PROVE  /\ buf' \in Nat /\ written' \in Nat /\ outErr' \in BOOLEAN
         /\ ~outErr' => written' + buf' = written + buf + 1
<1>1. CASE buf < BufSize /\ buf' = buf + 1 /\ UNCHANGED <<written, parts, outErr>>
  <2>1. outErr' = FALSE
    BY <1>1
  <2>2. buf' \in Nat /\ written' \in Nat /\ written' + buf' = written + buf + 1
    BY <1>1
  <2> QED
    BY <2>1, <2>2
<1>2. CASE written' = written + buf /\ buf' = 1 /\ UNCHANGED outErr
  <2>1. outErr' = FALSE
    BY <1>2
  <2>2. buf' \in Nat /\ written' \in Nat /\ written' + buf' = written + buf + 1
    BY <1>2
  <2> QED
    BY <2>1, <2>2
<1>3. CASE Flush /\ outErr'
  <2>1. PICK k \in 0 .. buf, first \in {0, 1} :
          written' = written + k /\ outErr' = TRUE /\ UNCHANGED buf
  BY <1>3 DEF Flush
  <2> QED
    BY <2>1
<1> QED
  BY <1>1, <1>2, <1>3 DEF Emit

\* Everything is in part files, unless writing fails.
LEMMA FlushWrites ==
  ASSUME buf \in Nat, written \in Nat, outErr = FALSE, Flush
  PROVE  /\ buf' \in Nat /\ written' \in Nat /\ outErr' \in BOOLEAN
         /\ ~outErr' => written' = written + buf /\ buf' = 0 /\ parts' = PartsFor(written')
<1>1. CASE /\ written' = written + buf /\ parts' = PartsFor(written')
           /\ buf' = 0 /\ UNCHANGED outErr
  <2>1. outErr' = FALSE
    BY <1>1
  <2>2. buf' \in Nat /\ written' \in Nat
    BY <1>1
  <2> QED
    BY <1>1, <2>1, <2>2, Zenon
<1>2. CASE \E k \in 0 .. buf, first \in {0, 1} :
             written' = written + k /\ outErr' = TRUE /\ UNCHANGED buf
  BY <1>2
<1> QED
  BY <1>1, <1>2 DEF Flush

\* A step of the TAR goroutine keeps the writer's invariant.
LEMMA TarKeeps ==
  ASSUME WriterInv, Tar
  PROVE  WriterInv'
<1> USE DEF WriterInv, tarVars, pipeVars, manifestVars, outVars, endVars, Errors, EarlySteps,
            ManifestSteps, LateSteps, WriterType, TarInOrder, ManifestInOrder, CallerInOrder,
            UnitsInOrder, Emitted, WholeSetOnSuccess, Over
<1>1. CASE Offer
  BY <1>1 DEF Offer
<1>2. CASE TarEnds
  BY <1>2 DEF TarEnds
<1>3. CASE SourceFails
  BY <1>3 DEF SourceFails, TarFails
<1>4. CASE NoticeCancel
  BY <1>4 DEF NoticeCancel, TarFails
<1>5. CASE WriteRefused
  BY <1>5 DEF WriteRefused, TarFails
<1>6. CASE CloseTar
  BY <1>6 DEF CloseTar
<1>7. CASE SendTarErr
  BY <1>7 DEF SendTarErr
<1> QED
  BY <1>1, <1>2, <1>3, <1>4, <1>5, <1>6, <1>7 DEF Tar

\* So does a step of the manifest goroutine ...
LEMMA ManifestFnKeeps ==
  ASSUME WriterInv, ManifestFn
  PROVE  WriterInv'
<1> USE DEF WriterInv, tarVars, pipeVars, manifestVars, outVars, endVars, Errors, EarlySteps,
            ManifestSteps, LateSteps, WriterType, TarInOrder, ManifestInOrder, CallerInOrder,
            UnitsInOrder, Emitted, WholeSetOnSuccess, Over
<1>1. CASE ReceiveTarErr
  BY <1>1 DEF ReceiveTarErr
<1>2. CASE EncodeFails
  BY <1>2 DEF EncodeFails
<1>3. CASE Encode
  BY <1>3 DEF Encode
<1>4. CASE ManifestRefused
  BY <1>4 DEF ManifestRefused
<1>5. CASE CloseManifest
  BY <1>5 DEF CloseManifest
<1> QED
  BY <1>1, <1>2, <1>3, <1>4, <1>5 DEF ManifestFn

\* ... and a step of container.Write or of the end of setwriter.Write.
LEMMA CallerKeeps ==
  ASSUME WriterInv, Caller
  PROVE  WriterInv'
<1> USE DEF WriterInv, tarVars, pipeVars, manifestVars, outVars, endVars, Errors, EarlySteps,
            ManifestSteps, LateSteps, WriterType, TarInOrder, ManifestInOrder, CallerInOrder,
            UnitsInOrder, Emitted, WholeSetOnSuccess, Over
<1>1. CASE PutHeader
  <2>0. /\ buf' \in Nat /\ written' \in Nat /\ outErr' \in BOOLEAN
        /\ ~outErr' => written' + buf' = written + buf + 1
    BY <1>1, EmitAdds DEF PutHeader, Put
  <2> QED
    BY <1>1, <2>0 DEF PutHeader, Put
<1>2. CASE TakeChunk
  BY <1>2 DEF TakeChunk
<1>3. CASE PutChunk
  <2>0. /\ buf' \in Nat /\ written' \in Nat /\ outErr' \in BOOLEAN
        /\ ~outErr' => written' + buf' = written + buf + 1
    BY <1>3, EmitAdds DEF PutChunk, Put
  <2> QED
    BY <1>3, <2>0 DEF PutChunk, Put
<1>4. CASE EndOfData
  BY <1>4 DEF EndOfData
<1>5. CASE PutFinal
  <2>0. /\ buf' \in Nat /\ written' \in Nat /\ outErr' \in BOOLEAN
        /\ ~outErr' => written' + buf' = written + buf + 1
    BY <1>5, EmitAdds DEF PutFinal, Put
  <2> QED
    BY <1>5, <2>0 DEF PutFinal, Put
<1>6. CASE TakeManifest
  BY <1>6 DEF TakeManifest
<1>7. CASE EndOfManifest
  BY <1>7 DEF EndOfManifest
<1>8. CASE PutManifestChunk
  <2>0. /\ buf' \in Nat /\ written' \in Nat /\ outErr' \in BOOLEAN
        /\ ~outErr' => written' + buf' = written + buf + 1
    BY <1>8, EmitAdds DEF PutManifestChunk, PutManifest
  <2> QED
    BY <1>8, <2>0 DEF PutManifestChunk, PutManifest
<1>9. CASE PutManifestFinal
  <2>0. /\ buf' \in Nat /\ written' \in Nat /\ outErr' \in BOOLEAN
        /\ ~outErr' => written' + buf' = written + buf + 1
    BY <1>9, EmitAdds DEF PutManifestFinal, PutManifest
  <2> QED
    BY <1>9, <2>0 DEF PutManifestFinal, PutManifest
<1>10. CASE JoinManifest
  BY <1>10 DEF JoinManifest
<1>11. CASE PutTrailer
  <2>0. /\ buf' \in Nat /\ written' \in Nat /\ outErr' \in BOOLEAN
        /\ ~outErr' => written' + buf' = written + buf + 1
    BY <1>11, EmitAdds DEF PutTrailer
  <2> QED
    BY <1>11, <2>0 DEF PutTrailer
<1>12. CASE ClosePipe
  BY <1>12 DEF ClosePipe
<1>13. CASE JoinTar
  BY <1>13 DEF JoinTar
<1>14. CASE FlushAndClose
  <2>0. /\ buf' \in Nat /\ written' \in Nat /\ outErr' \in BOOLEAN
        /\ ~outErr' => /\ ~outErr /\ written' = written + buf /\ buf' = 0
                       /\ parts' = PartsFor(written')
    BY <1>14, FlushWrites DEF FlushAndClose
  <2> QED
    BY <1>14, <2>0 DEF FlushAndClose
<1>15. CASE Fail
  BY <1>15 DEF Fail, FirstError
<1>16. CASE Rename
  BY <1>16 DEF Rename, FirstError
<1>17. CASE RenameFails
  BY <1>17 DEF RenameFails, FirstError
<1>18. CASE Finish
  BY <1>18 DEF Finish, FirstError
<1> QED
  BY <1>1, <1>2, <1>3, <1>4, <1>5, <1>6, <1>7, <1>8, <1>9, <1>10, <1>11, <1>12,
     <1>13, <1>14, <1>15, <1>16, <1>17, <1>18 DEF Caller

\* Nothing the writer's invariant speaks of changes.
LEMMA WriterStutters ==
  ASSUME WriterInv, UNCHANGED vars
  PROVE  WriterInv'
BY DEF vars, WriterInv, tarVars, pipeVars, manifestVars, outVars, endVars, Errors, EarlySteps,
       ManifestSteps, LateSteps, WriterType, TarInOrder, ManifestInOrder, CallerInOrder,
       UnitsInOrder, Emitted, WholeSetOnSuccess, Over, PartsFor

\* Every step keeps the writer's invariant: reading and what happens to the part
\* files leave the writer alone.
LEMMA WriterInvNext ==
  ASSUME WriterInv, [AllNext]_allVars
  PROVE  WriterInv'
<1>1. CASE Next
  <2>1. CASE Cancel
    BY <2>1 DEF Cancel, WriterInv, tarVars, pipeVars, manifestVars, outVars, endVars, Errors,
                EarlySteps, ManifestSteps, LateSteps, WriterType, TarInOrder,
                ManifestInOrder, CallerInOrder, UnitsInOrder, Emitted, WholeSetOnSuccess, Over,
                PartsFor
  <2> QED
    BY <1>1, <2>1, TarKeeps, ManifestFnKeeps, CallerKeeps DEF Next
<1>2. CASE UNCHANGED vars
  BY <1>2, WriterStutters
<1>3. Next \/ UNCHANGED vars
  BY DEF AllNext, allVars, Written, Disk, LosePart, CutPart, DamageUnit, MixParts, Happens,
         OpenSet, ReadManifest, ReadData, ReadSection, Reads, Ended
<1> QED
  BY <1>1, <1>2, <1>3

\* For any sizes of the streams, the buffer and the parts: setwriter.Write reports
\* success only for a whole set, all of whose parts have their final names, and no
\* goroutine of its outlives it.
THEOREM AWrittenSetIsWhole == AllSpec => []WholeSetOnSuccess
<1>1. AllInit => WriterInv
  BY WriterInvInit DEF AllInit
<1>2. WriterInv /\ [AllNext]_allVars => WriterInv'
  BY WriterInvNext
<1>3. WriterInv => WholeSetOnSuccess
  BY DEF WriterInv
<1> QED
  BY <1>1, <1>2, <1>3, PTL DEF AllSpec

-----------------------------------------------------------------------------
(* Reading a section *)

\* Before the first section is read.
LEMMA ReadInvInit == Reading!Init => Reading!ReadInv
BY DEF Reading!Init, Reading!ReadInv, Reading!DecryptionInOrder, Reading!ConsumerInOrder,
       Reading!OwnErrors, Reading!SuccessMeansAll, Reading!BlameIsReal

\* A section is begun.
LEMMA ReadInvBegin ==
  ASSUME NEW s \in {"data", "manifest"}, NEW n, NEW bad, Reading!Begin(s, n, bad)
  PROVE  Reading!ReadInv'
BY DEF Reading!Begin, Reading!ReadInv, Reading!DecryptionInOrder, Reading!ConsumerInOrder,
       Reading!OwnErrors, Reading!SuccessMeansAll, Reading!BlameIsReal

\* A step of the decryption, of the consumer or of whoever cancels.
LEMMA ReadInvStep ==
  ASSUME Reading!ReadInv, Reading!Next
  PROVE  Reading!ReadInv'
<1> USE DEF Reading!ReadInv, Reading!DecryptionInOrder, Reading!ConsumerInOrder,
            Reading!OwnErrors, Reading!SuccessMeansAll, Reading!BlameIsReal, Reading!Reported
<1>1. CASE Reading!Decryption
  <2>1. CASE Reading!Decrypt
    BY <2>1 DEF Reading!Decrypt
  <2>2. CASE Reading!ChunkFails
    BY <2>2 DEF Reading!ChunkFails, Reading!DecryptFails
  <2>3. CASE Reading!PartFails
    BY <2>3 DEF Reading!PartFails, Reading!DecryptFails
  <2>4. CASE Reading!WriteCancelled
    BY <2>4 DEF Reading!WriteCancelled, Reading!DecryptFails
  <2>5. CASE Reading!WriteRefused
    BY <2>5 DEF Reading!WriteRefused, Reading!DecryptFails
  <2>6. CASE Reading!AllDecrypted
    BY <2>6 DEF Reading!AllDecrypted
  <2>7. CASE Reading!EndDecryption
    BY <2>7 DEF Reading!EndDecryption
  <2> QED
    BY <1>1, <2>1, <2>2, <2>3, <2>4, <2>5, <2>6, <2>7 DEF Reading!Decryption
<1>2. CASE Reading!Consumer
  <2>1. CASE Reading!Take
    BY <2>1 DEF Reading!Take
  <2>2. CASE Reading!Stop("failed")
    BY <2>2 DEF Reading!Stop
  <2>3. CASE (section = "data" \/ readEnd = "ok") /\ Reading!Stop("ok")
    BY <2>3 DEF Reading!Stop
  <2>4. CASE Reading!Upstream
    BY <2>4 DEF Reading!Upstream
  <2>5. CASE Reading!ClosePipe
    BY <2>5 DEF Reading!ClosePipe
  <2>6. CASE Reading!Return
    BY <2>6 DEF Reading!Return
  <2> QED
    BY <1>2, <2>1, <2>2, <2>3, <2>4, <2>5, <2>6 DEF Reading!Consumer
<1>3. CASE Reading!Cancel
  BY <1>3 DEF Reading!Cancel
<1> QED
  BY <1>1, <1>2, <1>3 DEF Reading!Next

-----------------------------------------------------------------------------
(* The split writer *)

\* Integer division.
LEMMA DivBounds ==
  ASSUME NEW a \in Nat, NEW b \in Nat \ {0}
  PROVE  a \div b \in Nat /\ b * (a \div b) <= a /\ a < b * (a \div b) + b
OBVIOUS

\* The split writer opens no part it has no unit for.
LEMMA PartsForBounds ==
  ASSUME NEW units \in Nat \ {0}
  PROVE  /\ PartsFor(units) \in Nat \ {0}
         /\ PartSize * (PartsFor(units) - 1) < units
         /\ units <= PartSize * PartsFor(units)
<1> DEFINE q == (units + PartSize - 1) \div PartSize
<1>1. PartSize \in Nat \ {0} /\ units + PartSize - 1 \in Nat
  BY SizesAssumption
<1>2. /\ q \in Nat /\ PartSize * q <= units + PartSize - 1
      /\ units + PartSize - 1 < PartSize * q + PartSize
  BY <1>1, DivBounds
<1> HIDE DEF q
<1>3. q # 0
  BY <1>1, <1>2
<1>4. PartSize * (q - 1) = PartSize * q - PartSize /\ PartSize * q \in Nat
  BY <1>1, <1>2
<1> QED
  BY <1>1, <1>2, <1>3, <1>4 DEF PartsFor, q

\* What the split writer and the reader of the parts rely on: a first and a last
\* unit stay where they are.
LEMMA Joined ==
  ASSUME NEW S, NEW a \in Seq(S), NEW b \in Seq(S), Len(a) # 0, Len(b) # 0
  PROVE  /\ a \o b \in Seq(S) /\ Len(a \o b) = Len(a) + Len(b)
         /\ (a \o b)[1] = a[1] /\ (a \o b)[Len(a) + Len(b)] = b[Len(b)]
BY ConcatProperties

\* The units of a set, from the header to the trailer.
LEMMA StreamIs ==
  ASSUME NEW set \in SetRecords
  PROVE  LET stream == Stream(set, PartsFor(set.data.full + set.manifest.full + 4))
             n == set.data.full + set.manifest.full + 4
         IN /\ n \in Nat \ {0}
            /\ stream \in Seq(UnitsOf(set)) /\ Len(stream) = n
            /\ stream[1] = Header(set) /\ stream[n] = Trailer(set, PartsFor(n))
<1> DEFINE d == set.data.full
           m == set.manifest.full
           n == d + m + 4
           U == UnitsOf(set)
           h == <<Header(set)>>
           sd == SectionOf(set, "data")
           sm == SectionOf(set, "manifest")
           tr == <<Trailer(set, PartsFor(n))>>
<1>1. d \in Nat /\ m \in Nat /\ n \in Nat \ {0}
  <2>1. set.data \in SectionRecords /\ set.manifest \in SectionRecords
    BY DEF SetRecords
  <2> QED
    BY <2>1 DEF SectionRecords
<1>2. h \in Seq(U) /\ Len(h) = 1 /\ h[1] = Header(set)
  BY DEF UnitsOf
<1>3. tr \in Seq(U) /\ Len(tr) = 1 /\ tr[1] = Trailer(set, PartsFor(n))
  BY DEF UnitsOf
<1>4. sd \in Seq(U) /\ Len(sd) = d + 1
  <2>1. \A i \in 1 .. d + 1 : Chunk(set, "data", i) \in U
    BY DEF UnitsOf
  <2> QED
    BY <1>1, <2>1 DEF SectionOf
<1>5. sm \in Seq(U) /\ Len(sm) = m + 1
  <2>1. \A i \in 1 .. m + 1 : Chunk(set, "manifest", i) \in U
    BY DEF UnitsOf
  <2> QED
    BY <1>1, <2>1 DEF SectionOf
<1> HIDE DEF d, m, U, h, sd, sm, tr
<1> DEFINE hs == h \o sd
           hsm == hs \o sm
           all == hsm \o tr
<1>6. hs \in Seq(U) /\ Len(hs) = d + 2 /\ hs[1] = Header(set)
  <2>1. Len(h) # 0 /\ Len(sd) # 0 /\ Len(h) + Len(sd) = d + 2
    BY <1>1, <1>2, <1>4
  <2>2. h \o sd \in Seq(U) /\ Len(h \o sd) = Len(h) + Len(sd) /\ (h \o sd)[1] = h[1]
    BY <1>2, <1>4, <2>1, Joined
  <2> QED
    BY <1>2, <2>1, <2>2
<1>7. hsm \in Seq(U) /\ Len(hsm) = d + m + 3 /\ hsm[1] = Header(set)
  <2> HIDE DEF hs
  <2>1. Len(hs) # 0 /\ Len(sm) # 0 /\ Len(hs) + Len(sm) = d + m + 3
    BY <1>1, <1>5, <1>6
  <2>2. hs \o sm \in Seq(U) /\ Len(hs \o sm) = Len(hs) + Len(sm) /\ (hs \o sm)[1] = hs[1]
    BY <1>5, <1>6, <2>1, Joined
  <2> QED
    BY <1>6, <2>1, <2>2
<1>8. /\ all \in Seq(U) /\ Len(all) = n /\ all[1] = Header(set)
      /\ all[n] = Trailer(set, PartsFor(n))
  <2> HIDE DEF hsm
  <2>1. Len(hsm) + Len(tr) = n /\ Len(hsm) # 0 /\ Len(tr) # 0
    BY <1>1, <1>3, <1>7
  <2>2. /\ hsm \o tr \in Seq(U) /\ Len(hsm \o tr) = Len(hsm) + Len(tr) /\ (hsm \o tr)[1] = hsm[1]
        /\ (hsm \o tr)[Len(hsm) + Len(tr)] = tr[Len(tr)]
    <3>1. hsm \in Seq(U) /\ tr \in Seq(U) /\ Len(hsm) # 0 /\ Len(tr) # 0
      BY <1>3, <1>7, <2>1
    <3> QED
      BY <3>1, Joined, Zenon
  <2> QED
    BY <1>3, <1>7, <2>1, <2>2, Zenon
<1>9. Stream(set, PartsFor(n)) = all
  BY DEF Stream, h, sd, sm, tr
<1> QED
  BY <1>1, <1>8, <1>9 DEF d, m, U

\* Of n units, part i has those after PartStart(i) up to PartEnd(n, i).
PartStart(i) == PartSize * (i - 1)
PartEnd(n, i) == IF PartSize * i < n THEN PartSize * i ELSE n

\* The parts follow one another, none is empty, and the last one has the last unit.
LEMMA PartBounds ==
  ASSUME NEW n \in Nat \ {0}, NEW i \in 1 .. PartsFor(n)
  PROVE  /\ PartStart(i) \in Nat /\ PartEnd(n, i) \in Nat
         /\ PartStart(i) < PartEnd(n, i) /\ PartEnd(n, i) <= n
         /\ i < PartsFor(n) => PartEnd(n, i) = PartStart(i + 1)
         /\ i = PartsFor(n) => PartEnd(n, i) = n
<1> DEFINE q == PartsFor(n)
<1>1. PartSize \in Nat \ {0} /\ q \in Nat \ {0} /\ PartSize * (q - 1) < n /\ n <= PartSize * q
  BY SizesAssumption, PartsForBounds
<1> HIDE DEF q
<1>2. i \in 1 .. q
  BY DEF q
<1>3. /\ PartSize * (i - 1) \in Nat /\ PartSize * i = PartSize * (i - 1) + PartSize
      /\ PartSize * (i - 1) <= PartSize * (q - 1)
      /\ i < q => PartSize * i <= PartSize * (q - 1)
  BY <1>1, <1>2
<1>4. (i + 1) - 1 = i
  BY <1>2
<1> QED
  BY <1>1, <1>2, <1>3, <1>4 DEF q, PartStart, PartEnd

\* What is in part i.
LEMMA PartIs ==
  ASSUME NEW S, NEW stream \in Seq(S), Len(stream) # 0, NEW i \in 1 .. PartsFor(Len(stream))
  PROVE  LET n == Len(stream)
             part == Part(stream, PartSize, i)
         IN /\ part \in Seq(S) /\ Len(part) = PartEnd(n, i) - PartStart(i)
            /\ \A k \in 1 .. Len(part) : part[k] = stream[PartStart(i) + k]
<1> DEFINE n == Len(stream)
<1>1. n \in Nat \ {0}
  OBVIOUS
<1>2. /\ PartStart(i) \in Nat /\ PartEnd(n, i) \in Nat
      /\ PartStart(i) < PartEnd(n, i) /\ PartEnd(n, i) <= n
  BY <1>1, PartBounds
<1>3. Part(stream, PartSize, i) = SubSeq(stream, PartStart(i) + 1, PartEnd(n, i))
  BY DEF Part, PartStart, PartEnd
<1>4. \A k \in PartStart(i) + 1 .. PartEnd(n, i) : stream[k] \in S
  BY <1>2
<1> HIDE DEF n
<1>5. /\ SubSeq(stream, PartStart(i) + 1, PartEnd(n, i)) \in Seq(S)
      /\ Len(SubSeq(stream, PartStart(i) + 1, PartEnd(n, i))) = PartEnd(n, i) - PartStart(i)
      /\ \A k \in 1 .. PartEnd(n, i) - PartStart(i) :
            SubSeq(stream, PartStart(i) + 1, PartEnd(n, i))[k] = stream[PartStart(i) + k]
  BY <1>2, <1>4, SubSeqProperties
<1> QED
  BY <1>3, <1>5 DEF n

-----------------------------------------------------------------------------
(* The parts put together again *)

\* A set of numbers has a least element.
LEMMA LeastExists ==
  ASSUME NEW T, T \subseteq Nat, T # {}
  PROVE  \E m \in T : \A x \in T : m <= x
<1>1. PICK m \in T : \A y \in T : ~(<<y, m>> \in OpToRel(<, Nat))
  BY NatLessThanWellFounded, WFMin, Zenon
<1>2. \A y \in T : m <= y
  <2> SUFFICES ASSUME NEW y \in T PROVE m <= y
    OBVIOUS
  <2>1. y \in Nat /\ m \in Nat
    OBVIOUS
  <2>2. ~(y < m)
    BY <1>1, <2>1 DEF OpToRel
  <2> QED BY <2>1, <2>2
<1> QED BY <1>2

\* The function with which FlattenSeq appends one sequence after the other exists.
LEMMA FlattenExists ==
  ASSUME NEW seqs, NEW n \in Nat
  PROVE  \E f : f = [i \in 1 .. n |-> IF i = 1 THEN seqs[i] ELSE f[i - 1] \o seqs[i]]
<1> DEFINE Good(m) == \E f : f = [i \in 1 .. m |-> IF i = 1 THEN seqs[i] ELSE f[i - 1] \o seqs[i]]
           T == {m \in Nat : ~Good(m)}
<1> SUFFICES ASSUME ~Good(n) PROVE FALSE
  OBVIOUS
<1>1. n \in T /\ T \subseteq Nat
  OBVIOUS
<1>2. PICK m \in T : \A x \in T : m <= x
  BY <1>1, LeastExists, Zenon
<1>3. m \in Nat /\ ~Good(m)
  OBVIOUS
<1>4. CASE m = 0
  <2> DEFINE f == [i \in 1 .. 0 |-> seqs]
  <2>1. f = [i \in 1 .. m |-> IF i = 1 THEN seqs[i] ELSE f[i - 1] \o seqs[i]]
    BY <1>4
  <2> QED
    BY <1>3, <2>1, Zenon
<1>5. CASE m # 0
  <2>1. m - 1 \in Nat /\ ~(m <= m - 1)
    BY <1>3, <1>5
  <2>2. Good(m - 1)
    BY <1>2, <2>1, Zenon
  <2>3. PICK f : f = [i \in 1 .. m - 1 |-> IF i = 1 THEN seqs[i] ELSE f[i - 1] \o seqs[i]]
    BY <2>2, Zenon
  <2> DEFINE g == [i \in 1 .. m |-> IF i < m THEN f[i]
                                    ELSE IF m = 1 THEN seqs[m] ELSE f[m - 1] \o seqs[m]]
             h == [i \in 1 .. m |-> IF i = 1 THEN seqs[i] ELSE g[i - 1] \o seqs[i]]
  <2>4. \A i \in 1 .. m - 1 : f[i] = IF i = 1 THEN seqs[i] ELSE f[i - 1] \o seqs[i]
    BY <2>3
  <2>5. \A i \in 1 .. m : g[i] = h[i]
    <3> SUFFICES ASSUME NEW i \in 1 .. m PROVE g[i] = h[i]
      OBVIOUS
    <3>1. CASE i < m
      <4>1. i \in 1 .. m - 1 /\ (i # 1 => i - 1 \in 1 .. m /\ i - 1 < m)
        BY <1>3, <3>1
      <4>2. g[i] = f[i] /\ (i # 1 => g[i - 1] = f[i - 1])
        BY <3>1, <4>1
      <4> QED
        BY <2>4, <4>1, <4>2
    <3>2. CASE i = m
      <4>1. m # 1 => m - 1 \in 1 .. m /\ m - 1 < m
        BY <1>3, <1>5
      <4>2. m # 1 => g[m - 1] = f[m - 1]
        BY <4>1
      <4> QED
        BY <1>3, <3>2, <4>2
    <3> QED
      BY <1>3, <3>1, <3>2
  <2>6. g = h
    BY <2>5
  <2> QED
    BY <1>3, <2>6, Zenon
<1> QED
  BY <1>4, <1>5

\* FlattenSeq of nonempty sequences: how long it is, how it begins and ends.
LEMMA FlattenEnds ==
  ASSUME NEW S, NEW n \in Nat \ {0}, NEW seqs \in [1 .. n -> Seq(S)],
         \A i \in 1 .. n : Len(seqs[i]) # 0,
         NEW end \in [1 .. n -> Nat], end[1] = Len(seqs[1]),
         \A i \in 2 .. n : end[i] = end[i - 1] + Len(seqs[i])
  PROVE  /\ FlattenSeq(seqs) \in Seq(S) /\ Len(FlattenSeq(seqs)) = end[n]
         /\ FlattenSeq(seqs)[1] = seqs[1][1]
         /\ FlattenSeq(seqs)[Len(FlattenSeq(seqs))] = seqs[n][Len(seqs[n])]
<1> DEFINE flatten[i \in 1 .. n] == IF i = 1 THEN seqs[i] ELSE flatten[i - 1] \o seqs[i]
<1>0. 1 \in 1 .. n /\ n \in 1 .. n /\ \A i \in 2 .. n : i \in 1 .. n /\ i # 1
  OBVIOUS
<1>1. Len(seqs) = n
  OBVIOUS
<1>2. FlattenSeq(seqs) = flatten[n]
  BY <1>1 DEF FlattenSeq
<1>3. flatten = [i \in 1 .. n |-> IF i = 1 THEN seqs[i] ELSE flatten[i - 1] \o seqs[i]]
  BY FlattenExists, Zenon
<1> HIDE DEF flatten
<1>4. flatten[1] = seqs[1] /\ \A i \in 2 .. n : flatten[i] = flatten[i - 1] \o seqs[i]
  <2>1. \A i \in 1 .. n : flatten[i] = IF i = 1 THEN seqs[i] ELSE flatten[i - 1] \o seqs[i]
    BY <1>3
  <2> QED
    BY <1>0, <2>1, Zenon
<1> DEFINE Good(i) == /\ flatten[i] \in Seq(S) /\ Len(flatten[i]) = end[i] /\ end[i] # 0
                      /\ flatten[i][1] = seqs[1][1]
                      /\ flatten[i][end[i]] = seqs[i][Len(seqs[i])]
           T == {i \in 1 .. n : ~Good(i)}
<1>5. T = {}
  <2> SUFFICES ASSUME T # {} PROVE FALSE
    OBVIOUS
  <2>1. T \subseteq Nat
    OBVIOUS
  <2>2. PICK i \in T : \A x \in T : i <= x
    BY <2>1, LeastExists, Zenon
  <2>3. i \in 1 .. n /\ ~Good(i)
    OBVIOUS
  <2>4. i # 1
    <3>1. seqs[1] \in Seq(S) /\ Len(seqs[1]) # 0
      BY <1>0, Zenon
    <3> QED
      BY <1>4, <2>3, <3>1
  <2>5. i \in 2 .. n /\ i - 1 \in 1 .. n /\ ~(i <= i - 1)
    <3> HIDE DEF T, Good
    <3> QED
      BY <2>3, <2>4
  <2>6. Good(i - 1)
    BY <2>2, <2>5, Zenon
  <2>7. /\ flatten[i - 1] \in Seq(S) /\ seqs[i] \in Seq(S)
        /\ Len(flatten[i - 1]) # 0 /\ Len(seqs[i]) # 0
    BY <2>3, <2>6
  <2>8. /\ flatten[i - 1] \o seqs[i] \in Seq(S)
        /\ Len(flatten[i - 1] \o seqs[i]) = Len(flatten[i - 1]) + Len(seqs[i])
        /\ (flatten[i - 1] \o seqs[i])[1] = flatten[i - 1][1]
        /\ (flatten[i - 1] \o seqs[i])[Len(flatten[i - 1]) + Len(seqs[i])] = seqs[i][Len(seqs[i])]
    BY <2>7, Joined
  <2>9. flatten[i] = flatten[i - 1] \o seqs[i] /\ end[i] = Len(flatten[i - 1]) + Len(seqs[i])
    BY <1>4, <2>5, <2>6
  <2>10. end[i] # 0
    BY <2>5, <2>7, <2>9
  <2> QED
    BY <2>3, <2>6, <2>8, <2>9, <2>10
<1>6. Good(n)
  BY <1>0, <1>5, Zenon
<1> QED
  BY <1>2, <1>6

\* The part files of a set nothing happened to can be opened: the last unit of
\* the last part is the trailer, and its part count is right, also when the set
\* ends exactly at the end of a part.
LEMMA IntactOpens ==
  ASSUME NEW set \in SetRecords, set.name = "this"
  PROVE  Fault(PartFiles(set), "this") = "none"
<1> DEFINE n == set.data.full + set.manifest.full + 4
           q == PartsFor(n)
           stream == Stream(set, q)
           f == PartFiles(set)
           S == Nat \X Nat
           seqs == [p \in DOMAIN f |-> [k \in DOMAIN f[p] |-> <<p, k>>]]
           end == [i \in 1 .. q |-> PartEnd(n, i)]
           layout == Layout(f)
<1>1. /\ n \in Nat \ {0} /\ stream \in Seq(UnitsOf(set)) /\ Len(stream) = n
      /\ stream[1] = Header(set) /\ stream[n] = Trailer(set, q)
  BY StreamIs
<1>2. f = [i \in 1 .. q |-> Part(stream, PartSize, i)]
  BY DEF PartFiles
<1> HIDE DEF n, stream, f, q
<1>3. q \in Nat \ {0}
  BY <1>1, PartsForBounds DEF q
<1>4. \A i \in 1 .. q : /\ PartStart(i) \in Nat /\ PartEnd(n, i) \in Nat
                        /\ PartStart(i) < PartEnd(n, i)
                        /\ i < q => PartEnd(n, i) = PartStart(i + 1)
                        /\ i = q => PartEnd(n, i) = n
  BY <1>1, PartBounds DEF q
<1>5. \A i \in 1 .. q : /\ f[i] \in Seq(UnitsOf(set)) /\ Len(f[i]) = PartEnd(n, i) - PartStart(i)
                        /\ \A k \in 1 .. Len(f[i]) : f[i][k] = stream[PartStart(i) + k]
  <2> SUFFICES ASSUME NEW i \in 1 .. q
               PROVE  /\ f[i] \in Seq(UnitsOf(set)) /\ Len(f[i]) = PartEnd(n, i) - PartStart(i)
                      /\ \A k \in 1 .. Len(f[i]) : f[i][k] = stream[PartStart(i) + k]
    OBVIOUS
  <2>1. f[i] = Part(stream, PartSize, i) /\ i \in 1 .. PartsFor(Len(stream)) /\ Len(stream) # 0
    BY <1>1, <1>2 DEF q
  <2> QED
    BY <1>1, <2>1, PartIs
<1>6. DOMAIN f = 1 .. q /\ Len(f) = q
  BY <1>2, <1>3
<1>7. \A i \in 1 .. q : Len(f[i]) \in Nat \ {0} /\ DOMAIN f[i] = 1 .. Len(f[i])
  BY <1>4, <1>5
<1>8. /\ seqs \in [1 .. q -> Seq(S)]
      /\ \A i \in 1 .. q : /\ Len(seqs[i]) = Len(f[i])
                           /\ \A k \in 1 .. Len(f[i]) : seqs[i][k] = <<i, k>>
  <2>1. \A i \in 1 .. q : seqs[i] = [k \in 1 .. Len(f[i]) |-> <<i, k>>]
    BY <1>6, <1>7
  <2>2. \A i \in 1 .. q : [k \in 1 .. Len(f[i]) |-> <<i, k>>] \in Seq(S)
    BY <1>3, <1>7
  <2>3. seqs \in [1 .. q -> Seq(S)]
    BY <1>6, <2>1, <2>2
  <2> QED
    BY <1>7, <2>1, <2>3
<1> HIDE DEF seqs
<1>9. /\ end \in [1 .. q -> Nat] /\ end[1] = Len(seqs[1]) /\ end[q] = n
      /\ \A i \in 2 .. q : end[i] = end[i - 1] + Len(seqs[i])
  <2>1. end \in [1 .. q -> Nat] /\ \A i \in 1 .. q : end[i] = PartEnd(n, i)
    BY <1>4
  <2>2. PartStart(1) = 0 /\ 1 \in 1 .. q /\ q \in 1 .. q
    BY <1>3, SizesAssumption DEF PartStart
  <2> HIDE DEF end
  <2>a. \A i \in 1 .. q : Len(seqs[i]) = PartEnd(n, i) - PartStart(i)
    BY <1>5, <1>8
  <2>3. end[1] = Len(seqs[1]) /\ end[q] = n
    <3>1. /\ end[1] = PartEnd(n, 1) /\ PartEnd(n, 1) \in Nat
          /\ end[q] = PartEnd(n, q) /\ PartEnd(n, q) = n
      BY <1>4, <2>1, <2>2
    <3>2. Len(seqs[1]) = PartEnd(n, 1) - PartStart(1)
      BY <2>2, <2>a, Zenon
    <3> QED
      BY <2>2, <3>1, <3>2
  <2>4. ASSUME NEW i \in 2 .. q PROVE end[i] = end[i - 1] + Len(seqs[i])
    <3>1. i \in 1 .. q /\ i - 1 \in 1 .. q /\ i - 1 < q /\ (i - 1) + 1 = i
      BY <1>3
    <3>2. end[i - 1] = PartStart(i)
      BY <1>4, <2>1, <3>1
    <3>3. Len(seqs[i]) = PartEnd(n, i) - PartStart(i) /\ end[i] = PartEnd(n, i)
      BY <2>1, <2>a, <3>1, Zenon
    <3>4. PartEnd(n, i) \in Nat /\ PartStart(i) \in Nat
      BY <1>4, <3>1, Zenon
    <3> QED
      BY <3>2, <3>3, <3>4
  <2> QED
    BY <2>1, <2>3, <2>4
<1> HIDE DEF end
<1>10. /\ Len(layout) = n /\ layout[1] = seqs[1][1]
       /\ layout[n] = seqs[q][Len(seqs[q])]
  <2>1. layout = FlattenSeq(seqs)
    BY DEF Layout, seqs
  <2>2. \A i \in 1 .. q : Len(seqs[i]) # 0
    BY <1>7, <1>8
  <2> QED
    <3>1. /\ FlattenSeq(seqs) \in Seq(S) /\ Len(FlattenSeq(seqs)) = end[q]
          /\ FlattenSeq(seqs)[1] = seqs[1][1]
          /\ FlattenSeq(seqs)[Len(FlattenSeq(seqs))] = seqs[q][Len(seqs[q])]
      <4>1. seqs \in [1 .. q -> Seq(S)]
        BY <1>8
      <4>2. end \in [1 .. q -> Nat] /\ end[1] = Len(seqs[1])
        BY <1>9
      <4>3. \A i \in 2 .. q : end[i] = end[i - 1] + Len(seqs[i])
        BY <1>9
      <4> HIDE DEF S
      <4> QED
        BY <1>3, <2>2, <4>1, <4>2, <4>3, FlattenEnds, ZenonT(120)
    <3> QED
      BY <1>9, <2>1, <3>1, Zenon
<1>11. layout[1] = <<1, 1>> /\ layout[n] = <<q, Len(f[q])>>
  <2>1. 1 \in 1 .. q /\ q \in 1 .. q
    BY <1>3
  <2>2. 1 \in 1 .. Len(f[1]) /\ Len(f[q]) \in 1 .. Len(f[q])
    BY <1>7, <2>1
  <2> QED
    BY <1>8, <1>10, <2>1, <2>2, Zenon
<1> HIDE DEF layout
<1>12. ReadAt(f, layout[1]) = Header(set)
  <2>1. 1 \in DOMAIN f /\ 1 \in DOMAIN f[1]
    BY <1>3, <1>6, <1>7
  <2>2. 1 \in 1 .. q /\ 1 \in 1 .. Len(f[1]) /\ PartStart(1) + 1 = 1
    BY <1>3, <1>7, SizesAssumption DEF PartStart
  <2>3. f[1][1] = stream[PartStart(1) + 1]
    BY <1>5, <2>2, Zenon
  <2> QED
    BY <1>1, <1>11, <2>1, <2>2, <2>3 DEF ReadAt
<1>13. ReadAt(f, layout[n]) = Trailer(set, q)
  <2>1. q \in DOMAIN f /\ Len(f[q]) \in DOMAIN f[q]
    BY <1>3, <1>6, <1>7
  <2>2. q \in 1 .. q
    BY <1>3
  <2>3. Len(f[q]) \in 1 .. Len(f[q])
    BY <1>7, <2>2
  <2>4. /\ f[q][Len(f[q])] = stream[PartStart(q) + Len(f[q])]
        /\ Len(f[q]) = PartEnd(n, q) - PartStart(q)
    BY <1>5, <2>2, <2>3, Zenon
  <2>5. PartStart(q) \in Nat /\ PartEnd(n, q) = n /\ n \in Nat
    BY <1>1, <1>4, <2>2, Zenon
  <2>6. PartStart(q) + Len(f[q]) = n
    BY <2>4, <2>5
  <2> QED
    BY <1>1, <1>11, <2>1, <2>4, <2>6 DEF ReadAt
<1>14. NoGap(f)
  BY <1>3, <1>6 DEF NoGap
<1>15. n # 0 /\ 1 + (set.data.full + 1) + (set.manifest.full + 1) + 1 = n
  <2>1. set.data \in SectionRecords /\ set.manifest \in SectionRecords
    BY DEF SetRecords
  <2> QED
    BY <2>1 DEF SectionRecords, n
<1>16. CheckTrailer(Trailer(set, q), n, Len(f))
  BY <1>6, <1>15 DEF CheckTrailer, Trailer
<1>17. ReadHeader(Header(set)) /\ DecodeTrailer(Trailer(set, q)) /\ Header(set).set.name = "this"
  BY DEF ReadHeader, DecodeTrailer, Header, Trailer
<1> QED
  BY <1>10, <1>12, <1>13, <1>14, <1>15, <1>16, <1>17 DEF Fault, layout, f

-----------------------------------------------------------------------------
(* Decrypting a section *)

\* A bounded set of numbers has a greatest element.
LEMMA GreatestExists ==
  ASSUME NEW N \in Nat, NEW S, S \subseteq 0 .. N, S # {}
  PROVE  \E m \in S : \A x \in S : x <= m
<1> DEFINE T == {N - x : x \in S}
<1>0. \A x \in S : N - x \in Nat
  OBVIOUS
<1>1. T \subseteq Nat /\ T # {}
  BY <1>0, Zenon
<1>2. PICK t \in T : \A y \in T : t <= y
  BY <1>1, LeastExists, Zenon
<1>3. PICK m \in S : t = N - m
  OBVIOUS
<1>4. \A x \in S : x <= m
  BY <1>2, <1>3
<1> QED BY <1>4

\* The chunks DecryptStream accepts were sealed for their place in this section.
LEMMA DecryptedAuthentic ==
  ASSUME NEW set, NEW s, NEW n \in Nat, NEW R, NEW units \in [1 .. n -> R]
  PROVE  /\ Decrypted(units, set, s) \in 0 .. n
         /\ \A i \in 1 .. Decrypted(units, set, s) : Authentic(units[i], set, s, i)
<1> DEFINE good(i) == /\ Authentic(units[i], set, s, i)
                      /\ i > 1 => ~units[i - 1].final
           prefixes == {k \in 0 .. Len(units) : \A i \in 1 .. k : good(i)}
<1>1. Len(units) = n
  OBVIOUS
<1>2. prefixes \subseteq 0 .. n /\ 0 \in prefixes
  BY <1>1
<1>3. \E m \in prefixes : \A k \in prefixes : k <= m
  <2> HIDE DEF prefixes
  <2> QED
    BY <1>2, GreatestExists
<1>4. Decrypted(units, set, s) = CHOOSE m \in prefixes : \A k \in prefixes : k <= m
  BY DEF Decrypted
<1> HIDE DEF prefixes
<1>5. Decrypted(units, set, s) \in prefixes
  BY <1>3, <1>4, Zenon
<1> QED
  BY <1>2, <1>5 DEF prefixes

\* A set that isn't this one has another name.
LEMMA OthersNamed ==
  ASSUME NEW set \in Others
  PROVE  set.name = "other"
BY DEF Others, Named

\* A readable unit that says it is a chunk of this set is one of its chunks.
LEMMA ReadableChunk ==
  ASSUME mine.name = "this", NEW u \in Readable, NEW s \in {"data", "manifest"}, NEW i,
         Authentic(u, mine, s, i)
  PROVE  i \in 1 .. mine[s].full + 1 /\ u = Chunk(mine, s, i)
<1>1. u.kind = "chunk" /\ u.set = mine /\ u.section = s /\ u.index = i
  BY DEF Authentic
<1>2. u # Garbage
  BY <1>1 DEF Garbage
<1>3. PICK set \in {mine} \cup Others : u \in UnitsOf(set)
  BY <1>2 DEF Readable
<1>4. u # Header(set) /\ u # Trailer(set, PartsFor(set.data.full + set.manifest.full + 4))
  BY <1>1 DEF Header, Trailer
<1>5. PICK t \in {"data", "manifest"} : \E j \in 1 .. set[t].full + 1 : u = Chunk(set, t, j)
  BY <1>3, <1>4 DEF UnitsOf
<1>6. PICK j \in 1 .. set[t].full + 1 : u = Chunk(set, t, j)
  BY <1>5
<1>7. u.set = set /\ u.section = t /\ u.index = j
  BY <1>6 DEF Chunk
<1> QED
  BY <1>1, <1>6, <1>7

\* A section that ends well has all chunks of the section that was written, in
\* their order, and nothing else.
LEMMA EndsWellMeansWhole ==
  ASSUME mine \in SetRecords, mine.name = "this", NEW s \in {"data", "manifest"},
         NEW n \in Nat \ {0}, NEW units \in [1 .. n -> Readable], EndsWell(units, mine, s)
  PROVE  /\ units = SectionOf(mine, s)
         /\ Plaintext(units, mine, s) = SelectSeq(SectionOf(mine, s), Holds)
<1>1. Len(units) = n /\ n \in 1 .. n
  OBVIOUS
<1>2. Decrypted(units, mine, s) = n /\ units[n].final
  BY <1>1 DEF EndsWell
<1>3. \A i \in 1 .. n : Authentic(units[i], mine, s, i)
  BY <1>2, DecryptedAuthentic
<1>4. \A i \in 1 .. n : i \in 1 .. mine[s].full + 1 /\ units[i] = Chunk(mine, s, i)
  BY <1>3, ReadableChunk
<1>5. mine[s].full \in Nat
  <2>1. mine.data \in SectionRecords /\ mine.manifest \in SectionRecords
    BY DEF SetRecords
  <2> QED
    BY <2>1 DEF SectionRecords
<1>6. units[n].final = (n = mine[s].full + 1)
  <2>1. units[n] = Chunk(mine, s, n)
    BY <1>1, <1>4
  <2> QED
    BY <2>1 DEF Chunk
<1>7. n = mine[s].full + 1
  BY <1>2, <1>6
<1>8. units = SectionOf(mine, s)
  BY <1>4, <1>7 DEF SectionOf
<1>9. SubSeq(units, 1, n) = units
  BY <1>1, SubSeqFull
<1> QED
  BY <1>2, <1>8, <1>9, Zenon DEF Plaintext

-----------------------------------------------------------------------------
(* The part files, opening and reading *)

\* The sets that may be mixed up with this one.
LEMMA OthersAreSets ==
  ASSUME mine \in SetRecords
  PROVE  Others \subseteq SetRecords
<1> SUFFICES ASSUME NEW set \in Others PROVE set \in SetRecords
  OBVIOUS
<1>1. mine.data \in SectionRecords /\ mine.manifest \in SectionRecords
  BY DEF SetRecords
<1>2. PICK k \in 0 .. mine.manifest.full :
        set = [name |-> "other",
               data |-> [full |-> mine.data.full + k, rest |-> mine.data.rest],
               manifest |-> [full |-> mine.manifest.full - k, rest |-> mine.manifest.rest]]
  BY DEF Others, Named, Sections
<1>3. mine.data.full + k \in Nat /\ mine.manifest.full - k \in Nat
  BY <1>1 DEF SectionRecords
<1>4. mine.data.rest \in BOOLEAN /\ mine.manifest.rest \in BOOLEAN
  BY <1>1 DEF SectionRecords
<1> QED
  BY <1>2, <1>3, <1>4 DEF SetRecords, SectionRecords

\* Every part of a set has units of that set.
LEMMA PartFilesAre ==
  ASSUME NEW set \in SetRecords
  PROVE  \A p \in DOMAIN PartFiles(set) : PartFiles(set)[p] \in Seq(UnitsOf(set))
<1> DEFINE n == set.data.full + set.manifest.full + 4
           stream == Stream(set, PartsFor(n))
<1>1. n \in Nat \ {0} /\ stream \in Seq(UnitsOf(set)) /\ Len(stream) = n
  BY StreamIs
<1>2. PartFiles(set) = [i \in 1 .. PartsFor(n) |-> Part(stream, PartSize, i)]
  BY DEF PartFiles
<1> HIDE DEF n, stream
<1>3. \A i \in 1 .. PartsFor(n) : Part(stream, PartSize, i) \in Seq(UnitsOf(set))
  BY <1>1, PartIs
<1> QED
  BY <1>2, <1>3

\* What Write wrote and renamed are the part files of a set.
LEMMA WrittenKeeps ==
  ASSUME SetInv, Written
  PROVE  FilesInOrder' /\ OpenedInOrder'
<1> USE DEF Written, readVars, vars
<1>1. PICK dataRest \in BOOLEAN, manifestRest \in BOOLEAN :
        mine' = Named("this", Sections(taken, dataRest, mtaken, manifestRest))
  OBVIOUS
<1>2. /\ taken \in Nat /\ mtaken \in Nat /\ taken = size /\ mtaken = msize
      /\ written = size + msize + 4 /\ renamed = parts /\ parts = promised
  BY DEF SetInv, WriterInv, WriterType, WholeSetOnSuccess
<1>3. promised = PartsFor(written)
  <2>1. pc = "returned"
    BY DEF Over
  <2>2. writeErr = "ok" /\ ~outErr
    BY DEF SetInv, WriterInv, UnitsInOrder
  <2> QED
    BY <2>1, <2>2 DEF SetInv, WriterInv, UnitsInOrder, LateSteps
<1>4. mine' \in SetRecords /\ mine'.name = "this"
  BY <1>1, <1>2 DEF Named, Sections, SetRecords, SectionRecords
<1>5. taken + mtaken + 4 = written
  BY <1>2
<1>6. mine'.data.full = taken /\ mine'.manifest.full = mtaken
  BY <1>1 DEF Named, Sections
<1>7. files' = PartFiles(mine')
  BY <1>2, <1>3, <1>5, <1>6 DEF PartFiles
<1>8. UnitsOf(mine') \subseteq Readable'
  BY DEF Readable
<1>9. \A p \in DOMAIN files' : files'[p] \in Seq(Readable')
  BY <1>4, <1>7, <1>8, PartFilesAre, SeqMonotonic
<1>10. /\ fault = "" /\ fault' = "" /\ section = "none" /\ section' = "none"
       /\ damages' \in Nat /\ DOMAIN got' = {"data", "manifest"}
  BY DEF SetInv, FilesInOrder, OpenedInOrder
<1>11. FilesInOrder'
  BY <1>4, <1>7, <1>9, <1>10 DEF FilesInOrder, PartFiles, PartsFor
<1>12. OpenedInOrder'
  BY <1>10 DEF OpenedInOrder
<1> QED
  BY <1>11, <1>12

\* OpenedInOrder speaks of these only.
LEMMA SameSectionRead ==
  ASSUME OpenedInOrder, UNCHANGED <<mine, fault, opened, got, section, chunks, damage>>
  PROVE  OpenedInOrder'
<1>1. \/ section = "none" \/ damage
      \/ got[section] = SelectSeq(SectionOf(mine, section), Holds)
  BY DEF OpenedInOrder
<1>2. \/ section' = "none" \/ damage'
      \/ got'[section'] = SelectSeq(SectionOf(mine', section'), Holds)
  BY <1>1, Zenon
<1> QED
  BY <1>2 DEF OpenedInOrder

\* What happens to the part files puts nothing into them that the writer of a set
\* didn't write for that set.
LEMMA HappensKeeps ==
  ASSUME SetInv, NEW new, Happens(new), \A p \in DOMAIN new : new[p] \in Seq(Readable)
  PROVE  FilesInOrder' /\ OpenedInOrder'
<1>0. FilesInOrder /\ OpenedInOrder
  BY DEF SetInv
<1>1. /\ mine.name # "" /\ damages' = damages + 1 /\ files' = new
      /\ UNCHANGED <<mine, fault, opened, got, section, chunks, damage>>
  BY DEF Happens, readVars
<1>2. Readable' = Readable
  BY <1>1 DEF Readable, Others
<1>3. /\ mine \in SetRecords /\ mine.name = "this"
      /\ damages' \in Nat /\ damages' # 0
  <2>1. mine \in SetRecords /\ mine.name \in {"", "this"} /\ damages \in Nat
    BY <1>0 DEF FilesInOrder
  <2>2. mine.name = "this" /\ damages' = damages + 1
    BY <1>1, <2>1
  <2>3. damages' \in Nat /\ damages' # 0
    <3>1. \A d \in Nat : d + 1 \in Nat /\ d + 1 # 0
      OBVIOUS
    <3> QED
      BY <2>1, <2>2, <3>1, Zenon
  <2> QED
    BY <2>1, <2>2, <2>3
<1>4. FilesInOrder'
  BY <1>1, <1>2, <1>3 DEF FilesInOrder
<1>5. OpenedInOrder'
  BY <1>0, <1>1, SameSectionRead
<1> QED
  BY <1>4, <1>5

\* So do all of them.
LEMMA DiskKeeps ==
  ASSUME SetInv, Disk
  PROVE  FilesInOrder' /\ OpenedInOrder'
<1>0. \A p \in DOMAIN files : files[p] \in Seq(Readable)
  BY DEF SetInv, FilesInOrder
<1>1. CASE LosePart
  <2>1. PICK p \in DOMAIN files : Happens([q \in DOMAIN files \ {p} |-> files[q]])
    BY <1>1 DEF LosePart
  <2>2. \A q \in DOMAIN files \ {p} : files[q] \in Seq(Readable)
    BY <1>0
  <2> QED
    BY <2>1, <2>2, HappensKeeps
<1>2. CASE CutPart
  <2>1. PICK p \in DOMAIN files :
          /\ files[p] # <<>>
          /\ Happens([files EXCEPT ![p] = SubSeq(files[p], 1, Len(files[p]) - 1)])
    BY <1>2 DEF CutPart
  <2>2. SubSeq(files[p], 1, Len(files[p]) - 1) \in Seq(Readable)
    <3>1. files[p] \in Seq(Readable) /\ Len(files[p]) - 1 \in Int
      BY <1>0
    <3>2. \A i \in 1 .. Len(files[p]) - 1 : files[p][i] \in Readable
      BY <3>1
    <3> QED
      BY <3>1, <3>2, SubSeqProperties
  <2> DEFINE new == [files EXCEPT ![p] = SubSeq(files[p], 1, Len(files[p]) - 1)]
  <2>3. \A q \in DOMAIN new : new[q] \in Seq(Readable)
    BY <1>0, <2>2
  <2>4. Happens(new)
    BY <2>1
  <2> QED
    BY <2>3, <2>4, HappensKeeps
<1>3. CASE DamageUnit
  <2>1. PICK p \in DOMAIN files : \E k \in DOMAIN files[p] :
          Happens([files EXCEPT ![p] = [files[p] EXCEPT ![k] = Garbage]])
    BY <1>3 DEF DamageUnit
  <2>1a. PICK k \in DOMAIN files[p] :
           Happens([files EXCEPT ![p] = [files[p] EXCEPT ![k] = Garbage]])
    BY <2>1
  <2>2. [files[p] EXCEPT ![k] = Garbage] \in Seq(Readable)
    <3>1. files[p] \in Seq(Readable) /\ Garbage \in Readable
      BY <1>0 DEF Readable
    <3> QED
      BY <3>1
  <2> DEFINE new == [files EXCEPT ![p] = [files[p] EXCEPT ![k] = Garbage]]
  <2>3. \A q \in DOMAIN new : new[q] \in Seq(Readable)
    BY <1>0, <2>2
  <2>4. Happens(new)
    BY <2>1a
  <2> QED
    BY <2>3, <2>4, HappensKeeps
<1>4. ASSUME NEW p \in DOMAIN files, NEW q \in DOMAIN files,
             Happens([files EXCEPT ![p] = files[q], ![q] = files[p]])
      PROVE  FilesInOrder' /\ OpenedInOrder'
  <2> DEFINE new == [files EXCEPT ![p] = files[q], ![q] = files[p]]
  <2>1. \A r \in DOMAIN new : new[r] \in Seq(Readable)
    BY <1>0
  <2>2. Happens(new)
    BY <1>4
  <2> QED
    BY <2>1, <2>2, HappensKeeps
<1>5. ASSUME NEW s \in Others, NEW ps \in SUBSET (DOMAIN files \cap DOMAIN PartFiles(s)),
             Happens([p \in DOMAIN files |-> IF p \in ps THEN PartFiles(s)[p] ELSE files[p]])
      PROVE  FilesInOrder' /\ OpenedInOrder'
  <2> DEFINE new == [p \in DOMAIN files |-> IF p \in ps THEN PartFiles(s)[p] ELSE files[p]]
  <2>1. s \in SetRecords
    BY OthersAreSets DEF SetInv, FilesInOrder
  <2>2. UnitsOf(s) \subseteq Readable
    BY DEF Readable
  <2>3. \A p \in ps : PartFiles(s)[p] \in Seq(Readable)
    BY <2>1, <2>2, PartFilesAre, SeqMonotonic
  <2>4. \A r \in DOMAIN new : new[r] \in Seq(Readable)
    BY <1>0, <2>3
  <2>5. Happens(new)
    BY <1>5
  <2> QED
    BY <2>4, <2>5, HappensKeeps
<1> QED
  BY <1>1, <1>2, <1>3, <1>4, <1>5 DEF Disk, MixParts

\* A unit that is read is readable, wherever the layout of the opened set puts it.
LEMMA ReadAtReadable ==
  ASSUME FilesInOrder, NEW place
  PROVE  ReadAt(files, place) \in Readable
<1>1. Garbage \in Readable
  BY DEF Readable
<1>2. ASSUME place[1] \in DOMAIN files, place[2] \in DOMAIN files[place[1]]
      PROVE  files[place[1]][place[2]] \in Readable
  <2>1. files[place[1]] \in Seq(Readable)
    BY <1>2 DEF FilesInOrder
  <2> QED
    BY <1>2, <2>1
<1> QED
  BY <1>1, <1>2 DEF ReadAt

\* The kinds of units, by which Open tells them apart.
LEMMA GarbageIsNone ==
  Garbage.kind \notin {"header", "chunk", "trailer"}
BY DEF Garbage

LEMMA UnitKinds ==
  ASSUME NEW set, NEW u \in UnitsOf(set)
  PROVE  /\ u.kind = "header" => u = Header(set)
         /\ u.kind = "trailer" => u = Trailer(set, PartsFor(set.data.full + set.manifest.full + 4))
<1>1. Header(set).kind = "header"
  BY DEF Header
<1>2. Trailer(set, PartsFor(set.data.full + set.manifest.full + 4)).kind = "trailer"
  BY DEF Trailer
<1>3. \A s, i : Chunk(set, s, i).kind = "chunk"
  BY DEF Chunk
<1> QED
  BY <1>1, <1>2, <1>3 DEF UnitsOf

\* Open names the set that was written, if it opens anything.
LEMMA OpenKeeps ==
  ASSUME SetInv, OpenSet
  PROVE  FilesInOrder' /\ OpenedInOrder'
<1>0. FilesInOrder /\ OpenedInOrder
  BY DEF SetInv
<1>1. /\ mine.name # "" /\ fault = "" /\ fault' = Fault(files, "this")
      /\ opened' = IF fault' = "none" THEN Open(files) ELSE opened
      /\ UNCHANGED <<files, mine, damages, got, section>>
  BY DEF OpenSet, readVars
<1>2. mine.name = "this" /\ mine \in SetRecords /\ section = "none"
  BY <1>0, <1>1 DEF FilesInOrder, OpenedInOrder
<1>3. Readable' = Readable
  BY <1>1 DEF Readable, Others
<1>a. damages = 0 => fault' = "none"
  BY <1>0, <1>1, <1>2, IntactOpens DEF FilesInOrder
<1>4. FilesInOrder'
  BY <1>0, <1>1, <1>2, <1>3, <1>a DEF FilesInOrder
<1>5. ASSUME fault' = "none"
      PROVE  /\ opened'.set = mine
             /\ {opened'.trailer.data, opened'.trailer.manifest} \subseteq Nat \ {0}
  <2> DEFINE first == ReadAt(files, Layout(files)[1])
             last == ReadAt(files, Layout(files)[Len(Layout(files))])
  <2>1. first.kind = "header" /\ last.kind = "trailer" /\ first.set.name = "this"
    BY <1>1, <1>5 DEF Fault, ReadHeader, DecodeTrailer
  <2>2. opened'.set = first.set /\ opened'.trailer = last
    BY <1>1, <1>5 DEF Open
  <2>3. first \in Readable /\ last \in Readable
    BY <1>0, ReadAtReadable
  <2> HIDE DEF first, last
  <2>4. first.set = mine
    <3>1. first # Garbage
      BY <2>1, GarbageIsNone
    <3>2. PICK set \in {mine} \cup Others : first \in UnitsOf(set)
      BY <2>3, <3>1 DEF Readable
    <3>3. first = Header(set)
      BY <2>1, <3>2, UnitKinds
    <3>4. first.set = set
      BY <3>3 DEF Header
    <3> QED
      BY <2>1, <3>4, OthersNamed
  <2>5. last.data \in Nat \ {0} /\ last.manifest \in Nat \ {0}
    <3>1. last # Garbage
      BY <2>1, GarbageIsNone
    <3>2. PICK set \in {mine} \cup Others : last \in UnitsOf(set)
      BY <2>3, <3>1 DEF Readable
    <3>3. last = Trailer(set, PartsFor(set.data.full + set.manifest.full + 4))
      BY <2>1, <3>2, UnitKinds
    <3>4. last.data = set.data.full + 1 /\ last.manifest = set.manifest.full + 1
      BY <3>3 DEF Trailer
    <3>5. set.data \in SectionRecords /\ set.manifest \in SectionRecords
      BY <1>2, OthersAreSets DEF SetRecords
    <3>6. set.data.full \in Nat /\ set.manifest.full \in Nat
      BY <3>5 DEF SectionRecords
    <3> QED
      BY <3>4, <3>6
  <2> QED
    BY <2>2, <2>4, <2>5
<1>6. OpenedInOrder'
  BY <1>0, <1>1, <1>2, <1>5 DEF OpenedInOrder
<1> QED
  BY <1>4, <1>6

\* A section is begun: what can be decrypted of it is known, and if it ends well
\* that is the section of the set that was written.
LEMMA ReadSectionKeeps ==
  ASSUME SetInv, fault = "none", NEW s \in {"data", "manifest"}, ReadSection(s)
  PROVE  FilesInOrder' /\ OpenedInOrder'
<1> DEFINE units == Units(files, opened, s)
           n == opened.trailer[s]
           plain == Plaintext(units, opened.set, s)
<1>0. FilesInOrder /\ OpenedInOrder
  BY DEF SetInv
<1>1. /\ UNCHANGED <<files, mine, damages, fault, opened>>
      /\ section' = s /\ chunks' = Len(plain) /\ damage' = ~EndsWell(units, opened.set, s)
      /\ got' = [got EXCEPT ![s] = plain]
  BY DEF ReadSection, Reading!Begin
<1>2. mine.name = "this" /\ mine \in SetRecords /\ opened.set = mine /\ n \in Nat \ {0}
  BY <1>0 DEF FilesInOrder, OpenedInOrder
<1>3. units \in [1 .. n -> Readable]
  BY <1>0, ReadAtReadable DEF Units
<1> HIDE DEF units, n
<1>4. ~damage' => plain = SelectSeq(SectionOf(mine, s), Holds)
  BY <1>1, <1>2, <1>3, EndsWellMeansWhole
<1> HIDE DEF plain
<1>5. got'[s] = plain
  BY <1>0, <1>1 DEF OpenedInOrder
<1>6. Readable' = Readable
  BY <1>1 DEF Readable, Others
<1>7. FilesInOrder'
  BY <1>0, <1>1, <1>6 DEF FilesInOrder
<1>8. ~damage' => got'[section'] = SelectSeq(SectionOf(mine', section'), Holds)
  BY <1>1, <1>4, <1>5
<1>9. OpenedInOrder'
  BY <1>0, <1>1, <1>2, <1>5, <1>8 DEF OpenedInOrder
<1> QED
  BY <1>7, <1>9

\* SetInv holds before anything is written ...
LEMMA SetInvInit == AllInit => SetInv
<1> SUFFICES ASSUME AllInit PROVE SetInv
  OBVIOUS
<1>1. WriterInv /\ Reading!ReadInv
  BY WriterInvInit, ReadInvInit DEF AllInit
<1>2. FilesInOrder
  <2>1. mine = [name |-> "", data |-> [full |-> 0, rest |-> FALSE],
                manifest |-> [full |-> 0, rest |-> FALSE]]
    BY DEF AllInit, Named, Sections
  <2>2. mine \in SetRecords /\ mine.name = ""
    BY <2>1 DEF SetRecords, SectionRecords
  <2>3. files = <<>> /\ \A p \in DOMAIN files : FALSE
    <3>1. files = <<>>
      BY DEF AllInit, NoFiles
    <3> QED
      BY <3>1
  <2> QED
    BY <2>2, <2>3 DEF AllInit, FilesInOrder, NoFiles
<1>3. OpenedInOrder
  BY DEF AllInit, Reading!Init, OpenedInOrder
<1> QED
  BY <1>1, <1>2, <1>3 DEF SetInv

\* ... and after every step.
LEMMA SetInvNext ==
  ASSUME SetInv, [AllNext]_allVars
  PROVE  SetInv'
<1>0. WriterInv /\ Reading!ReadInv /\ FilesInOrder /\ OpenedInOrder
  BY DEF SetInv
<1>1. WriterInv'
  BY <1>0, WriterInvNext
<1>2. ASSUME UNCHANGED <<files, mine, damages, fault>>
      PROVE  FilesInOrder'
  <2>1. Readable' = Readable
    BY <1>2 DEF Readable, Others
  <2> QED
    BY <1>0, <1>2, <2>1 DEF FilesInOrder
<1>3. ASSUME UNCHANGED readVars
      PROVE  Reading!ReadInv'
  BY <1>0, <1>3 DEF readVars, Reading!ReadInv, Reading!DecryptionInOrder,
     Reading!ConsumerInOrder, Reading!SuccessMeansAll, Reading!BlameIsReal, Reading!Reported
<1>4. ASSUME UNCHANGED <<diskVars, readVars>>
      PROVE  SetInv'
  BY <1>0, <1>1, <1>2, <1>3, <1>4, SameSectionRead DEF SetInv, diskVars, readVars
<1>5. CASE Written
  <2>1. UNCHANGED readVars
    BY <1>5 DEF Written
  <2> QED
    BY <1>1, <1>3, <1>5, <2>1, WrittenKeeps DEF SetInv
<1>6. CASE Disk
  <2>1. UNCHANGED readVars
    BY <1>6 DEF Disk, LosePart, CutPart, DamageUnit, MixParts, Happens
  <2> QED
    BY <1>1, <1>3, <1>6, <2>1, DiskKeeps DEF SetInv
<1>7. CASE OpenSet
  <2>1. UNCHANGED readVars
    BY <1>7 DEF OpenSet
  <2> QED
    BY <1>1, <1>3, <1>7, <2>1, OpenKeeps DEF SetInv
<1>8. ASSUME NEW s \in {"data", "manifest"}, fault = "none", ReadSection(s)
      PROVE  SetInv'
  <2>1. Reading!ReadInv'
    BY <1>8, ReadInvBegin DEF ReadSection
  <2> QED
    BY <1>1, <1>8, <2>1, ReadSectionKeeps DEF SetInv
<1>9. CASE ReadManifest
  BY <1>8, <1>9 DEF ReadManifest
<1>10. CASE ReadData
  BY <1>0, <1>8, <1>10 DEF ReadData, OpenedInOrder
<1>11. CASE Reads
  <2>1. Reading!ReadInv'
    BY <1>0, <1>11, ReadInvStep DEF Reads
  <2>2. UNCHANGED <<section, chunks, damage>>
    BY <1>11 DEF Reads, Reading!Next, Reading!Decryption, Reading!Consumer, Reading!Cancel,
       Reading!Decrypt, Reading!ChunkFails, Reading!DecryptFails, Reading!PartFails,
       Reading!WriteCancelled, Reading!WriteRefused, Reading!AllDecrypted,
       Reading!EndDecryption, Reading!Take, Reading!Stop, Reading!Upstream,
       Reading!ClosePipe, Reading!Return
  <2>3. UNCHANGED <<files, mine, damages, fault, opened, got>>
    BY <1>11 DEF Reads, diskVars
  <2> QED
    BY <1>0, <1>1, <1>2, <2>1, <2>2, <2>3, SameSectionRead DEF SetInv
<1>12. CASE Ended \/ UNCHANGED allVars
  BY <1>4, <1>12 DEF Ended, allVars
<1> QED
  BY <1>4, <1>5, <1>6, <1>7, <1>9, <1>10, <1>11, <1>12 DEF AllNext

\* For any sizes of the streams, the buffer and the parts, and whatever happens to
\* the part files, however often: what OpenSet, ReadManifest and DecryptStream
\* report as read is what Write wrote, all of it; an error is blamed on the side
\* that had one; and a set nothing happened to can be opened.
THEOREM WhatIsReadWasWritten == AllSpec => []SuccessMeansAll
<1>1. AllInit => SetInv
  BY SetInvInit
<1>2. SetInv /\ [AllNext]_allVars => SetInv'
  BY SetInvNext
<1>3. SetInv => SuccessMeansAll
  <2> SUFFICES ASSUME SetInv PROVE SuccessMeansAll
    OBVIOUS
  <2>1. Reading!SuccessMeansAll /\ Reading!BlameIsReal
    BY DEF SetInv, Reading!ReadInv
  <2>2. ASSUME outcome = "ok"
        PROVE  /\ got[section] = SelectSeq(SectionOf(mine, section), Holds)
               /\ sent = Len(got[section])
    <3>1. section # "none"
      BY <2>2 DEF SetInv, Reading!ReadInv, Reading!ConsumerInOrder
    <3>2. sent = chunks /\ ~damage
      BY <2>1, <2>2 DEF Reading!SuccessMeansAll
    <3> QED
      BY <3>1, <3>2 DEF SetInv, OpenedInOrder
  <2>3. damages = 0 => fault \in {"", "none"}
    BY DEF SetInv, FilesInOrder
  <2> QED
    BY <2>1, <2>2, <2>3 DEF SuccessMeansAll
<1> QED
  BY <1>1, <1>2, <1>3, PTL DEF AllSpec

=============================================================================
