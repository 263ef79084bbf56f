------------------------------ MODULE SetWriter ------------------------------
(***************************************************************************)
(* Writing one backup set (internal/format/setwriter): a goroutine builds  *)
(* the TAR stream and writes it into a pipe; the caller reads the pipe,    *)
(* encrypts it and writes chunks through a buffer and the split writer     *)
(* into temporary part files; a third goroutine serializes the manifest    *)
(* once the TAR is done.  Any of them may fail, at any point, and the      *)
(* others must then end as well.                                           *)
(*                                                                         *)
(* Data is counted in units: the header, every chunk of a section and the  *)
(* trailer are one unit each, PartSize units fill a part file.             *)
(***************************************************************************)
EXTENDS Naturals

CONSTANTS
  MaxData,    \* bound: full chunks of the TAR stream (the final chunk after them
              \* holds the rest, or nothing)
  MaxManifest, \* bound: full chunks of the manifest, likewise
  BufSize,    \* bufio.Writer in front of the split writer
  PartSize    \* split_size_mb

ASSUME SizesAssumption == {MaxData, MaxManifest, BufSize, PartSize} \subseteq Nat \ {0}

VARIABLES
  \* the TAR goroutine (archive.BuildTar)
  tpc,        \* "build", "offer" (blocked in a pipe write), "close", "send", "done"
  size,       \* full chunks of its stream
  taken,      \* chunks the reader has taken
  tarErr,     \* its result; "ok" until it fails
  tarCh,      \* tarErrCh: a result, or "empty"
  cancelled,  \* ctx is cancelled
  \* the data pipe: its writer's end ("open", "ok" for EOF, or an error), and
  \* whether the reader has closed it
  pipeEnd, pipeClosed,
  \* the manifest goroutine (manifestFn in encryptManifest) and its pipe
  fpc, msize, mtaken, fnErr, manifestEnd, manifestClosed,
  tarDone,    \* tarErr was received from tarErrCh
  \* the caller
  pc,
  writeErr,   \* the error of container.Write, or "ok"
  buf,        \* units in the buffer
  written,    \* units in part files
  parts,      \* part files created
  outErr,     \* the buffer's sticky error
  promised,   \* the part count in the trailer
  renamed,    \* parts under their final names
  left,       \* parts left in the backup directory when Write returns
  result      \* what Write returns: "ok" or an error

tarVars == <<tpc, size, taken, tarErr, tarCh>>
pipeVars == <<pipeEnd, pipeClosed>>
manifestVars == <<fpc, msize, mtaken, fnErr, manifestEnd, manifestClosed, tarDone>>
outVars == <<buf, written, parts, outErr>>
endVars == <<promised, renamed, left, result>>
vars == <<tarVars, cancelled, pipeVars, manifestVars, pc, writeErr, outVars,
          endVars>>

Init ==
  /\ tpc = "build" /\ size \in 0 .. MaxData /\ taken = 0
  /\ tarErr = "ok" /\ tarCh = "empty"
  /\ cancelled = FALSE
  /\ pipeEnd = "open" /\ pipeClosed = FALSE
  /\ fpc = "idle" /\ msize \in 0 .. MaxManifest /\ mtaken = 0 /\ fnErr = "empty" /\ manifestEnd = "open"
  /\ manifestClosed = FALSE /\ tarDone = FALSE
  /\ pc = "header" /\ writeErr = "ok"
  /\ buf = 0 /\ written = 0 /\ parts = 0 /\ outErr = FALSE
  /\ promised = 0 /\ renamed = 0 /\ left = 0 /\ result = "running"

-----------------------------------------------------------------------------
(* The TAR goroutine *)

\* BuildTar has a chunk ready and writes it to the pipe.
Offer ==
  /\ tpc = "build" /\ ~cancelled /\ taken < size
  /\ tpc' = "offer"
  /\ UNCHANGED <<size, taken, tarErr, tarCh, cancelled, pipeVars, manifestVars, pc,
                 writeErr, outVars, endVars>>

\* The rest of the stream, less than a chunk, waits for its end in the reader's
\* ReadFull; BuildTar returns nil.
TarEnds ==
  /\ tpc = "build" /\ ~cancelled /\ taken = size
  /\ tpc' = "close"
  /\ UNCHANGED <<size, taken, tarErr, tarCh, cancelled, pipeVars, manifestVars, pc,
                 writeErr, outVars, endVars>>

TarFails(e) ==
  /\ tarErr' = e
  /\ tpc' = "close"
  /\ UNCHANGED <<size, taken, tarCh, cancelled, pipeVars, manifestVars, pc, writeErr,
                 outVars, endVars>>

\* A source file can't be read (on_unreadable_file: abort).
SourceFails ==
  /\ tpc = "build"
  /\ TarFails("source")

\* BuildTar looks at ctx before every entry, and ContextWriter before every
\* write.
NoticeCancel ==
  /\ tpc = "build" /\ cancelled
  /\ TarFails("cancelled")

\* The reader closed the pipe: the pending write returns its error.
WriteRefused ==
  /\ tpc = "offer" /\ pipeClosed
  /\ TarFails("aborted")

\* pw.CloseWithError(err); nil is EOF for the reader.
CloseTar ==
  /\ tpc = "close"
  /\ pipeEnd' = tarErr
  /\ tpc' = "send"
  /\ UNCHANGED <<size, taken, tarErr, tarCh, cancelled, pipeClosed, manifestVars, pc,
                 writeErr, outVars, endVars>>

\* tarErrCh <- err: the channel has room for it.
SendTarErr ==
  /\ tpc = "send"
  /\ tarCh' = tarErr
  /\ tpc' = "done"
  /\ UNCHANGED <<size, taken, tarErr, cancelled, pipeVars, manifestVars, pc, writeErr,
                 outVars, endVars>>

Tar == Offer \/ TarEnds \/ SourceFails \/ NoticeCancel \/ WriteRefused
       \/ CloseTar \/ SendTarErr

-----------------------------------------------------------------------------
(* The manifest goroutine *)

\* manifestFn waits for the TAR.
ReceiveTarErr ==
  /\ fpc = "wait" /\ tarCh # "empty"
  /\ tarCh' = "empty"
  /\ tarDone' = TRUE
  /\ IF tarCh = "ok" THEN fpc' = "encode" /\ UNCHANGED fnErr
                     ELSE fpc' = "close" /\ fnErr' = tarCh
  /\ UNCHANGED <<tpc, size, taken, tarErr, cancelled, pipeVars, msize, mtaken,
                 manifestEnd, manifestClosed, pc, writeErr, outVars, endVars>>

\* Builder.Encode: the manifest doesn't validate, and nothing is written.
EncodeFails ==
  /\ fpc = "encode" /\ mtaken = 0
  /\ fnErr' = "manifest"
  /\ fpc' = "close"
  /\ UNCHANGED <<tarVars, cancelled, pipeVars, msize, mtaken, manifestEnd,
                 manifestClosed, tarDone, pc, writeErr, outVars, endVars>>

\* Builder.Encode writes the next chunk to the pipe, or has written everything.
Encode ==
  /\ fpc = "encode"
  /\ fpc' = IF mtaken < msize THEN "offer" ELSE "close"
  /\ UNCHANGED <<tarVars, cancelled, pipeVars, msize, mtaken, fnErr, manifestEnd,
                 manifestClosed, tarDone, pc, writeErr, outVars, endVars>>

\* EncryptStream stopped reading the manifest.
ManifestRefused ==
  /\ fpc = "offer" /\ manifestClosed
  /\ fnErr' = "stopped"
  /\ fpc' = "close"
  /\ UNCHANGED <<tarVars, cancelled, pipeVars, msize, mtaken, manifestEnd,
                 manifestClosed, tarDone, pc, writeErr, outVars, endVars>>

\* pw.CloseWithError(err), then fnErr <- err.
CloseManifest ==
  /\ fpc = "close"
  /\ manifestEnd' = IF fnErr = "empty" THEN "ok" ELSE fnErr
  /\ fnErr' = manifestEnd'
  /\ fpc' = "done"
  /\ UNCHANGED <<tarVars, cancelled, pipeVars, msize, mtaken, manifestClosed,
                 tarDone, pc, writeErr, outVars, endVars>>

ManifestFn ==
  \/ ReceiveTarErr \/ EncodeFails \/ Encode \/ ManifestRefused \/ CloseManifest

-----------------------------------------------------------------------------
(* The output: bufio.Writer over the split writer *)

\* The split writer closes a full part at once and opens the next one only for
\* more data.
PartsFor(units) == (units + PartSize - 1) \div PartSize

\* The buffered units reach the part files, or only some of them do: a part
\* can't be created, written or synced.
Flush ==
  \/ /\ written' = written + buf
     /\ parts' = PartsFor(written')
     /\ buf' = 0
     /\ UNCHANGED outErr
  \/ \E k \in 0 .. buf, opened \in {0, 1} :
       /\ buf > 0
       /\ written' = written + k
       /\ opened = 1 => written' % PartSize = 0 /\ k < buf
       /\ parts' = PartsFor(written') + opened
       /\ outErr' = TRUE
       /\ UNCHANGED buf

\* One unit more, flushing the full buffer first.  outErr' tells whether it
\* failed.
Emit ==
  \/ /\ buf < BufSize
     /\ buf' = buf + 1
     /\ UNCHANGED <<written, parts, outErr>>
  \/ /\ buf = BufSize
     /\ written' = written + buf
     /\ parts' = PartsFor(written')
     /\ buf' = 1
     /\ UNCHANGED outErr
  \/ /\ buf = BufSize
     /\ Flush /\ outErr'

-----------------------------------------------------------------------------
(* The caller: container.Write, then the end of setwriter.Write *)

\* A step of container.Write that writes one unit and goes on with next.
Put(here, next) ==
  /\ pc = here
  /\ Emit
  /\ pc' = IF outErr' THEN "abort" ELSE next
  /\ writeErr' = IF outErr' THEN "output" ELSE writeErr
  /\ UNCHANGED <<tarVars, cancelled, pipeVars, endVars>>

PutHeader == Put("header", "read") /\ UNCHANGED manifestVars

\* EncryptStream, data section: a chunk from the pipe ...
TakeChunk ==
  /\ pc = "read" /\ tpc = "offer"
  /\ taken' = taken + 1
  /\ tpc' = "build"
  /\ pc' = "chunk"
  /\ UNCHANGED <<size, tarErr, tarCh, cancelled, pipeVars, manifestVars, writeErr,
                 outVars, endVars>>

PutChunk == Put("chunk", "read") /\ UNCHANGED manifestVars

\* ... its end, or the error of the TAR goroutine.
EndOfData ==
  /\ pc = "read" /\ pipeEnd # "open"
  /\ IF pipeEnd = "ok" THEN pc' = "final" /\ UNCHANGED writeErr
                       ELSE pc' = "abort" /\ writeErr' = pipeEnd
  /\ UNCHANGED <<tarVars, cancelled, pipeVars, manifestVars, outVars, endVars>>

\* The final chunk; then encryptManifest starts its goroutine.
PutFinal ==
  /\ Put("final", "mread")
  /\ fpc' = IF outErr' THEN fpc ELSE "wait"
  /\ UNCHANGED <<msize, mtaken, fnErr, manifestEnd, manifestClosed, tarDone>>

\* EncryptStream, manifest section.
TakeManifest ==
  /\ pc = "mread" /\ fpc = "offer"
  /\ fpc' = "encode"
  /\ mtaken' = mtaken + 1
  /\ pc' = "mchunk"
  /\ UNCHANGED <<tarVars, cancelled, pipeVars, msize, fnErr, manifestEnd,
                 manifestClosed, tarDone, writeErr, outVars, endVars>>

EndOfManifest ==
  /\ pc = "mread" /\ manifestEnd # "open"
  /\ pc' = IF manifestEnd = "ok" THEN "mfinal" ELSE "mjoin"
  /\ manifestClosed' = (manifestEnd # "ok")
  /\ UNCHANGED <<tarVars, cancelled, pipeVars, fpc, msize, mtaken, fnErr,
                 manifestEnd, tarDone, writeErr, outVars, endVars>>

PutManifest(here, next) ==
  /\ pc = here
  /\ Emit
  /\ pc' = IF outErr' THEN "mjoin" ELSE next
  /\ manifestClosed' = (pc' = "mjoin")
  /\ UNCHANGED <<tarVars, cancelled, pipeVars, fpc, msize, mtaken, fnErr,
                 manifestEnd, tarDone, writeErr, endVars>>

PutManifestChunk == PutManifest("mchunk", "mread")
PutManifestFinal == PutManifest("mfinal", "mjoin")

\* err := <-fnErr, which comes before the error of the encryption.
JoinManifest ==
  /\ pc = "mjoin" /\ fpc = "done"
  /\ writeErr' = IF fnErr \notin {"ok", "stopped"} THEN fnErr
                 ELSE IF outErr THEN "output" ELSE "ok"
  /\ pc' = IF writeErr' = "ok" THEN "trailer" ELSE "abort"
  /\ UNCHANGED <<tarVars, cancelled, pipeVars, manifestVars, outVars, endVars>>

\* The trailer, with the part count computed from the bytes written so far.
PutTrailer ==
  /\ pc = "trailer"
  /\ promised' = PartsFor(written + buf + 1)
  /\ Emit
  /\ pc' = "abort"
  /\ writeErr' = IF outErr' THEN "output" ELSE "ok"
  /\ UNCHANGED <<tarVars, cancelled, pipeVars, manifestVars, renamed, left, result>>

\* Faulty variant: the pipe stays open.
PipeStaysOpen ==
  /\ pc = "abort"
  /\ pc' = "join"
  /\ UNCHANGED <<tarVars, cancelled, pipeVars, manifestVars, writeErr, outVars,
                 endVars>>

\* pr.CloseWithError("backup aborted"), after success too.
ClosePipe ==
  /\ pc = "abort"
  /\ pipeClosed' = TRUE
  /\ pc' = "join"
  /\ UNCHANGED <<tarVars, cancelled, pipeEnd, manifestVars, writeErr, outVars,
                 endVars>>

\* tarErr = <-tarErrCh, unless the manifest goroutine received it.
JoinTar ==
  /\ pc = "join"
  /\ tarDone \/ tarCh # "empty"
  /\ tarDone' = TRUE
  /\ tarCh' = "empty"
  /\ pc' = "flush"
  /\ UNCHANGED <<tpc, size, taken, tarErr, cancelled, pipeVars, fpc, msize, mtaken,
                 fnErr, manifestEnd, manifestClosed, writeErr, outVars, endVars>>

\* bw.Flush and sw.Close; the buffer's error stays.
FlushAndClose ==
  /\ pc = "flush"
  /\ IF outErr THEN UNCHANGED outVars ELSE Flush
  /\ pc' = "judge"
  /\ UNCHANGED <<tarVars, cancelled, pipeVars, manifestVars, writeErr, endVars>>

\* Faulty variant: the errors of Flush and Close are ignored.
FirstStreamError == IF tarErr # "ok" THEN tarErr ELSE writeErr

\* firstError(tarErr, writeErr, flushErr, closeErr)
FirstError ==
  IF tarErr # "ok" THEN tarErr
  ELSE IF writeErr # "ok" THEN writeErr
  ELSE IF outErr THEN "output"
  ELSE "ok"

\* An error or an unexpected number of parts: removeAll.
Fail ==
  /\ pc = "judge"
  /\ FirstError # "ok" \/ parts # promised
  /\ result' = IF FirstError # "ok" THEN FirstError ELSE "internal"
  /\ left' = 0
  /\ pc' = "returned"
  /\ UNCHANGED <<tarVars, cancelled, pipeVars, manifestVars, writeErr, outVars,
                 promised, renamed>>

\* FinalizeParts, one part.
Rename ==
  /\ pc = "judge"
  /\ FirstError = "ok" /\ parts = promised
  /\ renamed < parts
  /\ renamed' = renamed + 1
  /\ UNCHANGED <<tarVars, cancelled, pipeVars, manifestVars, pc, writeErr, outVars,
                 promised, left, result>>

\* A part can't be renamed: what was written stays.
RenameFails ==
  /\ pc = "judge"
  /\ FirstError = "ok" /\ parts = promised
  /\ renamed < parts
  /\ result' = "rename"
  /\ left' = parts
  /\ pc' = "returned"
  /\ UNCHANGED <<tarVars, cancelled, pipeVars, manifestVars, writeErr, outVars,
                 promised, renamed>>

Finish ==
  /\ pc = "judge"
  /\ FirstError = "ok" /\ renamed = parts /\ parts = promised
  /\ result' = "ok"
  /\ left' = parts
  /\ pc' = "returned"
  /\ UNCHANGED <<tarVars, cancelled, pipeVars, manifestVars, writeErr, outVars,
                 promised, renamed>>

Caller ==
  \/ PutHeader \/ TakeChunk \/ PutChunk \/ EndOfData \/ PutFinal
  \/ TakeManifest \/ EndOfManifest \/ PutManifestChunk \/ PutManifestFinal
  \/ JoinManifest \/ PutTrailer \/ ClosePipe \/ JoinTar \/ FlushAndClose
  \/ Fail \/ Rename \/ RenameFails \/ Finish

-----------------------------------------------------------------------------
\* The user cancels the backup.
Cancel ==
  /\ ~cancelled /\ pc # "returned"
  /\ cancelled' = TRUE
  /\ UNCHANGED <<tarVars, pipeVars, manifestVars, pc, writeErr, outVars, endVars>>

\* Write has returned and all its goroutines have ended.
Over == pc = "returned" /\ tpc = "done" /\ fpc \in {"idle", "done"}

Next == Tar \/ ManifestFn \/ Caller \/ Cancel

\* Each goroutine goes on whenever it can: the Go scheduler runs every runnable
\* goroutine, and reads and writes of files return.
Fairness == WF_vars(Tar) /\ WF_vars(ManifestFn) /\ WF_vars(Caller)

-----------------------------------------------------------------------------
(* Properties *)

\* Write reports success only for a whole set: the TAR stream ended without an
\* error, and header, chunks, both final chunks, manifest and trailer are in
\* part files, all renamed, as many as the trailer says.  Errors surface late,
\* through a buffer and from two other goroutines.  And the part count of the
\* trailer, computed before the last units are flushed and split, is right, also
\* when the set ends exactly at the end of a part: "Internal error: wrote %d
\* part(s)" never happens.  When Write returns, no goroutine still uses the
\* manifest builder, the statistics or the pipes.
WholeSetOnSuccess ==
  /\ pc = "returned" => Over
  /\ result # "internal"
  /\ result = "ok" =>
       /\ tarErr = "ok" /\ taken = size /\ mtaken = msize
       /\ written = size + msize + 4 /\ buf = 0
       /\ renamed = parts /\ parts = promised

\* Whatever fails, Write returns and its goroutines end: no one waits forever on
\* a pipe or a channel.
WriteReturns == <>Over
-----------------------------------------------------------------------------
(* The inductive invariant *)

Errors == {"source", "cancelled", "aborted", "manifest", "stopped", "output"}
EarlySteps == {"header", "read", "chunk", "final"}
ManifestSteps == {"mread", "mchunk", "mfinal", "mjoin"}
LateSteps == {"abort", "join", "flush", "judge", "returned"}

WriterType ==
  /\ tpc \in {"build", "offer", "close", "send", "done"}
  /\ size \in Nat /\ taken \in 0 .. size
  /\ tarErr \in Errors \cup {"ok"} /\ tarCh \in Errors \cup {"ok", "empty"}
  /\ pipeEnd \in Errors \cup {"ok", "open"} /\ manifestEnd \in Errors \cup {"ok", "open"}
  /\ pipeClosed \in BOOLEAN /\ manifestClosed \in BOOLEAN
  /\ tarDone \in BOOLEAN /\ outErr \in BOOLEAN
  /\ fpc \in {"idle", "wait", "encode", "offer", "close", "done"}
  /\ msize \in Nat /\ mtaken \in 0 .. msize
  /\ fnErr \in Errors \cup {"ok", "empty"} /\ writeErr \in Errors \cup {"ok"}
  /\ pc \in EarlySteps \cup ManifestSteps \cup {"trailer"} \cup LateSteps
  /\ buf \in Nat /\ written \in Nat

\* The TAR goroutine: what its end of the pipe and its channel say is its result,
\* which is "ok" only after its whole stream was taken.
TarInOrder ==
  /\ tpc = "offer" => taken < size
  /\ tpc \in {"build", "offer"} => tarErr = "ok"
  /\ pipeEnd = IF tpc \in {"send", "done"} THEN tarErr ELSE "open"
  /\ tarErr = "ok" /\ tpc \in {"close", "send", "done"} => taken = size
  /\ tarCh # "empty" => tarCh = tarErr
  /\ tarCh # "empty" \/ tarDone => tpc = "done"

\* The manifest goroutine starts after the TAR, and ends with "ok" only after
\* the whole manifest was taken; it is refused only by a reader that has stopped.
ManifestInOrder ==
  /\ fpc \in {"encode", "offer"} => tarErr = "ok" /\ fnErr = "empty"
  /\ fpc \in {"idle", "wait"} => mtaken = 0 /\ fnErr = "empty"
  /\ fpc = "offer" => mtaken < msize
  /\ fpc = "close" /\ fnErr = "empty" => mtaken = msize
  /\ fnErr = "ok" => fpc = "done" /\ mtaken = msize
  /\ manifestEnd = IF fpc = "done" THEN fnErr ELSE "open"
  /\ fpc = "done" => fnErr # "empty"
  /\ fnErr = "stopped" => manifestClosed
  /\ manifestClosed => pc \notin EarlySteps \cup {"mread", "mchunk", "mfinal"}

\* When which goroutine lives.
CallerInOrder ==
  /\ pc \in EarlySteps => fpc = "idle"
  /\ pc \in ManifestSteps => fpc # "idle"
  /\ pc \in {"trailer"} \cup LateSteps => fpc \in {"idle", "done"}
  /\ pc \in {"final", "trailer"} \cup ManifestSteps => tpc \in {"send", "done"} /\ tarErr = "ok"
  /\ pc \in {"flush", "judge", "returned"} => tpc = "done"
  /\ pc \in {"mfinal", "trailer"} => fnErr = "ok"
  /\ pc = "returned" <=> result # "running"

\* The units of the set that were written to the buffer or beyond it, as far as
\* the caller has come.
Emitted ==
  CASE pc = "header"  -> 0
    [] pc = "read"    -> 1 + taken
    [] pc = "chunk"   -> taken
    [] pc = "final"   -> 1 + size
    [] pc = "mread"   -> 2 + size + mtaken
    [] pc = "mchunk"  -> 1 + size + mtaken
    [] pc = "mfinal"  -> 2 + size + msize
    [] pc = "trailer" -> 3 + size + msize
    [] OTHER          -> 4 + size + msize

\* Nothing is lost on the way through the buffer, as long as no error says so.
UnitsInOrder ==
  /\ pc \in EarlySteps \cup {"mread", "mchunk", "mfinal", "trailer"} =>
       ~outErr /\ writeErr = "ok" /\ written + buf = Emitted
  /\ pc = "header" => taken = 0
  /\ pc = "chunk" => taken > 0
  /\ pc = "mchunk" => mtaken > 0
  /\ pc = "mjoin" /\ ~outErr =>
       IF fnErr = "ok" THEN written + buf = 3 + size + msize
                       ELSE fpc = "done" /\ fnErr \notin {"ok", "stopped"}
  /\ pc \in {"abort", "join", "flush"} /\ writeErr = "ok" =>
       ~outErr /\ written + buf = Emitted /\ promised = PartsFor(Emitted)
  /\ pc \in LateSteps /\ writeErr = "ok" =>
       taken = size /\ mtaken = msize /\ tarErr = "ok" /\ tpc \in {"send", "done"}
  /\ pc \in {"judge", "returned"} /\ writeErr = "ok" /\ ~outErr =>
       /\ buf = 0 /\ written = Emitted
       /\ parts = PartsFor(written) /\ promised = PartsFor(written)
  /\ result = "ok" => writeErr = "ok" /\ ~outErr

WriterInv ==
  /\ WriterType /\ TarInOrder /\ ManifestInOrder /\ CallerInOrder /\ UnitsInOrder
  /\ WholeSetOnSuccess
=============================================================================
