----------------------------- MODULE ReadPipeline -----------------------------
(***************************************************************************)
(* Reading an encrypted section of a set: a goroutine decrypts chunk after *)
(* chunk (cryptox.DecryptStream) into a pipe, and the caller consumes the  *)
(* plaintext.  The data section feeds the extraction or verification of a  *)
(* restore point (workflow/restorepoint/decrypt_pipeline.go), the manifest *)
(* section feeds the manifest parser (container.Set.ReadManifest).  Either *)
(* side may fail or stop first; the two differ in which error they report. *)
(* Module WriteAndRead composes it with the writing of a set.              *)
(***************************************************************************)
EXTENDS Naturals

VARIABLES
  section,      \* "data", "manifest", or "none" before the first one
  size,         \* chunks with plaintext that decrypt
  damage,       \* whether a chunk after them doesn't authenticate, the final
                \* one is missing or data follows it
  cancelled,    \* ctx is cancelled (data section only)
  dpc,          \* decryption: "decrypt", "offer" (blocked in a pipe write),
                \* "close", "done"
  sent,         \* chunks the consumer took
  decErr,       \* result of the decryption; "ok" until it fails
  recorded,     \* recordingWriter.failed: a pipe write failed
  pipeEnd,      \* "open", "ok" (EOF) or the writer's error
  pipeClosed,   \* the consumer has closed the pipe
  cpc,          \* consumer: "consume", "close", "join", "returned"
  consumeErr,   \* its result
  result        \* the side whose error is returned, or "ok"

vars == <<section, size, damage, cancelled, dpc, sent, decErr, recorded, pipeEnd,
          pipeClosed, cpc, consumeErr, result>>

Init ==
  /\ section = "none" /\ size = 0 /\ damage = FALSE /\ cancelled = FALSE
  /\ dpc = "none" /\ sent = 0 /\ decErr = "ok" /\ recorded = FALSE
  /\ pipeEnd = "open" /\ pipeClosed = FALSE
  /\ cpc = "none" /\ consumeErr = "ok" /\ result = "none"

\* A section s is read: n chunks can be, and then it ends, well or badly.
Begin(s, n, bad) ==
  /\ section' = s /\ size' = n /\ damage' = bad
  /\ cancelled' = FALSE
  /\ dpc' = "decrypt" /\ sent' = 0 /\ decErr' = "ok" /\ recorded' = FALSE
  /\ pipeEnd' = "open" /\ pipeClosed' = FALSE
  /\ cpc' = "consume" /\ consumeErr' = "ok"
  /\ result' = "running"

-----------------------------------------------------------------------------
(* The decryption *)

\* The next chunk authenticates and is written to the pipe.
Decrypt ==
  /\ dpc = "decrypt" /\ sent < size /\ ~cancelled
  /\ dpc' = "offer"
  /\ UNCHANGED <<section, size, damage, cancelled, sent, decErr, recorded, pipeEnd,
                 pipeClosed, cpc, consumeErr, result>>

DecryptFails(e) ==
  /\ decErr' = e
  /\ dpc' = "close"
  /\ UNCHANGED <<section, size, damage, cancelled, sent, pipeEnd, pipeClosed, cpc,
                 consumeErr, result>>

\* The next chunk is damaged or missing, or there is data after the final one.
ChunkFails ==
  /\ dpc = "decrypt" /\ sent = size /\ damage
  /\ DecryptFails("corrupted")
  /\ UNCHANGED recorded

\* The part file can't be read.
PartFails ==
  /\ dpc = "decrypt"
  /\ DecryptFails("unreadable")
  /\ UNCHANGED recorded

\* ContextWriter refuses the write; the pipe doesn't see it.
WriteCancelled ==
  /\ dpc = "decrypt" /\ sent < size /\ cancelled
  /\ DecryptFails("cancelled")
  /\ UNCHANGED recorded

\* The pipe was closed: the write fails with the consumer's error.
WriteRefused ==
  /\ dpc = "offer" /\ pipeClosed
  /\ DecryptFails("refused")
  /\ recorded' = TRUE

\* The section ends after its final chunk.
AllDecrypted ==
  /\ dpc = "decrypt" /\ sent = size /\ ~damage
  /\ dpc' = "close"
  /\ UNCHANGED <<section, size, damage, cancelled, sent, decErr, recorded, pipeEnd,
                 pipeClosed, cpc, consumeErr, result>>

\* pw.CloseWithError(err); decErrCh <- err
EndDecryption ==
  /\ dpc = "close"
  /\ pipeEnd' = decErr
  /\ dpc' = "done"
  /\ UNCHANGED <<section, size, damage, cancelled, sent, decErr, recorded, pipeClosed, cpc,
                 consumeErr, result>>

Decryption ==
  \/ Decrypt \/ ChunkFails \/ PartFails \/ WriteCancelled \/ WriteRefused
  \/ AllDecrypted \/ EndDecryption

-----------------------------------------------------------------------------
(* The consumer *)

Take ==
  /\ cpc = "consume" /\ dpc = "offer"
  /\ sent' = sent + 1
  /\ dpc' = "decrypt"
  /\ UNCHANGED <<section, size, damage, cancelled, decErr, recorded, pipeEnd, pipeClosed,
                 cpc, consumeErr, result>>

\* consume returns: after the end of the stream, early, or with an error of its
\* own (a checksum, a full disk, a manifest that doesn't parse).
Stop(e) ==
  /\ cpc = "consume"
  /\ consumeErr' = e
  /\ cpc' = "close"
  /\ UNCHANGED <<section, size, damage, cancelled, dpc, sent, decErr, recorded, pipeEnd,
                 pipeClosed, result>>

\* It reads the error of the decryption from the pipe and returns it.
Upstream ==
  /\ cpc = "consume" /\ pipeEnd \notin {"open", "ok"}
  /\ consumeErr' = "upstream"
  /\ cpc' = "close"
  /\ UNCHANGED <<section, size, damage, cancelled, dpc, sent, decErr, recorded, pipeEnd,
                 pipeClosed, result>>

\* Faulty variant: the pipe stays open.
PipeStaysOpen ==
  /\ cpc = "close"
  /\ cpc' = "join"
  /\ UNCHANGED <<section, size, damage, cancelled, dpc, sent, decErr, recorded, pipeEnd,
                 pipeClosed, consumeErr, result>>

\* pr.CloseWithError, in any case.
ClosePipe ==
  /\ cpc = "close"
  /\ pipeClosed' = TRUE
  /\ cpc' = "join"
  /\ UNCHANGED <<section, size, damage, cancelled, dpc, sent, decErr, recorded, pipeEnd,
                 consumeErr, result>>

\* The error that is returned.  Data: the consumer's, if the decryption was fine
\* or failed only to write to the pipe.  Manifest: an error of the decryption
\* itself, then the parser's.
Reported ==
  IF section = "data"
  THEN IF consumeErr # "ok" /\ (decErr = "ok" \/ recorded) THEN "consume"
       ELSE IF decErr # "ok" THEN "decrypt" ELSE "ok"
  ELSE IF decErr \notin {"ok", "refused"} THEN "decrypt"
       ELSE IF consumeErr # "ok" THEN "consume" ELSE "ok"

\* <-decErrCh
Return ==
  /\ cpc = "join" /\ dpc = "done"
  /\ result' = Reported
  /\ cpc' = "returned"
  /\ UNCHANGED <<section, size, damage, cancelled, dpc, sent, decErr, recorded, pipeEnd,
                 pipeClosed, consumeErr>>

\* manifest.Decode reads to the end unless it fails; the consumer of the data
\* section may stop early.
Consumer ==
  \/ Take
  \/ Stop("failed")
  \/ (section = "data" \/ pipeEnd = "ok") /\ Stop("ok")
  \/ Upstream \/ ClosePipe \/ Return

Cancel ==
  /\ section = "data" /\ ~cancelled /\ cpc # "returned"
  /\ cancelled' = TRUE
  /\ UNCHANGED <<section, size, damage, dpc, sent, decErr, recorded, pipeEnd, pipeClosed,
                 cpc, consumeErr, result>>

Over == cpc = "returned" /\ dpc = "done"

Next == Decryption \/ Consumer \/ Cancel

\* Both goroutines go on whenever they can.
Fairness == WF_vars(Decryption) /\ WF_vars(Consumer)

-----------------------------------------------------------------------------
(* Properties; module WriteAndRead checks them. *)

\* Success means that every chunk up to the final one was authenticated and
\* consumed: a damaged, cut off or cancelled section never counts as read.
SuccessMeansAll ==
  result = "ok" => sent = size /\ ~damage /\ consumeErr = "ok"

\* An error is blamed on the side that had one of its own, never on the side
\* that only felt the other one end.
BlameIsReal ==
  /\ result = "consume" => consumeErr = "failed"
  /\ result = "decrypt" =>
       \/ decErr \in {"corrupted", "unreadable", "cancelled"}
       \/ section = "data" /\ consumeErr = "ok"

-----------------------------------------------------------------------------
(* The inductive invariant *)

OwnErrors == {"corrupted", "unreadable", "cancelled"}

\* The decryption: its result is "ok" only after the whole section; a write is
\* refused only by a consumer that has closed the pipe.
DecryptionInOrder ==
  /\ dpc \in {"none", "decrypt", "offer", "close", "done"}
  /\ decErr \in OwnErrors \cup {"ok", "refused"}
  /\ dpc \in {"none", "decrypt", "offer"} => decErr = "ok"
  /\ dpc \in {"close", "done"} /\ decErr = "ok" => sent = size /\ ~damage
  /\ recorded <=> decErr = "refused"
  /\ recorded => pipeClosed
  /\ pipeEnd = IF dpc = "done" THEN decErr ELSE "open"

\* The consumer: what it passes on is an error of the decryption's own, and a
\* manifest counts as parsed only after its end.
ConsumerInOrder ==
  /\ cpc \in {"none", "consume", "close", "join", "returned"}
  /\ consumeErr \in {"ok", "failed", "upstream"}
  /\ pipeClosed <=> cpc \in {"join", "returned"}
  /\ cpc \in {"none", "consume"} => consumeErr = "ok"
  /\ consumeErr = "upstream" => pipeEnd \in OwnErrors
  /\ section # "data" /\ cpc \in {"close", "join", "returned"} /\ consumeErr = "ok" =>
       pipeEnd = "ok"
  /\ cpc = "returned" => dpc = "done" /\ result = Reported
  /\ cpc # "returned" => result \in {"none", "running"}

ReadInv ==
  /\ DecryptionInOrder /\ ConsumerInOrder
  /\ section = "none" <=> dpc = "none"
  /\ section = "none" <=> cpc = "none"
  /\ SuccessMeansAll /\ BlameIsReal
=============================================================================
