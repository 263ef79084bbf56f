---------------------------- MODULE ReadRunProofs ----------------------------
(***************************************************************************)
(* For any number of processes, sets, requests and faults: ReadRunInv is   *)
(* an invariant of the restores and verifications of a backup directory,   *)
(* so what they log holds, what they report as restored is whole, and what *)
(* they fail with is so.                                                   *)
(***************************************************************************)
EXTENDS ReadRun, TLAPS, FiniteSetTheorems, SequenceTheorems

-----------------------------------------------------------------------------
(* Sets and their pieces *)

\* The sets a restore point is read from are sets of the directory.
LEMMA NeedsSets ==
  ASSUME NEW s \in Sets
  PROVE  Needs(s) \subseteq Sets /\ Pieces(s) \subseteq Piece
<1>1. Needs(s) \subseteq Sets
  BY ReadRunAssumption DEF Needs, Sets
<1> QED
  BY <1>1 DEF Pieces, Piece

\* A restore point is read to its last section: all of it but the headers and
\* trailers, which were read when it was opened.
LEMMA SectionsAre ==
  ASSUME NEW s \in Sets
  PROVE  /\ Sections(s) \in Seq(Pieces(s)) /\ 1 \in DOMAIN Sections(s)
         /\ \A x \in Pieces(s) : x[2] # "head" => \E i \in DOMAIN Sections(s) : Sections(s)[i] = x
<1> DEFINE base == Info[s].base
<1>1. CASE base = None
  <2>1. /\ Pieces(s) = {s} \X Part
        /\ Sections(s) = << <<s, "manifest">>, <<s, "data">> >>
    BY <1>1 DEF Pieces, Needs, Sections
  <2>2. \A x \in Pieces(s) : x[2] # "head" => x = <<s, "manifest">> \/ x = <<s, "data">>
    BY <2>1 DEF Part
  <2>3. <<s, "manifest">> \in Pieces(s) /\ <<s, "data">> \in Pieces(s)
    BY <2>1 DEF Part
  <2> DEFINE m == <<s, "manifest">>
             d == <<s, "data">>
  <2> HIDE DEF m, d
  <2>4. /\ Sections(s) = <<m, d>> /\ m \in Pieces(s) /\ d \in Pieces(s)
        /\ \A x \in Pieces(s) : x[2] # "head" => x = m \/ x = d
    BY <2>1, <2>2, <2>3 DEF m, d
  <2> QED
    BY <2>4
<1>2. CASE base # None
  <2>1. /\ Pieces(s) = {s, base} \X Part
        /\ Sections(s) = << <<s, "manifest">>, <<base, "manifest">>, <<base, "data">>, <<s, "data">> >>
    BY <1>2 DEF Pieces, Needs, Sections
  <2> DEFINE m == <<s, "manifest">>
             d == <<s, "data">>
             bm == <<base, "manifest">>
             bd == <<base, "data">>
  <2>2. \A x \in Pieces(s) : x[2] # "head" => x \in {m, d, bm, bd}
    BY <2>1 DEF Part
  <2>3. m \in Pieces(s) /\ d \in Pieces(s) /\ bm \in Pieces(s) /\ bd \in Pieces(s)
    BY <2>1 DEF Part
  <2>4. Sections(s) = <<m, bm, bd, d>>
    BY <2>1
  <2> HIDE DEF m, d, bm, bd
  <2> QED
    BY <2>2, <2>3, <2>4
<1> QED
  BY <1>1, <1>2

-----------------------------------------------------------------------------
(* What a run keeps while it does nothing *)

\* Somebody else makes or fills a folder.
LEMMA FolderOfAnother ==
  ASSUME NEW q \in Proc, NEW r, r.sets \in Seq(Sets), RunInv(q, r), UNCHANGED disk, OneOwner,
         NEW f \in Folder, NEW owner, owner # q, dest[f].by \in {{}, {owner}},
         NEW whole, dest' = [dest EXCEPT ![f] = [by |-> {owner}, whole |-> whole]]
  PROVE  RunInv(q, r)'
<1>1. RunInOrder(r)' /\ ReadInOrder(r)'
  BY DEF RunInv, RunInOrder, ReadInOrder, Pieces, Needs, Sections, Set
<1>2. \A g \in Folder : /\ dest'[g].by = {q} <=> dest[g].by = {q}
                        /\ dest[g].by = {q} => dest'[g] = dest[g]
                        /\ q \in dest'[g].by => q \in dest[g].by
                        /\ dest[g].by # {} => dest'[g].by # {}
  <2> DEFINE d == [by |-> {owner}, whole |-> whole]
  <2>1. d.by = {owner}
    OBVIOUS
  <2> HIDE DEF d
  <2>2. \A g \in Folder : dest'[g] = IF g = f THEN d ELSE dest[g]
    BY DEF OneOwner, d
  <2> QED
    BY <2>1, <2>2
<1>3. \A g \in Folder : dest[g] = [by |-> {q}, whole |-> TRUE] =>
                          dest'[g] = [by |-> {q}, whole |-> TRUE]
  BY <1>2
<1>4. \A i \in DOMAIN r.sets : Info[r.sets[i]].folder \in Folder
  BY DEF Folder
<1>5. r.pc \in Working \cup {"stopped"} \/ r.result \in {"ok", "failed", "cancelled"} =>
        r.n \in DOMAIN r.sets /\ Target(r) \in Folder /\ Finished(r) \subseteq Folder
  BY <1>4 DEF RunInv, RunInOrder, Target, Set, Finished
<1>6. DestInOrder(q, r)'
  <2>1. ~HasBegun(r) => \A g \in Folder : q \notin dest'[g].by
    BY <1>2 DEF RunInv, DestInOrder
  <2>2. r.kind = "restore" /\ r.pc \in {"open", "read", "done"} =>
          \A g \in Finished(r) : dest'[g] = [by |-> {q}, whole |-> TRUE]
    BY <1>3, <1>5 DEF RunInv, DestInOrder, Working
  <2>3. r.kind = "restore" /\ r.pc \in {"read", "done"} => dest'[Target(r)].by = {q}
    BY <1>2, <1>5 DEF RunInv, DestInOrder, Working
  <2>4. r.kind = "restore" /\ r.pc = "done" => dest'[Target(r)].whole
    BY <1>2, <1>5 DEF RunInv, DestInOrder, Working
  <2>5. r.kind = "restore" /\ r.pc \in {"open", "read", "done"} =>
          \A g \in Folder : dest'[g].by = {q} => g \in Finished(r) \/ (r.pc # "open" /\ g = Target(r))
    BY <1>2 DEF RunInv, DestInOrder
  <2> QED
    BY <2>1, <2>2, <2>3, <2>4, <2>5 DEF DestInOrder, Target, Set, Finished, HasBegun
<1>7. RestoredBy(q, r)'
  <2>1. r.kind = "restore" /\ r.result = "ok" =>
          \A i \in DOMAIN r.sets : dest'[Info[r.sets[i]].folder] = [by |-> {q}, whole |-> TRUE]
    BY <1>3, <1>4 DEF RunInv, RestoredBy
  <2>2. r.kind = "restore" =>
          \A g \in Folder : dest'[g].by = {q} /\ ~dest'[g].whole => g = Target(r)
    BY <1>2 DEF RunInv, RestoredBy
  <2> QED
    BY <2>1, <2>2 DEF RestoredBy, Target, Set
<1>8. ErrorInOrder(q, r)'
  <2>1. SUFFICES ASSUME r.pc = "stopped" \/ r.result = "failed" PROVE CauseOf(q, r, r.error)'
    BY DEF RunInv, ErrorInOrder
  <2>2. CauseOf(q, r, r.error) /\ Target(r) \in Folder
    BY <1>5, <2>1 DEF RunInv, ErrorInOrder
  <2> QED
    BY <1>2, <2>2 DEF CauseOf, Pieces, Needs, Target, Set, Finished
<1> QED
  BY <1>1, <1>6, <1>7, <1>8 DEF RunInv

\* A piece is damaged or goes: none of a run that holds the lock.
LEMMA PieceBreaks ==
  ASSUME NEW q \in Proc, NEW r, r.sets \in Seq(Sets), RunInv(q, r), UNCHANGED dest,
         NEW x \in Piece, NEW what \in {"damaged", "gone"}, disk \in [Piece -> {"sound", "damaged", "gone"}],
         disk' = [disk EXCEPT ![x] = what], what = "damaged" \/ r.lock # "held"
  PROVE  RunInv(q, r)'
<1>1. \A y \in Piece : disk[y] # "sound" => disk'[y] # "sound"
  OBVIOUS
<1>2. \A i \in DOMAIN r.sets : r.sets[i] \in Sets /\ Pieces(r.sets[i]) \subseteq Piece
  BY NeedsSets
<1>3. RunInOrder(r)'
  <2>1. r.lock = "held" => \A y \in Piece : disk[y] # "gone" => disk'[y] # "gone"
    OBVIOUS
  <2> QED
    BY <1>2, <2>1 DEF RunInv, RunInOrder, Pieces, Needs
<1>4. r.pc \in Working \cup {"stopped"} \/ r.result \in {"ok", "failed", "cancelled"} =>
        Set(r) \in Sets /\ Pieces(Set(r)) \subseteq Piece
  BY <1>2 DEF RunInv, RunInOrder, Set
<1>5. ReadInOrder(r)'
  <2> DEFINE sections == Sections(Set(r))
  <2>1. r.pc = "read" /\ ~r.was =>
          \E i \in r.at .. Len(sections) : disk'[sections[i]] # "sound" /\ (i = r.at => ~r.fit)
    <3> SUFFICES ASSUME r.pc = "read", ~r.was
                 PROVE  \E i \in r.at .. Len(sections) :
                          disk'[sections[i]] # "sound" /\ (i = r.at => ~r.fit)
      OBVIOUS
    <3>1. PICK i \in r.at .. Len(sections) : disk[sections[i]] # "sound" /\ (i = r.at => ~r.fit)
      BY DEF RunInv, ReadInOrder
    <3>2. sections \in Seq(Piece) /\ r.at \in DOMAIN sections
      BY <1>4, SectionsAre DEF RunInv, ReadInOrder, Working
    <3>3. sections[i] \in Piece
      BY <3>1, <3>2
    <3> QED
      BY <1>1, <3>1, <3>3
  <2> QED
    BY <2>1 DEF RunInv, ReadInOrder, Sections, Set
<1>6. DestInOrder(q, r)' /\ RestoredBy(q, r)'
  BY DEF RunInv, DestInOrder, RestoredBy, HasBegun, Target, Set, Finished
<1>7. ErrorInOrder(q, r)'
  <2>1. SUFFICES ASSUME r.pc = "stopped" \/ r.result = "failed" PROVE CauseOf(q, r, r.error)'
    BY DEF RunInv, ErrorInOrder
  <2>2. CauseOf(q, r, r.error) /\ Pieces(Set(r)) \subseteq Piece
    BY <1>4, <2>1 DEF RunInv, ErrorInOrder
  <2> QED
    BY <1>1, <2>2 DEF CauseOf, Pieces, Needs, Target, Set, Finished
<1> QED
  BY <1>3, <1>5, <1>6, <1>7 DEF RunInv

-----------------------------------------------------------------------------
(* What is logged *)

\* What held when it was logged stays so: a piece that is not sound stays so.
LEMMA FactsStayTrue ==
  ASSUME \A x \in Piece : disk[x] # "sound" => disk'[x] # "sound"
  PROVE  TrueFacts \subseteq TrueFacts'
<1> SUFFICES ASSUME NEW f \in TrueFacts PROVE f \in TrueFacts'
  OBVIOUS
<1>1. f \in Facts /\ FactTrue(f) /\ Pieces(f.set) \subseteq Piece
  BY NeedsSets DEF TrueFacts, Facts
<1>2. FactTrue(f)'
  BY <1>1 DEF FactTrue, Pieces, Needs
<1> QED
  BY <1>1, <1>2 DEF TrueFacts, Facts

\* The types follow.
LEMMA TypesKept ==
  ASSUME TrueFacts \subseteq TrueFacts'
  PROVE  RunRecords \subseteq RunRecords' /\ Seq(TrueFacts) \subseteq Seq(TrueFacts')
<1>1. Seq(TrueFacts) \subseteq Seq(TrueFacts')
  BY SeqMonotonic
<1> QED
  BY <1>1 DEF RunRecords, Results, Working

Logs == {Info[s].run : s \in Sets}

\* The log and the records of the runs while the pieces of the sets stay as they
\* are.
LEMMA FactsKept ==
  ASSUME FactsInOrder, UNCHANGED disk, NEW p \in Proc, NEW e \in RunRecords,
         run' = [run EXCEPT ![p] = e], log' \in [Logs -> Seq(TrueFacts)]
  PROVE  FactsInOrder'
<1>1. TrueFacts \subseteq TrueFacts'
  BY FactsStayTrue
<1>2. RunRecords \subseteq RunRecords' /\ Seq(TrueFacts) \subseteq Seq(TrueFacts')
  BY <1>1, TypesKept
<1>3. run' \in [Proc -> RunRecords']
  BY <1>2 DEF FactsInOrder
<1>4. log' \in [Logs -> Seq(TrueFacts')]
  BY <1>2
<1> QED
  BY <1>3, <1>4 DEF FactsInOrder, Logs

-----------------------------------------------------------------------------
(* One step of a run *)

\* A run changes, or its log does, and nothing else.
LEMMA RunChanges ==
  ASSUME ReadRunInv, NEW p \in Proc, NEW e \in RunRecords, RunInv(p, e),
         run' = [run EXCEPT ![p] = e], UNCHANGED <<disk, dest>>,
         log' \in [Logs -> Seq(TrueFacts)]
  PROVE  ReadRunInv'
<1>1. FactsInOrder'
  BY FactsKept DEF ReadRunInv
<1>2. OneOwner'
  BY DEF ReadRunInv, OneOwner
<1>3. ASSUME NEW q \in Proc PROVE RunInv(q, run[q])'
  <2>1. PICK r : r = run'[q]
    OBVIOUS
  <2>2. RunInv(q, r)
    BY <2>1 DEF ReadRunInv, FactsInOrder
  <2>3. RunInOrder(r)' /\ ReadInOrder(r)'
    BY <2>2 DEF RunInv, RunInOrder, ReadInOrder, Set, Pieces, Needs, Sections
  <2>4. DestInOrder(q, r)'
    BY <2>2 DEF RunInv, DestInOrder, HasBegun, Finished, Target, Set
  <2>5. RestoredBy(q, r)'
    BY <2>2 DEF RunInv, RestoredBy, Target, Set
  <2>6. ErrorInOrder(q, r)'
    BY <2>2 DEF RunInv, ErrorInOrder, CauseOf, Finished, Target, Set, Pieces, Needs
  <2>7. RunInv(q, r)'
    BY <2>3, <2>4, <2>5, <2>6 DEF RunInv
  <2> QED
    BY <2>1, <2>7
<1> QED
  BY <1>1, <1>2, <1>3 DEF ReadRunInv

\* A restore makes a folder, or fills it.
LEMMA FolderChanges ==
  ASSUME ReadRunInv, NEW p \in Proc, NEW e \in RunRecords, RunInv(p, e)',
         run' = [run EXCEPT ![p] = e], UNCHANGED <<disk, log>>,
         NEW f \in Folder, dest[f].by \in {{}, {p}}, NEW whole \in BOOLEAN,
         dest' = [dest EXCEPT ![f] = [by |-> {p}, whole |-> whole]]
  PROVE  ReadRunInv'
<1>1. FactsInOrder /\ OneOwner
  BY DEF ReadRunInv
<1>2. FactsInOrder'
  BY <1>1, FactsKept DEF FactsInOrder, Logs
<1>3. OneOwner'
  <2> DEFINE d == [by |-> {p}, whole |-> whole]
  <2>1. d \in [by : SUBSET (Proc \cup {User}), whole : BOOLEAN] /\ d.by = {p}
    OBVIOUS
  <2> HIDE DEF d
  <2>2. dest' \in [Folder -> [by : SUBSET (Proc \cup {User}), whole : BOOLEAN]]
    BY <1>1, <2>1 DEF OneOwner, d
  <2>3. \A g \in Folder : dest'[g] = IF g = f THEN d ELSE dest[g]
    BY <1>1 DEF OneOwner, d
  <2> QED
    BY <1>1, <2>1, <2>2, <2>3 DEF OneOwner
<1>4. ASSUME NEW q \in Proc, q # p PROVE RunInv(q, run[q])'
  <2>1. PICK r : r = run[q]
    OBVIOUS
  <2>2. RunInv(q, r) /\ r.sets \in Seq(Sets)
    BY <2>1 DEF ReadRunInv, FactsInOrder, RunRecords
  <2>3. RunInv(q, r)'
    BY <1>1, <1>4, <2>2, FolderOfAnother
  <2>4. run'[q] = r
    BY <1>1, <1>4, <2>1 DEF FactsInOrder
  <2> QED
    BY <2>3, <2>4
<1>5. RunInv(p, run[p])'
  <2>1. run'[p] = e
    BY <1>1 DEF FactsInOrder
  <2> QED
    BY <2>1
<1>6. \A q \in Proc : RunInv(q, run[q])'
  BY <1>4, <1>5
<1> QED
  BY <1>2, <1>3, <1>6 DEF ReadRunInv

\* A run that works: what it knows.
LEMMA WorkingRun ==
  ASSUME ReadRunInv, NEW p \in Proc, NEW r, r = run[p], r.pc \in Working \cup {"stopped"}
  PROVE  /\ r \in RunRecords /\ RunInv(p, r) /\ r.kind \in {"restore", "verify"}
         /\ r.lock \in {"held", "unavailable"} /\ r.result = None
         /\ r.sets \in Seq(Sets) /\ r.sets # <<>> /\ r.n \in DOMAIN r.sets /\ r.n \in Nat \ {0}
         /\ Set(r) \in Sets /\ Pieces(Set(r)) \subseteq Piece
         /\ Target(r) \in Folder /\ Finished(r) \subseteq Folder
         /\ log \in [Logs -> Seq(TrueFacts)]
<1>1. r \in RunRecords /\ RunInv(p, r) /\ log \in [Logs -> Seq(TrueFacts)]
  BY DEF ReadRunInv, FactsInOrder, Logs
<1>2. r.kind \in {"none", "restore", "verify"} /\ r.sets \in Seq(Sets) /\ r.n \in Nat \ {0}
  BY <1>1 DEF RunRecords
<1>3. /\ r.kind # "none" /\ r.lock \in {"held", "unavailable"} /\ r.result = None
      /\ r.sets # <<>> /\ r.n \in DOMAIN r.sets
  BY <1>1 DEF RunInv, RunInOrder
<1>4. Set(r) \in Sets
  BY <1>2, <1>3 DEF Set
<1>5. Target(r) \in Folder
  BY <1>4 DEF Target, Folder
<1>6. Finished(r) \subseteq Folder
  <2>1. 1 .. r.n - 1 \subseteq DOMAIN r.sets
    BY <1>2, <1>3
  <2> QED
    BY <1>2, <2>1 DEF Finished, Folder
<1> QED
  BY <1>1, <1>2, <1>3, <1>4, <1>5, <1>6, NeedsSets

\* What a change of pc, facts and the reader leaves alone.
SameWork(e, r) ==
  /\ e.kind = r.kind /\ e.sets = r.sets /\ e.lock = r.lock /\ e.n = r.n
  /\ e.cancelled = r.cancelled /\ e.result = r.result

\* A fact that holds now is added to the facts of a run.
LEMMA FactAdded ==
  ASSUME NEW r \in RunRecords, NEW kind \in {"verify", "restore"}, Set(r) \in Sets,
         NEW result \in {"ok", "failed", "warnings"}, NEW error \in Errors \cup {None},
         FactTrue([kind |-> kind, result |-> result, error |-> error, set |-> Set(r), was |-> r.was])
  PROVE  LET e == Fact(r, kind, result, error)
         IN  e \in RunRecords /\ SameWork(e, r) /\ e.pc = r.pc /\ e.error = r.error
<1> DEFINE f == [kind |-> kind, result |-> result, error |-> error, set |-> Set(r), was |-> r.was]
<1>1. f \in TrueFacts
  <2>1. r.was \in BOOLEAN
    BY DEF RunRecords
  <2> QED
    BY <2>1 DEF TrueFacts, Facts
<1> HIDE DEF f
<1> DEFINE facts == Append(r.facts, f)
<1>2. facts \in Seq(TrueFacts)
  BY <1>1 DEF RunRecords
<1>3. Fact(r, kind, result, error) = [r EXCEPT !.facts = facts]
  BY DEF Fact, f
<1> HIDE DEF facts
<1> QED
  BY <1>2, <1>3 DEF RunRecords, SameWork

\* A return.
LEMMA Returned ==
  ASSUME NEW r \in RunRecords, NEW result \in Results
  PROVE  LET e == Return(r, result)
         IN /\ e \in RunRecords /\ e.pc = "close" /\ e.result = result
            /\ e.kind = r.kind /\ e.sets = r.sets /\ e.lock = r.lock /\ e.n = r.n
            /\ e.facts = r.facts /\ e.error = r.error /\ e.cancelled = r.cancelled
BY DEF Return, RunRecords

\* The reader of an entry is closed.
LEMMA Unread ==
  ASSUME NEW r \in RunRecords
  PROVE  LET e == ReaderClosed(r)
         IN  e \in RunRecords /\ SameWork(e, r) /\ e.pc = r.pc /\ e.error = r.error
BY DEF ReaderClosed, RunRecords, SameWork

\* The entry stops with an error that holds.
LEMMA EntryFailsKeeps ==
  ASSUME ReadRunInv, NEW p \in Proc, NEW r, r = run[p], r.pc \in {"open", "read"},
         NEW error \in Errors, CauseOf(p, r, error), error = "cancelled" => r.cancelled,
         run' = [run EXCEPT ![p] = EntryFails(r, error)], UNCHANGED <<disk, dest, log>>
  PROVE  ReadRunInv'
<1>1. /\ r \in RunRecords /\ RunInv(p, r) /\ r.kind \in {"restore", "verify"}
      /\ r.lock \in {"held", "unavailable"} /\ r.result = None /\ Set(r) \in Sets
      /\ r.sets # <<>> /\ r.n \in DOMAIN r.sets /\ log \in [Logs -> Seq(TrueFacts)]
  BY WorkingRun DEF Working
<1> DEFINE closed == ReaderClosed(r)
           s == [closed EXCEPT !.pc = "stopped", !.error = error]
<1>2. /\ s \in RunRecords /\ SameWork(s, r) /\ s.pc = "stopped" /\ s.error = error
      /\ s.was \in BOOLEAN
  <2>1. closed \in RunRecords /\ SameWork(closed, r)
    BY <1>1, Unread
  <2> HIDE DEF closed
  <2>2. /\ s \in RunRecords /\ SameWork(s, closed) /\ s.pc = "stopped" /\ s.error = error
        /\ s.was = closed.was
    BY <2>1 DEF RunRecords, SameWork
  <2> HIDE DEF s
  <2>3. s.was \in BOOLEAN
    BY <2>2 DEF RunRecords
  <2> QED
    BY <2>1, <2>2, <2>3 DEF SameWork
<1>3. EntryFails(r, error) =
        IF r.kind = "verify" /\ ~r.cancelled THEN Fact(s, "verify", "failed", error) ELSE s
  BY DEF EntryFails
<1> HIDE DEF s
<1>4. PICK e : e = EntryFails(r, error)
  OBVIOUS
<1>5. e \in RunRecords /\ SameWork(e, r) /\ e.pc = "stopped" /\ e.error = error
  <2>1. CASE r.kind = "verify" /\ ~r.cancelled
    <3>1. Set(s) = Set(r)
      BY <1>2 DEF SameWork, Set
    <3>2. FactTrue([kind |-> "verify", result |-> "failed", error |-> error, set |-> Set(s),
                    was |-> s.was])
      BY <2>1, <3>1 DEF FactTrue, CauseOf
    <3>3. /\ Fact(s, "verify", "failed", error) \in RunRecords
          /\ SameWork(Fact(s, "verify", "failed", error), s)
          /\ Fact(s, "verify", "failed", error).pc = s.pc
          /\ Fact(s, "verify", "failed", error).error = s.error
      BY <1>1, <1>2, <3>1, <3>2, FactAdded
    <3>4. e = Fact(s, "verify", "failed", error)
      BY <1>3, <1>4, <2>1
    <3> QED
      BY <1>2, <3>3, <3>4 DEF SameWork
  <2>2. CASE ~(r.kind = "verify" /\ ~r.cancelled)
    BY <1>2, <1>3, <1>4, <2>2
  <2> QED
    BY <2>1, <2>2
<1>6. /\ e.kind = r.kind /\ e.sets = r.sets /\ e.lock = r.lock /\ e.n = r.n
      /\ e.cancelled = r.cancelled /\ e.result = None
  BY <1>1, <1>5 DEF SameWork
<1>7. RunInOrder(e)
  BY <1>1, <1>5, <1>6 DEF RunInv, RunInOrder, Working
<1>8. ReadInOrder(e)
  BY <1>5 DEF ReadInOrder
<1>9. DestInOrder(p, e)
  BY <1>1, <1>5, <1>6 DEF RunInv, DestInOrder, HasBegun
<1>10. RestoredBy(p, e)
  <2>1. r.kind = "restore" => \A f \in Folder : dest[f].by = {p} /\ ~dest[f].whole => f = Target(r)
    BY <1>1 DEF RunInv, RestoredBy
  <2>2. Target(e) = Target(r) /\ e.result # "ok"
    BY <1>6, ReadRunAssumption DEF Target, Set
  <2> QED
    BY <1>6, <2>1, <2>2 DEF RestoredBy
<1>11. ErrorInOrder(p, e)
  <2>1. e.result # "failed"
    BY <1>6, ReadRunAssumption
  <2>2. Set(e) = Set(r) /\ Target(e) = Target(r) /\ Finished(e) = Finished(r)
    BY <1>6 DEF Target, Set, Finished
  <2>3. CauseOf(p, e, error)
    BY <1>6, <2>2 DEF CauseOf
  <2> QED
    BY <1>5, <1>6, <2>1, <2>3 DEF ErrorInOrder
<1>12. RunInv(p, e)
  BY <1>7, <1>8, <1>9, <1>10, <1>11 DEF RunInv
<1> QED
  BY <1>1, <1>4, <1>5, <1>12, RunChanges

\* A process without a run.
LEMMA IdleIs ==
  /\ Idle \in RunRecords /\ Idle.pc = "idle" /\ Idle.kind = "none" /\ Idle.n = 1
  /\ Idle.facts = <<>> /\ Idle.result = None /\ Idle.sets = <<>> /\ Idle.lock = "none"
<1>1. <<>> \in Seq(Sets) /\ <<>> \in Seq(TrueFacts)
  OBVIOUS
<1> QED
  BY <1>1 DEF Idle, RunRecords

\* What Start makes of a process: a run that was refused, or one that has
\* accepted its sets.
Planned(e, kind, q) ==
  /\ e \in RunRecords /\ e.n = 1 /\ e.facts = <<>> /\ e.kind = kind
  /\ \/ e.pc = "close" /\ e.result = "refused"
     \/ /\ e.pc = "confirm" /\ e.result = None /\ e.lock \in {"held", "unavailable"}
        /\ e.sets = q /\ SelectionPreflight(q)

\* The plan gives such a run.
LEMMA PlanGives ==
  ASSUME NEW kind \in {"restore", "verify"}, NEW q \in Requests,
         NEW lock \in {"held", "unavailable", "busy"}, NEW scanned, NEW seen, NEW space
  PROVE  Planned(Plan([Idle EXCEPT !.pc = "start", !.kind = kind, !.lock = lock],
                      q, scanned, seen, space), kind, q)
<1> DEFINE r == [Idle EXCEPT !.pc = "start", !.kind = kind, !.lock = lock]
<1>1. /\ r \in RunRecords /\ r.n = 1 /\ r.facts = <<>> /\ r.result = None /\ r.lock = lock
      /\ r.kind = kind
  <2>1. Idle \in RunRecords /\ Idle.n = 1 /\ Idle.facts = <<>> /\ Idle.result = None
    BY IdleIs
  <2> QED
    BY <2>1 DEF RunRecords
<1> HIDE DEF r
<1>2. CASE Refused(r, q, scanned, seen, space)
  <2>1. "refused" \in Results
    BY DEF Results
  <2>2. /\ Return(r, "refused") \in RunRecords /\ Return(r, "refused").n = 1
        /\ Return(r, "refused").facts = <<>> /\ Return(r, "refused").kind = kind
        /\ Return(r, "refused").pc = "close" /\ Return(r, "refused").result = "refused"
    BY <1>1, <2>1, Returned
  <2>3. Plan(r, q, scanned, seen, space) = Return(r, "refused")
    BY <1>2 DEF Plan
  <2> QED
    BY <2>2, <2>3 DEF Planned, r
<1>3. CASE ~Refused(r, q, scanned, seen, space)
  <2>1. q \in Seq(Sets) /\ lock \in {"held", "unavailable"} /\ SelectionPreflight(q)
    BY <1>1, <1>3, ReadRunAssumption DEF Sets, Refused
  <2>2. Plan(r, q, scanned, seen, space) = [r EXCEPT !.pc = "confirm", !.sets = q]
    BY <1>3 DEF Plan, OpenLogger
  <2> DEFINE e == [r EXCEPT !.pc = "confirm", !.sets = q]
  <2>3. /\ e \in RunRecords /\ e.n = 1 /\ e.facts = <<>> /\ e.kind = kind /\ e.pc = "confirm"
        /\ e.result = None /\ e.lock = lock /\ e.sets = q
    BY <1>1, <2>1 DEF RunRecords, Working
  <2> HIDE DEF e
  <2> QED
    BY <2>1, <2>2, <2>3 DEF Planned, r, e
<1> QED
  BY <1>2, <1>3

\* A run that has not begun leaves the destination alone.
LEMMA NotBegun ==
  ASSUME NEW p \in Proc, NEW e, \A f \in Folder : p \notin dest[f].by,
         e.pc \in {"confirm", "close", "ended"}, e.result \in {"refused", None}
  PROVE  ReadInOrder(e) /\ DestInOrder(p, e) /\ RestoredBy(p, e) /\ ErrorInOrder(p, e)
<1>1. e.result \notin {"ok", "failed", "cancelled"}
  BY ReadRunAssumption
<1>2. ReadInOrder(e)
  BY DEF ReadInOrder
<1>3. DestInOrder(p, e)
  BY DEF DestInOrder
<1>4. RestoredBy(p, e)
  BY <1>1 DEF RestoredBy
<1>5. ErrorInOrder(p, e)
  BY <1>1 DEF ErrorInOrder
<1> QED
  BY <1>2, <1>3, <1>4, <1>5

\* restore.Run and verify.Run up to ConfirmStart.
LEMMA StartKeeps ==
  ASSUME ReadRunInv, NEW p \in Proc, Start(p)
  PROVE  ReadRunInv'
<1>1. PICK kind \in {"restore", "verify"}, q \in Requests, lock \in Locks(p),
           scanned \in BOOLEAN, seen \in BOOLEAN, space \in {"enough", "short", "unknown"} :
        run' = [run EXCEPT ![p] = Plan([Idle EXCEPT !.pc = "start", !.kind = kind, !.lock = lock],
                                       q, scanned, seen, space)]
  BY DEF Start
<1>2. lock \in {"held", "unavailable", "busy"}
  BY DEF Locks
<1>3. PICK e : e = Plan([Idle EXCEPT !.pc = "start", !.kind = kind, !.lock = lock],
                        q, scanned, seen, space)
  OBVIOUS
<1>4. Planned(e, kind, q)
  BY <1>2, <1>3, PlanGives
<1>5. \A f \in Folder : p \notin dest[f].by
  <2>1. PICK r : r = run[p]
    OBVIOUS
  <2>2. r = Idle /\ DestInOrder(p, r)
    BY <2>1 DEF Start, ReadRunInv, RunInv, RunInOrder
  <2>3. ~HasBegun(r)
    BY <2>2, IdleIs DEF HasBegun
  <2> QED
    BY <2>2, <2>3 DEF DestInOrder
<1>6. /\ e \in RunRecords /\ e.facts = <<>> /\ e.pc \in {"confirm", "close"}
      /\ e.result \in {"refused", None}
  BY <1>4 DEF Planned
<1>7. RunInOrder(e)
  <2>1. q \in Seq(Sets) /\ q # <<>> /\ 1 \in DOMAIN q
    BY ReadRunAssumption DEF Sets
  <2>2. e.result \notin {"ok", "failed", "cancelled"}
    BY <1>6, ReadRunAssumption
  <2>3. CASE e.pc = "close"
    BY <1>6, <2>2, <2>3 DEF RunInOrder, Working
  <2>4. CASE e.pc = "confirm"
    <3>1. /\ e.n = 1 /\ e.kind = kind /\ e.sets = q /\ e.result = None
          /\ e.lock \in {"held", "unavailable"} /\ SelectionPreflight(q)
      BY <1>4, <2>4, ReadRunAssumption DEF Planned
    <3>2. \A i \in DOMAIN q : \A x \in Pieces(q[i]) : disk[x] # "gone"
      <4> SUFFICES ASSUME NEW i \in DOMAIN q, NEW x \in Pieces(q[i]) PROVE disk[x] # "gone"
        OBVIOUS
      <4>1. PICK s \in Needs(q[i]), y \in Part : x = <<s, y>>
        BY DEF Pieces
      <4> QED
        BY <3>1, <4>1 DEF SelectionPreflight, IsComplete
    <3> QED
      BY <1>6, <2>1, <2>2, <2>4, <3>1, <3>2 DEF RunInOrder, Working
  <2> QED
    BY <1>6, <2>3, <2>4
<1>8. RunInv(p, e)
  BY <1>5, <1>6, <1>7, NotBegun DEF RunInv
<1>9. log' \in [Logs -> Seq(TrueFacts)] /\ UNCHANGED <<disk, dest>>
  BY DEF Start, ReadRunInv, FactsInOrder, Logs
<1> QED
  BY <1>1, <1>3, <1>6, <1>8, <1>9, RunChanges

\* ConfirmStart and unlock.KeySets.
LEMMA ConfirmKeeps ==
  ASSUME ReadRunInv, NEW p \in Proc, Confirm(p)
  PROVE  ReadRunInv'
<1>1. PICK r : r = run[p]
  OBVIOUS
<1>2. PICK answer \in {"declined", "notunlocked", "keys"} :
        run' = [run EXCEPT ![p] = Confirmed(r, answer)]
  BY <1>1 DEF Confirm
<1>3. r.pc = "confirm" /\ UNCHANGED <<disk, dest, log>>
  BY <1>1 DEF Confirm
<1>4. /\ r \in RunRecords /\ RunInv(p, r) /\ r.kind \in {"restore", "verify"}
      /\ r.lock \in {"held", "unavailable"} /\ r.result = None
      /\ r.sets # <<>> /\ r.n \in DOMAIN r.sets /\ log \in [Logs -> Seq(TrueFacts)]
  BY <1>1, <1>3, WorkingRun DEF Working
<1>5. r.n = 1 /\ ~HasBegun(r)
  BY <1>3, <1>4, ReadRunAssumption DEF RunInv, RunInOrder, HasBegun
<1>6. \A f \in Folder : p \notin dest[f].by
  BY <1>4, <1>5 DEF RunInv, DestInOrder
<1>7. PICK e : e = Confirmed(r, answer)
  OBVIOUS
<1>8. CASE answer = "keys"
  <2>1. e = [r EXCEPT !.pc = "open"]
    BY <1>7, <1>8 DEF Confirmed
  <2>2. /\ e \in RunRecords /\ e.kind = r.kind /\ e.sets = r.sets /\ e.lock = r.lock
        /\ e.n = 1 /\ e.facts = r.facts /\ e.pc = "open" /\ e.result = None
    BY <1>4, <1>5, <2>1 DEF RunRecords, Working
  <2>3. e.result \notin {"ok", "failed", "cancelled"}
    BY <2>2, ReadRunAssumption
  <2>4. RunInOrder(e)
    BY <1>3, <1>4, <1>5, <2>2, <2>3 DEF RunInv, RunInOrder, Working
  <2>5. ReadInOrder(e)
    BY <2>2 DEF ReadInOrder
  <2>6. DestInOrder(p, e)
    BY <1>6, <2>2 DEF DestInOrder, Finished
  <2>7. RestoredBy(p, e)
    BY <1>6, <2>3 DEF RestoredBy
  <2>8. ErrorInOrder(p, e)
    BY <2>2, <2>3 DEF ErrorInOrder
  <2>9. RunInv(p, e)
    BY <2>4, <2>5, <2>6, <2>7, <2>8 DEF RunInv
  <2> QED
    BY <1>2, <1>3, <1>4, <1>7, <2>2, <2>9, RunChanges
<1>9. CASE answer # "keys"
  <2>1. e = Return(r, "refused") /\ "refused" \in Results
    BY <1>7, <1>9 DEF Confirmed, Results
  <2>2. /\ e \in RunRecords /\ e.pc = "close" /\ e.result = "refused"
        /\ e.sets = r.sets /\ e.facts = r.facts
    BY <1>4, <2>1, Returned
  <2>3. RunInOrder(e)
    BY <1>4, <2>2 DEF RunInOrder, Working
  <2>4. RunInv(p, e)
    BY <1>6, <2>2, <2>3, NotBegun DEF RunInv
  <2> QED
    BY <1>2, <1>3, <1>4, <1>7, <2>2, <2>4, RunChanges
<1> QED
  BY <1>8, <1>9

\* The user cancels.
LEMMA CancelKeeps ==
  ASSUME ReadRunInv, NEW p \in Proc, Cancel(p)
  PROVE  ReadRunInv'
<1>1. PICK r : r = run[p]
  OBVIOUS
<1>2. /\ r.pc \in Working \cup {"stopped"} /\ UNCHANGED <<disk, dest, log>>
      /\ run' = [run EXCEPT ![p] = [r EXCEPT !.cancelled = TRUE]]
  BY <1>1 DEF Cancel, Working
<1>3. r \in RunRecords /\ RunInv(p, r) /\ log \in [Logs -> Seq(TrueFacts)]
  BY <1>1, <1>2, WorkingRun
<1>4. PICK e : e = [r EXCEPT !.cancelled = TRUE]
  OBVIOUS
<1>5. /\ e \in RunRecords /\ e.kind = r.kind /\ e.sets = r.sets /\ e.lock = r.lock
      /\ e.n = r.n /\ e.facts = r.facts /\ e.pc = r.pc /\ e.result = r.result
      /\ e.at = r.at /\ e.fit = r.fit /\ e.was = r.was /\ e.error = r.error /\ e.cancelled
  BY <1>3, <1>4 DEF RunRecords
<1>6. r.pc # "idle"
  BY <1>2 DEF Working
<1>7. RunInOrder(e)
  BY <1>3, <1>5, <1>6 DEF RunInv, RunInOrder
<1>8. ReadInOrder(e)
  BY <1>3, <1>5 DEF RunInv, ReadInOrder, Set
<1>9. Set(e) = Set(r) /\ Target(e) = Target(r) /\ Finished(e) = Finished(r)
      /\ HasBegun(e) = HasBegun(r)
  BY <1>5 DEF Set, Target, Finished, HasBegun
<1>10. DestInOrder(p, e)
  BY <1>3, <1>5, <1>9 DEF RunInv, DestInOrder
<1>11. RestoredBy(p, e)
  BY <1>3, <1>5, <1>9 DEF RunInv, RestoredBy
<1>12. ErrorInOrder(p, e)
  BY <1>3, <1>5, <1>9 DEF RunInv, ErrorInOrder, CauseOf
<1>13. RunInv(p, e)
  BY <1>7, <1>8, <1>10, <1>11, <1>12 DEF RunInv
<1> QED
  BY <1>2, <1>3, <1>4, <1>5, <1>13, RunChanges

\* A part that is gone was not taken from a run that holds the lock.
LEMMA GoneUnlocked ==
  ASSUME ReadRunInv, NEW p \in Proc, NEW r, r = run[p], r.pc \in Working,
         NEW x \in Pieces(Set(r)), disk[x] = "gone"
  PROVE  r.lock = "unavailable"
BY WorkingRun DEF RunInv, RunInOrder, Set

\* What stops an entry before its reading.
LEMMA BeginFailsKeeps ==
  ASSUME ReadRunInv, NEW p \in Proc, BeginFails(p)
  PROVE  ReadRunInv'
<1>1. PICK r : r = run[p]
  OBVIOUS
<1>2. r.pc = "open" /\ UNCHANGED <<disk, dest, log>>
  BY <1>1 DEF BeginFails
<1>3. PICK error \in OpenErrors(Set(r))
                       \cup (IF OpenRestorePoint(Set(r)) THEN FolderErrors(r) ELSE {}) :
        run' = [run EXCEPT ![p] = EntryFails(r, error)]
  BY <1>1 DEF BeginFails
<1>4. /\ RunInv(p, r) /\ Set(r) \in Sets /\ Pieces(Set(r)) \subseteq Piece
      /\ r.kind \in {"restore", "verify"} /\ Target(r) \in Folder
  BY <1>1, <1>2, WorkingRun DEF Working
<1>5. CASE error \in OpenErrors(Set(r))
  <2>1. error \in {"io", "damaged", "gone"}
    BY <1>4, <1>5 DEF OpenErrors, ReadRunInv, FactsInOrder
  <2>2. error \in {"damaged", "gone"} => \E x \in Pieces(Set(r)) : disk[x] = error
    BY <1>5 DEF OpenErrors
  <2>3. CauseOf(p, r, error)
    BY <1>1, <1>2, <2>1, <2>2, GoneUnlocked DEF CauseOf, Working
  <2> QED
    BY <1>1, <1>2, <1>3, <2>1, <2>3, EntryFailsKeeps DEF Errors
<1>6. CASE error \in FolderErrors(r)
  <2>1. /\ error \in {"cancelled", "mkdir", "exists"} /\ r.kind = "restore"
        /\ error = "cancelled" => r.cancelled
        /\ error = "exists" => dest[Target(r)].by # {}
    BY <1>6 DEF FolderErrors, Exists
  <2>2. dest[Target(r)].by = {p} => Target(r) \in Finished(r)
    BY <1>2, <1>4, <2>1 DEF RunInv, DestInOrder
  <2>3. CauseOf(p, r, error)
    BY <2>1, <2>2 DEF CauseOf
  <2> QED
    BY <1>1, <1>2, <1>3, <2>1, <2>3, EntryFailsKeeps DEF Errors
<1> QED
  BY <1>3, <1>5, <1>6

\* What stops the reading of an entry.
LEMMA ReadFailsKeeps ==
  ASSUME ReadRunInv, NEW p \in Proc, ReadFails(p)
  PROVE  ReadRunInv'
<1>1. PICK r : r = run[p]
  OBVIOUS
<1>2. r.pc = "read" /\ UNCHANGED <<disk, dest, log>>
  BY <1>1 DEF ReadFails
<1>3. PICK error \in ReadErrors(r) : run' = [run EXCEPT ![p] = EntryFails(r, error)]
  BY <1>1 DEF ReadFails
<1>4. RunInv(p, r) /\ Set(r) \in Sets /\ Pieces(Set(r)) \subseteq Piece
  BY <1>1, <1>2, WorkingRun DEF Working
<1> DEFINE x == Sections(Set(r))[r.at]
<1>5. x \in Pieces(Set(r)) /\ disk[x] \in {"sound", "damaged", "gone"}
  <2>1. Sections(Set(r)) \in Seq(Pieces(Set(r))) /\ r.at \in DOMAIN Sections(Set(r))
    BY <1>2, <1>4, SectionsAre DEF RunInv, ReadInOrder
  <2> QED
    BY <1>4, <2>1 DEF ReadRunInv, FactsInOrder
<1>6. /\ error \in {"io", "damaged", "gone", "cancelled"} /\ (error = "cancelled" => r.cancelled)
      /\ error \in {"damaged", "gone"} => disk[x] = error
  BY <1>3, <1>5 DEF ReadErrors
<1> HIDE DEF x
<1>7. CauseOf(p, r, error)
  BY <1>1, <1>2, <1>5, <1>6, GoneUnlocked DEF CauseOf, Working
<1> QED
  BY <1>1, <1>2, <1>3, <1>6, <1>7, EntryFailsKeeps DEF Errors

\* What the parts of the invariant that read no folder say of a run that reads
\* on, or has read.
LEMMA ReadsOn ==
  ASSUME NEW r \in RunRecords, NEW e \in RunRecords, RunInOrder(r), r.pc \in Working,
         SameWork(e, r), e.pc \in {"read", "done"}, e.facts = r.facts
  PROVE  /\ RunInOrder(e) /\ HasBegun(e) = (r.kind = "restore") /\ e.result = None
         /\ Set(e) = Set(r) /\ Target(e) = Target(r) /\ Finished(e) = Finished(r)
<1>1. /\ r.kind # "none" /\ r.lock \in {"held", "unavailable"} /\ r.result = None
      /\ r.sets # <<>> /\ r.n \in DOMAIN r.sets
      /\ r.lock = "held" => \A i \in DOMAIN r.sets : \A x \in Pieces(r.sets[i]) : disk[x] # "gone"
  BY DEF RunInOrder
<1>2. /\ e.kind = r.kind /\ e.sets = r.sets /\ e.lock = r.lock /\ e.n = r.n /\ e.result = None
  BY <1>1 DEF SameWork
<1>3. RunInOrder(e)
  BY <1>1, <1>2 DEF RunInOrder, Working
<1>4. HasBegun(e) = (r.kind = "restore")
  BY <1>2 DEF HasBegun
<1> QED
  BY <1>2, <1>3, <1>4 DEF Set, Target, Finished

\* A restore makes the folder it reads into, or has filled it: its other folders
\* are as they were.
LEMMA FolderOfRun ==
  ASSUME ReadRunInv, NEW p \in Proc, NEW r, r = run[p], r.pc \in {"open", "read"},
         NEW e \in RunRecords, r.kind = "restore", NEW whole \in BOOLEAN,
         e.pc = (IF whole THEN "done" ELSE "read"), SameWork(e, r), e.facts = r.facts,
         ReadInOrder(e), UNCHANGED <<disk, log>>, run' = [run EXCEPT ![p] = e],
         whole \/ Target(r) \notin Finished(r), dest[Target(r)].by \in {{}, {p}},
         dest' = [dest EXCEPT ![Target(r)] = [by |-> {p}, whole |-> whole]]
  PROVE  ReadRunInv'
<1>1. /\ r \in RunRecords /\ RunInv(p, r) /\ Target(r) \in Folder /\ Finished(r) \subseteq Folder
      /\ r.result = None
  BY WorkingRun DEF Working
<1>2. /\ RunInOrder(e) /\ HasBegun(e) /\ e.result = None
      /\ Set(e) = Set(r) /\ Target(e) = Target(r) /\ Finished(e) = Finished(r)
  BY <1>1, ReadsOn DEF RunInv, Working
<1>3. e.kind = "restore" /\ e.pc \in {"read", "done"} /\ (e.pc = "done" <=> whole)
  BY DEF SameWork
<1> DEFINE d == [by |-> {p}, whole |-> whole]
<1>4. d.by = {p} /\ d.whole = whole
  OBVIOUS
<1> HIDE DEF d
<1>5. \A g \in Folder : dest'[g] = IF g = Target(r) THEN d ELSE dest[g]
  BY DEF ReadRunInv, OneOwner, d
<1>6. RunInOrder(e)' /\ ReadInOrder(e)'
  BY <1>2 DEF RunInOrder, ReadInOrder, Pieces, Needs, Sections, Set
<1>7. DestInOrder(p, e)'
  <2>1. \A g \in Finished(r) : dest'[g] = [by |-> {p}, whole |-> TRUE]
    <3>1. \A g \in Finished(r) : dest[g] = [by |-> {p}, whole |-> TRUE]
      BY <1>1 DEF RunInv, DestInOrder
    <3>2. whole => d = [by |-> {p}, whole |-> TRUE]
      BY DEF d
    <3> QED
      BY <1>1, <1>5, <3>1, <3>2
  <2>2. dest'[Target(r)].by = {p} /\ dest'[Target(r)].whole = whole
    BY <1>1, <1>4, <1>5
  <2>3. HasBegun(e)'
    BY <1>2 DEF HasBegun
  <2>4. /\ \A g \in Finished(e) : dest'[g] = [by |-> {p}, whole |-> TRUE]
        /\ dest'[Target(e)].by = {p} /\ dest'[Target(e)].whole = whole
    BY <1>2, <2>1, <2>2
  <2>5. \A g \in Folder : dest'[g].by = {p} => g \in Finished(e) \/ g = Target(e)
    <3>1. \A g \in Folder : dest[g].by = {p} => g \in Finished(r) \/ g = Target(r)
      BY <1>1 DEF RunInv, DestInOrder
    <3> QED
      BY <1>2, <1>5, <3>1
  <2> QED
    BY <1>3, <2>3, <2>4, <2>5 DEF DestInOrder, HasBegun, Finished, Target, Set
<1>8. RestoredBy(p, e)'
  <2>1. \A g \in Folder : dest'[g].by = {p} /\ ~dest'[g].whole => g = Target(r)
    <3>1. \A g \in Folder : dest[g].by = {p} /\ ~dest[g].whole => g = Target(r)
      BY <1>1 DEF RunInv, RestoredBy
    <3> QED
      BY <1>5, <3>1
  <2>2. e.result # "ok"
    BY <1>2, ReadRunAssumption
  <2>3. \A g \in Folder : dest'[g].by = {p} /\ ~dest'[g].whole => g = Target(e)
    BY <1>2, <2>1
  <2> QED
    BY <2>2, <2>3 DEF RestoredBy, Target, Set
<1>9. ErrorInOrder(p, e)'
  BY <1>2, <1>3, ReadRunAssumption DEF ErrorInOrder
<1>10. RunInv(p, e)'
  BY <1>6, <1>7, <1>8, <1>9 DEF RunInv
<1> QED
  BY <1>1, <1>10, FolderChanges

\* A verification reads on, or a restore does that has its folder.
LEMMA SameFolders ==
  ASSUME ReadRunInv, NEW p \in Proc, NEW r, r = run[p], r.pc \in {"open", "read"},
         NEW e \in RunRecords, r.kind = "verify" \/ (r.pc = "read" /\ e.pc = "read"),
         e.pc \in {"read", "done"}, SameWork(e, r), e.facts = r.facts,
         ReadInOrder(e), UNCHANGED <<disk, dest, log>>, run' = [run EXCEPT ![p] = e]
  PROVE  ReadRunInv'
<1>1. /\ r \in RunRecords /\ RunInv(p, r) /\ r.result = None /\ log \in [Logs -> Seq(TrueFacts)]
  BY WorkingRun DEF Working
<1>2. /\ RunInOrder(e) /\ HasBegun(e) = (r.kind = "restore") /\ e.result = None
      /\ Set(e) = Set(r) /\ Target(e) = Target(r) /\ Finished(e) = Finished(r)
  BY <1>1, ReadsOn DEF RunInv, Working
<1>3. e.kind = r.kind
  BY DEF SameWork
<1>4. DestInOrder(p, e)
  <2>1. CASE r.kind = "verify"
    BY <1>1, <1>2, <1>3, <2>1 DEF RunInv, DestInOrder, HasBegun
  <2>2. CASE r.kind # "verify" /\ r.pc = "read" /\ e.pc = "read"
    BY <1>1, <1>2, <1>3, <2>2 DEF RunInv, DestInOrder, HasBegun
  <2> QED
    BY <2>1, <2>2
<1>5. RestoredBy(p, e)
  BY <1>1, <1>2, <1>3, ReadRunAssumption DEF RunInv, RestoredBy
<1>6. ErrorInOrder(p, e)
  BY <1>2, ReadRunAssumption DEF ErrorInOrder
<1>7. RunInv(p, e)
  BY <1>2, <1>4, <1>5, <1>6 DEF RunInv
<1> QED
  BY <1>1, <1>7, RunChanges

\* restoreEntry and verifyEntry up to the reading.
LEMMA BeginEntryKeeps ==
  ASSUME ReadRunInv, NEW p \in Proc, BeginEntry(p)
  PROVE  ReadRunInv'
<1>1. PICK r : r = run[p]
  OBVIOUS
<1> DEFINE sections == Sections(Set(r))
           fit == Starts(r, sections[1])
           was == \A x \in Pieces(Set(r)) : disk[x] = "sound"
<1>2. PICK e : e = [r EXCEPT !.pc = "read", !.at = 1, !.fit = fit, !.was = was]
  OBVIOUS
<1>3. /\ r.pc = "open" /\ OpenRestorePoint(Set(r)) /\ UNCHANGED <<disk, log>>
      /\ r.kind = "restore" => dest[Target(r)].by = {}
      /\ run' = [run EXCEPT ![p] = e] /\ dest' = Restored(p, r, FALSE)
  <2>1. e = [ReadFrom(r, 1) EXCEPT !.was = was]
    BY <1>2 DEF ReadFrom
  <2> HIDE DEF was
  <2> QED
    BY <1>1, <2>1 DEF BeginEntry, Exists, was
<1>4. /\ r \in RunRecords /\ RunInv(p, r) /\ Set(r) \in Sets /\ Target(r) \in Folder
      /\ r.kind \in {"restore", "verify"}
  BY <1>1, <1>3, WorkingRun DEF Working
<1>5. fit \in BOOLEAN /\ was \in BOOLEAN
  BY DEF Starts
<1>6. fit => disk[sections[1]] = "sound"
  BY DEF Starts
<1>7. ~was => \E i \in DOMAIN sections : disk[sections[i]] # "sound"
  <2> SUFFICES ASSUME ~was PROVE \E i \in DOMAIN sections : disk[sections[i]] # "sound"
    OBVIOUS
  <2>1. PICK x \in Pieces(Set(r)) : disk[x] # "sound"
    OBVIOUS
  <2>2. x[2] # "head"
    <3>1. PICK s \in Needs(Set(r)), y \in Part : x = <<s, y>>
      BY <2>1 DEF Pieces
    <3> QED
      BY <1>3, <2>1, <3>1 DEF OpenRestorePoint, IsComplete
  <2> QED
    BY <1>4, <2>1, <2>2, SectionsAre
<1> HIDE DEF fit, was
<1>8. /\ e \in RunRecords /\ SameWork(e, r) /\ e.pc = "read" /\ e.facts = r.facts
      /\ e.at = 1 /\ e.fit = fit /\ e.was = was
  BY <1>2, <1>4, <1>5 DEF RunRecords, Working, SameWork
<1>9. ReadInOrder(e)
  <2>1. sections \in Seq(Pieces(Set(r))) /\ 1 \in DOMAIN sections
    BY <1>4, SectionsAre
  <2>2. Set(e) = Set(r)
    BY <1>8 DEF Set, SameWork
  <2>3. \A i \in DOMAIN sections : i \in 1 .. Len(sections)
    BY <2>1
  <2>4. ~was => \E i \in 1 .. Len(sections) : disk[sections[i]] # "sound" /\ (i = 1 => ~fit)
    BY <1>5, <1>6, <1>7, <2>3
  <2> QED
    BY <1>8, <2>1, <2>2, <2>4 DEF ReadInOrder
<1>10. CASE r.kind = "verify"
  BY <1>1, <1>3, <1>8, <1>9, <1>10, SameFolders DEF Restored
<1>11. CASE r.kind = "restore"
  <2>1. dest' = [dest EXCEPT ![Target(r)] = [by |-> {p}, whole |-> FALSE]]
    BY <1>3, <1>11 DEF Restored
  <2>2. Target(r) \notin Finished(r)
    BY <1>3, <1>4, <1>11 DEF RunInv, DestInOrder
  <2> QED
    BY <1>1, <1>3, <1>8, <1>9, <1>11, <2>1, <2>2, FolderOfRun
<1> QED
  BY <1>4, <1>10, <1>11

\* A section was read: what is not sound by now comes after it, or was sound
\* when the entry began.
LEMMA ReadSectionKeeps ==
  ASSUME ReadRunInv, NEW p \in Proc, ReadSection(p)
  PROVE  ReadRunInv'
<1>1. PICK r : r = run[p]
  OBVIOUS
<1> DEFINE sections == Sections(Set(r))
<1>2. /\ r.pc = "read" /\ r.fit /\ UNCHANGED <<disk, log>>
      /\ run' = [run EXCEPT ![p] = IF r.at = Len(sections) THEN [r EXCEPT !.pc = "done"]
                                   ELSE ReadFrom(r, r.at + 1)]
      /\ dest' = IF r.at = Len(sections) THEN Restored(p, r, TRUE) ELSE dest
  BY <1>1 DEF ReadSection
<1>3. /\ r \in RunRecords /\ RunInv(p, r) /\ Set(r) \in Sets /\ Target(r) \in Folder
      /\ r.kind \in {"restore", "verify"}
  BY <1>1, <1>2, WorkingRun DEF Working
<1>4. /\ sections \in Seq(Pieces(Set(r))) /\ r.at \in DOMAIN sections /\ r.at \in Nat
      /\ ~r.was => \E i \in r.at .. Len(sections) : disk[sections[i]] # "sound" /\ i # r.at
  <2>1. sections \in Seq(Pieces(Set(r))) /\ r.at \in DOMAIN sections
    BY <1>2, <1>3, SectionsAre DEF RunInv, ReadInOrder
  <2>2. ~r.was => \E i \in r.at .. Len(sections) : disk[sections[i]] # "sound" /\ i # r.at
    BY <1>2, <1>3 DEF RunInv, ReadInOrder
  <2> QED
    BY <2>1, <2>2
<1>5. CASE r.at = Len(sections)
  <2>1. r.was
    <3>1. r.was \in BOOLEAN
      BY <1>3 DEF RunRecords
    <3> QED
      BY <1>4, <1>5, <3>1
  <2>2. PICK e : e = [r EXCEPT !.pc = "done"]
    OBVIOUS
  <2>3. /\ e \in RunRecords /\ SameWork(e, r) /\ e.pc = "done" /\ e.facts = r.facts
        /\ e.at = r.at /\ e.fit = r.fit /\ e.was = r.was
    BY <1>3, <2>2 DEF RunRecords, Working, SameWork
  <2>4. ReadInOrder(e)
    <3>1. Set(e) = Set(r)
      BY <2>3 DEF Set, SameWork
    <3> QED
      BY <1>4, <2>1, <2>3, <3>1 DEF ReadInOrder
  <2>5. run' = [run EXCEPT ![p] = e] /\ dest' = Restored(p, r, TRUE)
    BY <1>2, <1>5, <2>2
  <2>6. CASE r.kind = "verify"
    BY <1>1, <1>2, <2>3, <2>4, <2>5, <2>6, SameFolders DEF Restored
  <2>7. CASE r.kind = "restore"
    <3>1. dest[Target(r)].by = {p}
      BY <1>2, <1>3, <2>7 DEF RunInv, DestInOrder
    <3>2. dest' = [dest EXCEPT ![Target(r)] = [by |-> {p}, whole |-> TRUE]]
      BY <2>5, <2>7, <3>1 DEF Restored
    <3> QED
      BY <1>1, <1>2, <2>3, <2>4, <2>5, <2>7, <3>1, <3>2, FolderOfRun
  <2> QED
    BY <1>3, <2>6, <2>7
<1>6. CASE r.at # Len(sections)
  <2> DEFINE at == r.at + 1
             fit == Starts(r, sections[at])
  <2>1. PICK e : e = [r EXCEPT !.pc = "read", !.at = at, !.fit = fit]
    OBVIOUS
  <2>2. fit \in BOOLEAN /\ (fit => disk[sections[at]] = "sound")
    BY DEF Starts
  <2>3. at \in Nat /\ at \in DOMAIN sections
    BY <1>4, <1>6
  <2>4. run' = [run EXCEPT ![p] = e] /\ UNCHANGED dest
    BY <1>2, <1>6, <2>1 DEF ReadFrom
  <2>5. ~r.was => \E i \in at .. Len(sections) : disk[sections[i]] # "sound" /\ (i = at => ~fit)
    BY <1>4, <2>2
  <2> HIDE DEF fit, at
  <2>6. /\ e \in RunRecords /\ SameWork(e, r) /\ e.pc = "read" /\ e.facts = r.facts
        /\ e.at = at /\ e.fit = fit /\ e.was = r.was
    BY <1>3, <2>1, <2>2, <2>3 DEF RunRecords, Working, SameWork
  <2>7. ReadInOrder(e)
    <3>1. Set(e) = Set(r)
      BY <2>6 DEF Set, SameWork
    <3> QED
      BY <2>3, <2>5, <2>6, <3>1 DEF ReadInOrder
  <2> QED
    BY <1>1, <1>2, <2>4, <2>6, <2>7, SameFolders
<1> QED
  BY <1>5, <1>6

\* The run after an entry that was read: it opens the next one or returns.
LEMMA NextEntryIs ==
  ASSUME ReadRunInv, NEW p \in Proc, NEW r, r = run[p], r.pc = "done",
         NEW e, e = NextEntry(EntryDone(r))
  PROVE  /\ e \in RunRecords /\ e.kind = r.kind /\ e.sets = r.sets /\ e.lock = r.lock
         /\ \/ r.n < Len(r.sets) /\ e.pc = "open" /\ e.n = r.n + 1 /\ e.result = None
            \/ ~(r.n < Len(r.sets)) /\ e.pc = "close" /\ e.n = r.n /\ e.result = "ok"
<1>1. /\ r \in RunRecords /\ Set(r) \in Sets /\ r.result = None /\ r.was
      /\ r.n \in Nat \ {0}
  BY WorkingRun DEF Working, RunInv, ReadInOrder
<1>2. PICK d : d = EntryDone(r)
  OBVIOUS
<1>3. d \in RunRecords /\ SameWork(d, r)
  <2>1. FactTrue([kind |-> "verify", result |-> "ok", error |-> None, set |-> Set(r), was |-> r.was])
    BY <1>1 DEF FactTrue
  <2>2. FactTrue([kind |-> "restore", result |-> "warnings", error |-> None, set |-> Set(r),
                  was |-> r.was])
    BY DEF FactTrue
  <2>3. Fact(r, "verify", "ok", None) \in RunRecords /\ SameWork(Fact(r, "verify", "ok", None), r)
    BY <1>1, <2>1, FactAdded
  <2>4. /\ Fact(r, "restore", "warnings", None) \in RunRecords
        /\ SameWork(Fact(r, "restore", "warnings", None), r)
    BY <1>1, <2>2, FactAdded
  <2>5. SameWork(r, r)
    BY DEF SameWork
  <2>6. d = Fact(r, "verify", "ok", None) \/ d = Fact(r, "restore", "warnings", None) \/ d = r
    BY <1>2 DEF EntryDone
  <2> QED
    BY <1>1, <2>3, <2>4, <2>5, <2>6
<1>4. PICK c : c = ReaderClosed(d)
  OBVIOUS
<1>5. /\ c \in RunRecords /\ c.kind = r.kind /\ c.sets = r.sets /\ c.lock = r.lock /\ c.n = r.n
      /\ c.result = None
  <2>1. c \in RunRecords /\ SameWork(c, d)
    BY <1>3, <1>4, Unread
  <2> QED
    BY <1>1, <1>3, <2>1 DEF SameWork
<1>6. d.n = r.n /\ d.sets = r.sets
  BY <1>3 DEF SameWork
<1>7. CASE r.n < Len(r.sets)
  <2>1. e = [c EXCEPT !.pc = "open", !.n = c.n + 1]
    BY <1>2, <1>4, <1>6, <1>7 DEF NextEntry
  <2> DEFINE n == c.n + 1
  <2>2. n \in Nat \ {0} /\ n = r.n + 1
    BY <1>1, <1>5
  <2>3. e = [c EXCEPT !.pc = "open", !.n = n]
    BY <2>1
  <2> HIDE DEF n
  <2>4. /\ e \in RunRecords /\ e.kind = c.kind /\ e.sets = c.sets /\ e.lock = c.lock
        /\ e.pc = "open" /\ e.n = n /\ e.result = c.result
    BY <1>5, <2>2, <2>3 DEF RunRecords, Working
  <2> QED
    BY <1>5, <1>7, <2>2, <2>4
<1>8. CASE ~(r.n < Len(r.sets))
  <2>1. e = Return(c, "ok") /\ "ok" \in Results
    BY <1>2, <1>4, <1>6, <1>8 DEF NextEntry, Results
  <2>2. /\ e \in RunRecords /\ e.kind = c.kind /\ e.sets = c.sets /\ e.lock = c.lock
        /\ e.pc = "close" /\ e.n = c.n /\ e.result = "ok"
    BY <1>5, <2>1, Returned
  <2> QED
    BY <1>5, <1>8, <2>2
<1> QED
  BY <1>7, <1>8

\* An entry has been read: a restore has one folder more that is whole.
LEMMA EndEntryKeeps ==
  ASSUME ReadRunInv, NEW p \in Proc, EndEntry(p)
  PROVE  ReadRunInv'
<1>1. PICK r : r = run[p]
  OBVIOUS
<1>2. PICK e : e = NextEntry(EntryDone(r))
  OBVIOUS
<1>3. r.pc = "done" /\ UNCHANGED <<disk, dest, log>> /\ run' = [run EXCEPT ![p] = e]
  BY <1>1, <1>2 DEF EndEntry
<1>4. /\ r \in RunRecords /\ RunInv(p, r) /\ r.kind \in {"restore", "verify"} /\ r.result = None
      /\ r.lock \in {"held", "unavailable"} /\ r.sets # <<>> /\ r.n \in DOMAIN r.sets
      /\ Target(r) \in Folder /\ r.sets \in Seq(Sets) /\ r.n \in Nat \ {0}
      /\ log \in [Logs -> Seq(TrueFacts)]
  BY <1>1, <1>3, WorkingRun DEF Working
<1>5. /\ e \in RunRecords /\ e.kind = r.kind /\ e.sets = r.sets /\ e.lock = r.lock
      /\ \/ r.n < Len(r.sets) /\ e.pc = "open" /\ e.n = r.n + 1 /\ e.result = None
         \/ ~(r.n < Len(r.sets)) /\ e.pc = "close" /\ e.n = r.n /\ e.result = "ok"
  BY <1>1, <1>2, <1>3, NextEntryIs
<1>6. e.n \in DOMAIN r.sets
  BY <1>4, <1>5
<1>7. RunInOrder(e)
  <2>1. e.pc \in {"open", "close"} /\ e.result \in {None, "ok"}
    BY <1>5
  <2>2. e.lock = "held" => \A i \in DOMAIN e.sets : \A x \in Pieces(e.sets[i]) : disk[x] # "gone"
    BY <1>3, <1>4, <1>5 DEF RunInv, RunInOrder, Working
  <2>3. e.pc \in Working => e.kind # "none" /\ e.lock \in {"held", "unavailable"} /\ e.result = None
    BY <1>4, <1>5 DEF Working
  <2>4. e.sets # <<>> /\ e.n \in DOMAIN e.sets
    BY <1>4, <1>5, <1>6
  <2> QED
    BY <2>1, <2>2, <2>3, <2>4 DEF RunInOrder
<1>8. ReadInOrder(e)
  BY <1>5 DEF ReadInOrder
<1>9. ErrorInOrder(p, e)
  BY <1>5, ReadRunAssumption DEF ErrorInOrder
<1>10. CASE r.kind = "verify"
  <2>1. \A f \in Folder : p \notin dest[f].by
    BY <1>4, <1>10 DEF RunInv, DestInOrder, HasBegun
  <2>2. DestInOrder(p, e) /\ RestoredBy(p, e)
    BY <1>5, <1>10, <2>1 DEF DestInOrder, RestoredBy
  <2>3. RunInv(p, e)
    BY <1>7, <1>8, <1>9, <2>2 DEF RunInv
  <2> QED
    BY <1>3, <1>4, <1>5, <2>3, RunChanges
<1>11. CASE r.kind = "restore"
  <2> DEFINE mine == [by |-> {p}, whole |-> TRUE]
             entries == 1 .. r.n
  <2>1. dest[Target(r)] = mine
    <3>1. dest[Target(r)] \in [by : SUBSET (Proc \cup {User}), whole : BOOLEAN]
      BY <1>4 DEF ReadRunInv, OneOwner
    <3>2. dest[Target(r)].by = {p} /\ dest[Target(r)].whole
      BY <1>3, <1>4, <1>11 DEF RunInv, DestInOrder
    <3> QED
      BY <3>1, <3>2
  <2>2. \A f \in Finished(r) : dest[f] = mine
    BY <1>3, <1>4, <1>11 DEF RunInv, DestInOrder
  <2>3. mine.whole
    OBVIOUS
  <2> HIDE DEF mine
  <2>4. \A i \in entries : dest[Info[r.sets[i]].folder] = mine
    <3>1. \A i \in entries : i = r.n \/ i \in 1 .. r.n - 1
      BY <1>4
    <3> QED
      BY <2>1, <2>2, <3>1 DEF Finished, Target, Set
  <2>5. \A f \in Folder : dest[f].by = {p} => dest[f].whole
    BY <1>4, <1>11, <2>1, <2>3 DEF RunInv, RestoredBy
  <2>6. CASE e.pc = "open"
    <3>1. e.kind = "restore" /\ e.n - 1 = r.n /\ e.sets = r.sets /\ e.result = None
      BY <1>4, <1>5, <1>11, <2>6
    <3>2. Finished(e) = {Info[r.sets[i]].folder : i \in entries}
      BY <3>1 DEF Finished
    <3>3. \A f \in Finished(e) : dest[f] = mine
      BY <2>4, <3>2
    <3>4. \A f \in Folder : dest[f].by = {p} => f \in Finished(e)
      <4>1. \A f \in Folder : dest[f].by = {p} => f \in Finished(r) \/ f = Target(r)
        BY <1>3, <1>4, <1>11 DEF RunInv, DestInOrder
      <4>2. r.n \in entries /\ \A i \in 1 .. r.n - 1 : i \in entries
        BY <1>4
      <4>3. Target(r) \in Finished(e)
        BY <3>2, <4>2 DEF Target, Set
      <4>4. Finished(r) \subseteq Finished(e)
        BY <3>2, <4>2 DEF Finished
      <4> QED
        BY <4>1, <4>3, <4>4
    <3>5. DestInOrder(p, e)
      BY <2>6, <3>1, <3>3, <3>4 DEF DestInOrder, HasBegun, mine
    <3>6. RestoredBy(p, e)
      BY <2>5, <3>1, ReadRunAssumption DEF RestoredBy
    <3>7. RunInv(p, e)
      BY <1>7, <1>8, <1>9, <3>5, <3>6 DEF RunInv
    <3> QED
      BY <1>3, <1>4, <1>5, <3>7, RunChanges
  <2>7. CASE e.pc = "close"
    <3>1. e.kind = "restore" /\ e.sets = r.sets /\ e.result = "ok" /\ DOMAIN e.sets = entries
      BY <1>4, <1>5, <1>11, <2>7
    <3>2. \A i \in DOMAIN e.sets : dest[Info[e.sets[i]].folder] = mine
      BY <2>4, <3>1
    <3>3. DestInOrder(p, e)
      BY <2>7, <3>1 DEF DestInOrder, HasBegun
    <3>4. RestoredBy(p, e)
      BY <2>5, <3>1, <3>2 DEF RestoredBy, mine
    <3>5. RunInv(p, e)
      BY <1>7, <1>8, <1>9, <3>3, <3>4 DEF RunInv
    <3> QED
      BY <1>3, <1>4, <1>5, <3>5, RunChanges
  <2> QED
    BY <1>5, <2>6, <2>7
<1> QED
  BY <1>4, <1>10, <1>11

\* The run returns with its error, or with the user's cancellation.
LEMMA StopKeeps ==
  ASSUME ReadRunInv, NEW p \in Proc, Stop(p)
  PROVE  ReadRunInv'
<1>1. PICK r : r = run[p]
  OBVIOUS
<1> DEFINE result == IF r.cancelled THEN "cancelled" ELSE "failed"
           s == IF r.cancelled THEN [r EXCEPT !.error = "cancelled"] ELSE r
<1>2. PICK e : e = Return(s, result)
  OBVIOUS
<1>3. r.pc = "stopped" /\ UNCHANGED <<disk, dest, log>> /\ run' = [run EXCEPT ![p] = e]
  BY <1>1, <1>2 DEF Stop
<1>4. /\ r \in RunRecords /\ RunInv(p, r) /\ r.sets # <<>> /\ r.n \in DOMAIN r.sets
      /\ r.kind \in {"restore", "verify"} /\ log \in [Logs -> Seq(TrueFacts)]
      /\ r.lock \in {"held", "unavailable"} /\ r.result = None
  BY <1>1, <1>3, WorkingRun
<1>5. /\ s \in RunRecords /\ s.kind = r.kind /\ s.sets = r.sets /\ s.lock = r.lock /\ s.n = r.n
      /\ (~r.cancelled => s.error = r.error) /\ result \in Results
  BY <1>4 DEF RunRecords, Errors, Results
<1>6. result = "cancelled" \/ (result = "failed" /\ ~r.cancelled)
  OBVIOUS
<1> HIDE DEF s, result
<1>7. /\ e \in RunRecords /\ e.pc = "close" /\ e.result = result
      /\ e.kind = r.kind /\ e.sets = r.sets /\ e.lock = r.lock /\ e.n = r.n
      /\ e.error = s.error
  BY <1>2, <1>5, Returned
<1>8. RunInOrder(e)
  BY <1>4, <1>7 DEF RunInv, RunInOrder, Working
<1>9. ReadInOrder(e)
  BY <1>7 DEF ReadInOrder
<1>10. DestInOrder(p, e)
  BY <1>3, <1>4, <1>6, <1>7 DEF RunInv, DestInOrder, HasBegun
<1>11. Set(e) = Set(r) /\ Target(e) = Target(r) /\ Finished(e) = Finished(r)
  BY <1>7 DEF Target, Set, Finished
<1>12. RestoredBy(p, e)
  <2>1. e.result # "ok"
    BY <1>6, <1>7
  <2> QED
    BY <1>4, <1>7, <1>11, <2>1 DEF RunInv, RestoredBy
<1>13. ErrorInOrder(p, e)
  <2>1. CASE result = "cancelled"
    BY <1>7, <2>1 DEF ErrorInOrder
  <2>2. CASE result = "failed" /\ ~r.cancelled
    <3>1. CauseOf(p, r, r.error) /\ r.error # "cancelled" /\ e.error = r.error
      BY <1>3, <1>4, <1>5, <1>7, <2>2 DEF RunInv, ErrorInOrder
    <3>2. CauseOf(p, e, e.error)
      BY <1>7, <1>11, <3>1 DEF CauseOf
    <3> QED
      BY <1>7, <3>1, <3>2 DEF ErrorInOrder
  <2> QED
    BY <1>6, <2>1, <2>2
<1>14. RunInv(p, e)
  BY <1>8, <1>9, <1>10, <1>12, <1>13 DEF RunInv
<1> QED
  BY <1>3, <1>4, <1>7, <1>14, RunChanges

\* Logger.Close, and the release of the lock.
LEMMA CloseKeeps ==
  ASSUME ReadRunInv, NEW p \in Proc, Close(p)
  PROVE  ReadRunInv'
<1>1. PICK r : r = run[p]
  OBVIOUS
<1> DEFINE went == r.result \in {"ok", "failed", "cancelled"}
           lock == IF r.lock = "held" THEN "released" ELSE r.lock
<1>2. PICK e : e = IF went
                   THEN [r EXCEPT !.pc = "ended", !.facts = <<>>, !.cancelled = FALSE, !.lock = lock]
                   ELSE [Idle EXCEPT !.pc = "ended"]
  OBVIOUS
<1>3. /\ r.pc = "close" /\ UNCHANGED <<disk, dest>> /\ run' = [run EXCEPT ![p] = e]
      /\ log' = log \/ (r.facts # <<>> /\ log' = [log EXCEPT ![Info[r.sets[1]].run] = @ \o r.facts])
  BY <1>1, <1>2 DEF Close
<1>4. r \in RunRecords /\ RunInv(p, r) /\ log \in [Logs -> Seq(TrueFacts)]
  BY <1>1 DEF ReadRunInv, FactsInOrder, Logs
<1>5. log' \in [Logs -> Seq(TrueFacts)]
  <2>1. CASE r.facts # <<>> /\ log' = [log EXCEPT ![Info[r.sets[1]].run] = @ \o r.facts]
    <3> DEFINE l == Info[r.sets[1]].run
    <3>1. r.sets \in Seq(Sets) /\ r.sets # <<>> /\ r.facts \in Seq(TrueFacts)
      BY <1>4, <2>1 DEF RunInv, RunInOrder, RunRecords
    <3>2. l \in Logs
      BY <3>1 DEF Logs
    <3>3. log[l] \o r.facts \in Seq(TrueFacts)
      BY <1>4, <3>1, <3>2, ConcatProperties
    <3> QED
      BY <1>4, <2>1, <3>2, <3>3
  <2> QED
    BY <1>3, <1>4, <2>1
<1>6. CASE went
  <2>1. /\ lock \in {"none", "held", "unavailable", "busy", "released"} /\ <<>> \in Seq(TrueFacts)
        /\ lock = "unavailable" <=> r.lock = "unavailable"
    BY <1>4 DEF RunRecords
  <2>2. e = [r EXCEPT !.pc = "ended", !.facts = <<>>, !.cancelled = FALSE, !.lock = lock]
    BY <1>2, <1>6
  <2> HIDE DEF lock
  <2>3. /\ e \in RunRecords /\ e.pc = "ended" /\ e.kind = r.kind /\ e.sets = r.sets
        /\ e.n = r.n /\ e.facts = <<>> /\ e.result = r.result /\ e.error = r.error
        /\ e.lock = lock
    BY <1>4, <2>1, <2>2 DEF RunRecords
  <2>4. RunInOrder(e)
    BY <1>4, <1>6, <2>3 DEF RunInv, RunInOrder, Working
  <2>5. ReadInOrder(e)
    BY <2>3 DEF ReadInOrder
  <2>6. DestInOrder(p, e)
    BY <1>4, <1>6, <2>3 DEF RunInv, DestInOrder, HasBegun
  <2>7. Set(e) = Set(r) /\ Target(e) = Target(r) /\ Finished(e) = Finished(r)
    BY <2>3 DEF Target, Set, Finished
  <2>8. RestoredBy(p, e)
    BY <1>4, <2>3, <2>7 DEF RunInv, RestoredBy
  <2>9. ErrorInOrder(p, e)
    <3>1. SUFFICES ASSUME r.result = "failed" PROVE CauseOf(p, e, r.error) /\ r.error # "cancelled"
      BY <2>3 DEF ErrorInOrder
    <3> QED
      BY <1>4, <2>1, <2>3, <2>7, <3>1 DEF RunInv, ErrorInOrder, CauseOf
  <2>10. RunInv(p, e)
    BY <2>4, <2>5, <2>6, <2>8, <2>9 DEF RunInv
  <2> QED
    BY <1>3, <1>5, <2>3, <2>10, RunChanges
<1>7. CASE ~went
  <2>1. /\ e \in RunRecords /\ e.pc = "ended" /\ e.kind = "none" /\ e.facts = <<>>
        /\ e.result = None
    BY <1>2, <1>7, IdleIs DEF RunRecords
  <2>2. \A f \in Folder : p \notin dest[f].by
    BY <1>3, <1>4, <1>7 DEF RunInv, DestInOrder, HasBegun
  <2>3. RunInOrder(e)
    BY <2>1, ReadRunAssumption DEF RunInOrder, Working
  <2>4. RunInv(p, e)
    BY <2>1, <2>2, <2>3, NotBegun DEF RunInv
  <2> QED
    BY <1>3, <1>5, <2>1, <2>4, RunChanges
<1> QED
  BY <1>6, <1>7

-----------------------------------------------------------------------------
(* The user and the disk *)

\* A piece is damaged, or a backup's retention removes it.
LEMMA BreaksKeeps ==
  ASSUME ReadRunInv, NEW x \in Piece, Damage(x) \/ RetentionRemoves(x)
  PROVE  ReadRunInv'
<1>1. PICK what \in {"damaged", "gone"} :
        /\ disk' = [disk EXCEPT ![x] = what] /\ UNCHANGED <<run, dest, log>>
        /\ what = "damaged" \/ \A p \in Proc : run[p].lock # "held"
  BY DEF Damage, RetentionRemoves
<1>2. TrueFacts \subseteq TrueFacts'
  <2>1. \A y \in Piece : disk[y] # "sound" => disk'[y] # "sound"
    BY <1>1 DEF ReadRunInv, FactsInOrder
  <2> QED
    BY <2>1, FactsStayTrue
<1>3. FactsInOrder'
  <2>1. RunRecords \subseteq RunRecords' /\ Seq(TrueFacts) \subseteq Seq(TrueFacts')
    BY <1>2, TypesKept
  <2>2. run' \in [Proc -> RunRecords'] /\ log' \in [Logs -> Seq(TrueFacts')]
    BY <1>1, <2>1 DEF ReadRunInv, FactsInOrder, Logs
  <2>3. disk' \in [Piece -> {"sound", "damaged", "gone"}]
    BY <1>1 DEF ReadRunInv, FactsInOrder
  <2> QED
    BY <2>2, <2>3 DEF FactsInOrder, Logs
<1>4. OneOwner'
  BY <1>1 DEF ReadRunInv, OneOwner
<1>5. ASSUME NEW q \in Proc PROVE RunInv(q, run[q])'
  <2>1. PICK r : r = run[q]
    OBVIOUS
  <2>2. RunInv(q, r) /\ r.sets \in Seq(Sets) /\ disk \in [Piece -> {"sound", "damaged", "gone"}]
    BY <2>1 DEF ReadRunInv, FactsInOrder, RunRecords
  <2>3. RunInv(q, r)'
    BY <1>1, <2>1, <2>2, PieceBreaks
  <2> QED
    BY <1>1, <2>1, <2>3
<1> QED
  BY <1>3, <1>4, <1>5 DEF ReadRunInv

\* A folder appears in the destination.
LEMMA UserMakesFolderKeeps ==
  ASSUME ReadRunInv, NEW f \in Folder, UserMakesFolder(f)
  PROVE  ReadRunInv'
<1> DEFINE whole == dest[f].whole
<1>1. /\ dest[f].by = {} /\ dest' = [dest EXCEPT ![f] = [by |-> {User}, whole |-> whole]]
      /\ UNCHANGED <<run, disk, log>>
  BY DEF UserMakesFolder, ReadRunInv, OneOwner
<1>2. whole \in BOOLEAN
  BY DEF ReadRunInv, OneOwner
<1> HIDE DEF whole
<1>3. TrueFacts' = TrueFacts
  BY <1>1 DEF TrueFacts, FactTrue, Pieces, Needs
<1>4. FactsInOrder'
  BY <1>1, <1>3 DEF ReadRunInv, FactsInOrder, RunRecords
<1>5. OneOwner'
  BY <1>1, <1>2 DEF ReadRunInv, OneOwner
<1>6. ASSUME NEW q \in Proc PROVE RunInv(q, run[q])'
  <2>1. PICK r : r = run[q]
    OBVIOUS
  <2>2. User # q /\ r.sets \in Seq(Sets) /\ RunInv(q, r) /\ OneOwner
    BY <2>1, ReadRunAssumption DEF User, ReadRunInv, FactsInOrder, RunRecords
  <2>3. RunInv(q, r)'
    BY <1>1, <2>2, FolderOfAnother
  <2> QED
    BY <1>1, <2>1, <2>3
<1> QED
  BY <1>4, <1>5, <1>6 DEF ReadRunInv

-----------------------------------------------------------------------------
(* The theorems *)

\* Before the first run.
LEMMA ReadRunInvInit == Init => ReadRunInv
<1> SUFFICES ASSUME Init PROVE ReadRunInv
  OBVIOUS
<1>1. FactsInOrder
  <2>1. run \in [Proc -> RunRecords]
    BY IdleIs DEF Init
  <2>2. log \in [{Info[s].run : s \in Sets} -> Seq(TrueFacts)]
    BY DEF Init
  <2> QED
    BY <2>1, <2>2 DEF Init, FactsInOrder
<1>2. OneOwner
  BY DEF Init, OneOwner
<1>3. ASSUME NEW p \in Proc PROVE RunInv(p, run[p])
  <2>1. PICK r : r = Idle
    OBVIOUS
  <2>2. r.pc = "idle" /\ r.kind = "none" /\ r.n = 1 /\ r.facts = <<>> /\ r.result = None
    BY <2>1, IdleIs
  <2>3. RunInOrder(r)
    BY <2>1, <2>2, ReadRunAssumption DEF RunInOrder, Working
  <2>4. DestInOrder(p, r)
    BY <2>2 DEF DestInOrder, Init
  <2>5. ReadInOrder(r) /\ RestoredBy(p, r) /\ ErrorInOrder(p, r)
    BY <2>2, ReadRunAssumption DEF ReadInOrder, RestoredBy, ErrorInOrder
  <2> QED
    BY <2>1, <2>3, <2>4, <2>5 DEF RunInv, Init
<1> QED
  BY <1>1, <1>2, <1>3 DEF ReadRunInv

\* Every step keeps the invariant.
LEMMA ReadRunInvNext == ReadRunInv /\ [Next]_vars => ReadRunInv'
<1> SUFFICES ASSUME ReadRunInv, [Next]_vars PROVE ReadRunInv'
  OBVIOUS
<1>1. ASSUME NEW p \in Proc, Start(p) \/ Work(p) \/ Cancel(p) PROVE ReadRunInv'
  BY <1>1, StartKeeps, CancelKeeps, ConfirmKeeps, BeginEntryKeeps, BeginFailsKeeps,
     ReadSectionKeeps, ReadFailsKeeps, EndEntryKeeps, StopKeeps, CloseKeeps DEF Work
<1>2. CASE UNCHANGED vars
  <2>1. UNCHANGED <<run, disk, dest, log>>
    BY <1>2 DEF vars
  <2>2. TrueFacts' = TrueFacts
    BY <2>1 DEF TrueFacts, FactTrue, Pieces, Needs
  <2>3. FactsInOrder' /\ OneOwner'
    BY <2>1, <2>2 DEF ReadRunInv, FactsInOrder, RunRecords, OneOwner
  <2>4. ASSUME NEW q \in Proc PROVE RunInv(q, run[q])'
    <3>1. PICK r : r = run[q]
      OBVIOUS
    <3>2. RunInv(q, r)
      BY <3>1 DEF ReadRunInv
    <3>3. RunInOrder(r)' /\ ReadInOrder(r)'
      BY <2>1, <3>2 DEF RunInv, RunInOrder, ReadInOrder, Set, Pieces, Needs, Sections
    <3>4. DestInOrder(q, r)' /\ RestoredBy(q, r)'
      BY <2>1, <3>2 DEF RunInv, DestInOrder, RestoredBy, HasBegun, Finished, Target, Set
    <3>5. ErrorInOrder(q, r)'
      BY <2>1, <3>2 DEF RunInv, ErrorInOrder, CauseOf, Finished, Target, Set, Pieces, Needs
    <3> QED
      BY <2>1, <3>1, <3>3, <3>4, <3>5 DEF RunInv
  <2> QED
    BY <2>3, <2>4 DEF ReadRunInv
<1> QED
  BY <1>1, <1>2, BreaksKeeps, UserMakesFolderKeeps DEF Next, AllEnded

\* The inductive invariant of the read runs.
LEMMA ReadRunInvariant == Spec => []ReadRunInv
BY ReadRunInvInit, ReadRunInvNext, PTL DEF Spec

\* A verification that is logged as "ok" (verifyAll) has not missed damage from
\* before it began, neither in the set nor in the full backup it needs, and one
\* logged as failed for damage or a missing part is not about a sound restore
\* point: for ever, in the log and in what a run is about to append to it.
THEOREM LogsAreTrue == Spec => []FactsTrue
<1>1. ReadRunInv => FactsTrue
  <2> SUFFICES ASSUME ReadRunInv,
                      NEW f \in UNION ({ToSet(log[r]) : r \in DOMAIN log} \cup
                                       {ToSet(run[p].facts) : p \in Proc})
               PROVE  FactTrue(f)
    BY DEF FactsTrue
  <2>1. ASSUME NEW s \in Seq(TrueFacts), f \in ToSet(s) PROVE f \in TrueFacts
    BY <2>1 DEF ToSet
  <2>2. \A r \in DOMAIN log : log[r] \in Seq(TrueFacts)
    BY DEF ReadRunInv, FactsInOrder
  <2>3. \A p \in Proc : run[p].facts \in Seq(TrueFacts)
    BY DEF ReadRunInv, FactsInOrder, RunRecords
  <2>4. f \in TrueFacts
    BY <2>1, <2>2, <2>3
  <2> QED
    BY <2>4 DEF TrueFacts
<1> QED
  BY <1>1, ReadRunInvariant, PTL

\* A restore that reports success has restored every set, whole and into a
\* folder of its own, and no restore writes into the folder of somebody else
\* (restoreEntry).
THEOREM RestoresAreWhole == Spec => []RestoredWhole
<1>1. ReadRunInv => RestoredWhole
  <2> SUFFICES ASSUME ReadRunInv PROVE RestoredWhole
    OBVIOUS
  <2>1. ASSUME NEW f \in Folder PROVE Cardinality(dest[f].by) <= 1
    <3>1. dest[f].by = {} \/ \E x \in Proc \cup {User} : dest[f].by = {x}
      BY DEF ReadRunInv, OneOwner
    <3>2. CASE dest[f].by = {}
      BY <3>2, FS_EmptySet
    <3>3. ASSUME NEW x, dest[f].by = {x} PROVE Cardinality(dest[f].by) <= 1
      BY <3>3, FS_Singleton
    <3> QED
      BY <3>1, <3>2, <3>3
  <2> QED
    BY <2>1 DEF RestoredWhole, ReadRunInv, RunInv
<1> QED
  BY <1>1, ReadRunInvariant, PTL

\* The error a run ends with is true (restoreEntry, verifyEntry): what it calls
\* damaged or missing is not sound, nothing is missing for a run that holds the
\* lock, a folder that is there is not the one the failing entry made, and what
\* the user cancelled is no failure.
THEOREM FailuresHaveCauses == Spec => []FailureHasCause
<1>1. ReadRunInv => FailureHasCause
  BY DEF ReadRunInv, RunInv, ErrorInOrder, FailureHasCause
<1> QED
  BY <1>1, ReadRunInvariant, PTL
=============================================================================
