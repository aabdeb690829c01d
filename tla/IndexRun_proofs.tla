-------------------------- MODULE IndexRun_proofs --------------------------
(***************************************************************************)
(* Proofs about IndexRun, for any number of versions, requests and threads *)
(* and whatever extraction does, and about Pipeline, in which extraction   *)
(* is OcrRun: the composition is an execution of each of its parts.        *)
(***************************************************************************)
EXTENDS Pipeline, TLAPS, FiniteSetTheorems

(* The status table under the names of core/indexing.py.                   *)
LEMMA StatusTable ==
    /\ \A s \in IndexStatuses : CanReindex(s) <=> s \in {"indexed", "failed"}
    /\ \A s \in IndexStatuses, t \in {"indexed", "failed"} :
          CanMove(s, t) => s = "indexing" \/ (s = "pending" /\ t = "failed")
<1>1. \A s \in IndexStatuses : AsRun(s) \in {"none", "pending", "processing", "completed", "failed"}
                               /\ (AsRun(s) \in {"completed", "failed"} <=> s \in {"indexed", "failed"})
                               /\ (AsRun(s) = "processing" <=> s = "indexing")
                               /\ (AsRun(s) = "pending" <=> s = "pending")
                               /\ (AsRun(s) = "failed" <=> s = "failed")
  BY DEF IndexStatuses, AsRun
<1>2. \A s : Lifecycle!CanRetry(s) <=> s \in {"completed", "failed"}
  BY SMT DEF Lifecycle!LifecycleStatuses, Lifecycle!CanRetry,
         Lifecycle!RetryableStatuses, Lifecycle!StatusTransitions
<1>3. \A s, t : Lifecycle!CanTransition(s, t) <=>
          \/ s = "pending" /\ t \in {"processing", "failed"}
          \/ s = "processing" /\ t \in {"completed", "failed"}
          \/ s \in {"completed", "failed"} /\ t = "pending"
  BY SMT DEF Lifecycle!LifecycleStatuses, Lifecycle!StatusTransitions, Lifecycle!CanTransition
<1>4. AsRun("indexed") = "completed" /\ AsRun("failed") = "failed"
  BY DEF AsRun
<1> QED
  BY <1>1, <1>2, <1>3, <1>4 DEF CanReindex, CanMove

-----------------------------------------------------------------------------
(* Chunks and points *)

(* Of a reading at least none and at most MaxChunks chunks are kept, and   *)
(* the points of the kept ones are its points.                             *)
LEMMA ChunkFacts ==
    ASSUME NEW t \in Readings
    PROVE  KeptChunks(t) \in 0..MaxChunks
BY IndexConstants DEF IndexConstants, KeptChunks, Smaller

(* The points of the first n chunks of a reading. *)
Prefix(t, n) == {Point(t, m) : m \in 1..n}

(* A batch of upsert appends to the points of the chunks before it: ids of *)
(* different chunks differ, so it overwrites nothing.                      *)
LEMMA UpsertedPrefix ==
    ASSUME NEW t, NEW k \in Nat, NEW m \in Nat, k <= m
    PROVE  Upserted(Prefix(t, k), {Point(t, n) : n \in k + 1..m}) = Prefix(t, m)
<1> DEFINE batch == {Point(t, n) : n \in k + 1..m}
<1>1. \A p \in Prefix(t, k), q \in batch : ~SameId(p, q)
  BY DEF Prefix, SameId, Point
<1>2. Upserted(Prefix(t, k), batch) = Prefix(t, k) \cup batch
  BY <1>1 DEF Upserted
<1>3. Prefix(t, k) \cup batch = Prefix(t, m)
  BY DEF Prefix
<1> QED
  BY <1>2, <1>3

(* The points of a reading are of that reading and of the type.            *)
LEMMA PrefixFacts ==
    ASSUME NEW t \in Readings, NEW n \in Nat, n <= KeptChunks(t)
    PROVE  /\ Prefix(t, n) \subseteq AllPoints
           /\ \A p, q \in Prefix(t, n) : p.text = q.text
           /\ Prefix(t, KeptChunks(t)) = PointsOf(t)
<1>1. KeptChunks(t) \in Nat
  BY ChunkFacts, IndexConstants DEF IndexConstants
<1>2. Prefix(t, n) \subseteq PointsOf(t)
  BY <1>1 DEF Prefix, PointsOf
<1>3. \A p, q \in Prefix(t, n) : p.text = q.text
  BY DEF Prefix, Point
<1> QED
  BY <1>2, <1>3 DEF AllPoints, Prefix, PointsOf

-----------------------------------------------------------------------------
(* What a caller or a thread holds while it is not idle *)

(* A caller in progress names a version and goes on to queue its job.      *)
LEMMA CallerFacts ==
    ASSUME NEW q \in CallerStates, q.pc # "idle"
    PROVE  /\ q.doc \in Docs
           /\ [q EXCEPT !.pc = "queueing"] \in CallerStates
           /\ q = [pc |-> q.pc, doc |-> q.doc]
BY DEF CallerStates, IdleCaller

(* A thread that has loaded a row and not yet its text. *)
LEMMA LoadedFacts ==
    ASSUME NEW q \in IndexerStates, q.pc \in {"loaded", "claimed"}
    PROVE  /\ q.doc \in Docs /\ q.seen \in IndexStatuses
           /\ q.reading = NoReading /\ q.written = 0
           /\ \A seen \in IndexStatuses :
                [q EXCEPT !.pc = "claimed", !.seen = seen] \in IndexerStates
           /\ \A t \in Readings :
                [q EXCEPT !.pc = "embedding", !.reading = t] \in IndexerStates
           /\ [q EXCEPT !.pc = "failed"] \in IndexerStates
<1>1. q \in [pc : {"loaded", "claimed"}, doc : Docs, seen : IndexStatuses,
             reading : {NoReading}, written : {0}]
  BY DEF IndexerStates, IdleIndexer
<1>2. MaxChunks \in Nat
  BY IndexConstants DEF IndexConstants
<1>3. ASSUME NEW seen \in IndexStatuses
      PROVE  [q EXCEPT !.pc = "claimed", !.seen = seen] \in IndexerStates
  BY <1>1 DEF IndexerStates
<1>4. ASSUME NEW t \in Readings
      PROVE  [q EXCEPT !.pc = "embedding", !.reading = t] \in IndexerStates
  BY <1>1 DEF IndexerStates
<1>5. [q EXCEPT !.pc = "failed"] \in IndexerStates
  BY <1>1, <1>2 DEF IndexerStates
<1> QED
  BY <1>1, <1>3, <1>4, <1>5

(* A thread between the text and the first point. *)
LEMMA EmbeddingFacts ==
    ASSUME NEW q \in IndexerStates, q.pc \in {"embedding", "deleting"}
    PROVE  /\ q.doc \in Docs /\ q.seen \in IndexStatuses
           /\ q.reading \in Readings /\ q.written = 0
           /\ \A stage \in {"deleting", "upserting", "failed"} :
                [q EXCEPT !.pc = stage] \in IndexerStates
<1>1. q \in [pc : {"embedding", "deleting"}, doc : Docs, seen : IndexStatuses,
             reading : Readings, written : {0}]
  BY DEF IndexerStates, IdleIndexer
<1>2. MaxChunks \in Nat
  BY IndexConstants DEF IndexConstants
<1>3. [q EXCEPT !.pc = "deleting"] \in IndexerStates
  BY <1>1 DEF IndexerStates
<1>4. [q EXCEPT !.pc = "upserting"] \in IndexerStates
  BY <1>1, <1>2 DEF IndexerStates
<1>5. [q EXCEPT !.pc = "failed"] \in IndexerStates
  BY <1>1, <1>2 DEF IndexerStates
<1> QED
  BY <1>1, <1>3, <1>4, <1>5

(* A thread that writes points, or has written them all. *)
LEMMA UpsertingFacts ==
    ASSUME NEW q \in IndexerStates, q.pc \in {"upserting", "indexed"}
    PROVE  /\ q.doc \in Docs /\ q.seen \in IndexStatuses
           /\ q.reading \in Readings /\ q.written \in 0..MaxChunks
           /\ \A n \in 0..MaxChunks, stage \in {"upserting", "indexed"} :
                [q EXCEPT !.written = n, !.pc = stage] \in IndexerStates
           /\ [q EXCEPT !.pc = "failed"] \in IndexerStates
<1>1. q \in [pc : {"upserting", "indexed"}, doc : Docs, seen : IndexStatuses,
             reading : Readings, written : 0..MaxChunks]
  BY DEF IndexerStates, IdleIndexer
<1>2. ASSUME NEW n \in 0..MaxChunks, NEW stage \in {"upserting", "indexed"}
      PROVE  [q EXCEPT !.written = n, !.pc = stage] \in IndexerStates
  BY <1>1 DEF IndexerStates
<1>3. [q EXCEPT !.pc = "failed"] \in IndexerStates
  BY <1>1 DEF IndexerStates
<1> QED
  BY <1>1, <1>2, <1>3

(* Whatever a busy thread is doing, it names a version. *)
LEMMA IndexerFacts ==
    ASSUME NEW q \in IndexerStates, q.pc # "idle"
    PROVE  q.doc \in Docs /\ q.seen \in IndexStatuses
BY DEF IndexerStates, IdleIndexer

(* A step to another stage, with or without a reading or points written,   *)
(* leaves a thread with its version.                                       *)
LEMMA SameJob ==
    ASSUME NEW q \in IndexerStates
    PROVE  /\ \A stage : [q EXCEPT !.pc = stage].doc = q.doc
           /\ \A stage, t : [q EXCEPT !.pc = stage, !.reading = t].doc = q.doc
           /\ \A stage, n : [q EXCEPT !.written = n, !.pc = stage].doc = q.doc
BY DEF IndexerStates, IdleIndexer

(* Those without work are in their types, and so is a thread that has just *)
(* loaded a row (Take).                                                    *)
LEMMA IdleStates ==
    /\ IdleCaller \in CallerStates
    /\ IdleIndexer \in IndexerStates
    /\ \A d \in Docs, s \in IndexStatuses :
         [IdleIndexer EXCEPT !.pc = "loaded", !.doc = d, !.seen = s] \in IndexerStates
<1>1. ASSUME NEW d \in Docs, NEW s \in IndexStatuses
      PROVE  [IdleIndexer EXCEPT !.pc = "loaded", !.doc = d, !.seen = s] \in IndexerStates
  BY DEF IdleIndexer, IndexerStates
<1> QED
  BY <1>1 DEF CallerStates, IndexerStates

(* The position of a new row is a number: there are finitely many rows.    *)
LEMMA CountsAreNat ==
    \A S \in SUBSET Docs : Cardinality(S) \in Nat
BY IndexConstants, FS_Subset, FS_CardinalityType DEF IndexConstants

-----------------------------------------------------------------------------
(* Type correctness *)

(* The empty tables of a process that is down are well typed.              *)
LEMMA InitTypeOK == Init => TypeOK
<1>1. 0 \in Nat /\ <<>> \in Seq(Docs) /\ {} \in SUBSET AllPoints
  OBVIOUS
<1>2. IdleCaller \in CallerStates /\ IdleIndexer \in IndexerStates
  BY IdleStates
<1> QED
  BY <1>1, <1>2 DEF Init, TypeOK, OcrStatuses, IndexStatuses

(* The insert of a row keeps the columns well typed.                       *)
LEMMA InsertIndexOK ==
    ASSUME TypeOK, NEW d \in Docs, InsertIndex(d)
    PROVE  index' \in [Docs -> IndexStatuses] /\ indexed_at' \in [Docs -> Nat]
<1>1. Cardinality({e \in Docs : index[e] # "none"}) \in Nat
  BY CountsAreNat
<1> QED
  BY <1>1 DEF InsertIndex, TypeOK, IndexStatuses

(* A batch of a thread that upserts ends within the chunks of its reading, *)
(* and its points are of the type.                                         *)
LEMMA BatchFacts ==
    ASSUME NEW t \in Readings, NEW done \in Nat, done <= KeptChunks(t)
    PROVE  LET upto == Smaller(done + BatchSize, KeptChunks(t)) IN
           /\ upto \in 0..MaxChunks
           /\ done <= upto
           /\ upto <= KeptChunks(t)
           /\ {Point(t, n) : n \in done + 1..upto} \subseteq AllPoints
<1> DEFINE upto == Smaller(done + BatchSize, KeptChunks(t))
<1>1. KeptChunks(t) \in 0..MaxChunks /\ BatchSize \in Nat /\ MaxChunks \in Nat
  BY ChunkFacts, IndexConstants DEF IndexConstants
<1>2. upto \in 0..MaxChunks /\ done <= upto /\ upto <= KeptChunks(t)
  BY <1>1 DEF Smaller
<1>3. {Point(t, n) : n \in done + 1..upto} \subseteq Prefix(t, KeptChunks(t))
  BY <1>1, <1>2 DEF Prefix
<1>4. Prefix(t, KeptChunks(t)) \subseteq AllPoints
  BY <1>1, PrefixFacts
<1> QED
  BY <1>2, <1>3, <1>4

(* A thread never has written more chunks than are kept of its reading.    *)
WrittenInReading ==
    \A x \in IndexThreads :
        indexers[x].pc = "upserting" => indexers[x].written <= KeptChunks(indexers[x].reading)

TypeInv == TypeOK /\ WrittenInReading

(* A step of one thread keeps the type if it leaves that thread in it.     *)
LEMMA OneIndexerOK ==
    ASSUME TypeInv, NEW x \in IndexThreads, NEW q \in IndexerStates,
           indexers' = [indexers EXCEPT ![x] = q],
           q.pc = "upserting" => q.written <= KeptChunks(q.reading)
    PROVE  indexers' \in [IndexThreads -> IndexerStates] /\ WrittenInReading'
BY DEF TypeInv, TypeOK, WrittenInReading

(* So does one that only moves it to another stage (Advance).              *)
LEMMA StageOK ==
    ASSUME TypeInv, NEW x \in IndexThreads, NEW stage, Advance(x, stage),
           [indexers[x] EXCEPT !.pc = stage] \in IndexerStates,
           stage = "upserting" =>
             indexers[x].written <= KeptChunks(indexers[x].reading)
    PROVE  indexers' \in [IndexThreads -> IndexerStates] /\ WrittenInReading'
<1> DEFINE q == [indexers[x] EXCEPT !.pc = stage]
<1>1. indexers' = [indexers EXCEPT ![x] = q]
  BY DEF Advance, TypeInv, TypeOK
<1>2. indexers[x] \in IndexerStates
  BY DEF TypeInv, TypeOK
<1>3. q.pc = stage /\ q.written = indexers[x].written /\ q.reading = indexers[x].reading
  BY <1>2 DEF IndexerStates, IdleIndexer
<1> HIDE DEF q
<1> QED
  BY <1>1, <1>3, OneIndexerOK DEF q

(* Every handler, thread step and process event keeps the type.            *)
LEMMA StepTypeInv ==
    ASSUME TypeInv, [Next]_vars
    PROVE  TypeInv'
<1> USE DEF TypeInv
<1>i. IdleCaller \in CallerStates /\ IdleIndexer \in IndexerStates /\ IdleIndexer.pc = "idle"
  BY IdleStates DEF IdleIndexer
<1>t. TypeOK /\ WrittenInReading
  OBVIOUS
<1>v. UNCHANGED indexers => WrittenInReading'
  BY DEF WrittenInReading
<1>1. ASSUME NEW c \in OcrThreads, NEW d \in Docs, NEW t \in Readings, OcrCompletes(c, d, t)
      PROVE  TypeInv'
  <2>1. [pc |-> "scheduling", doc |-> d] \in CallerStates /\ c \in Callers
    BY DEF CallerStates, Callers
  <2>2. callers' \in [Callers -> CallerStates]
    BY <1>1, <2>1 DEF OcrCompletes, TypeOK
  <2> QED
    BY <1>1, <1>v, <2>2 DEF OcrCompletes, TypeOK, indexRows, indexBounds, OcrStatuses
<1>2. ASSUME NEW d \in Docs, OcrMoves(d) PROVE TypeInv'
  BY <1>2, <1>v DEF OcrMoves, TypeOK, indexRows, indexBounds
<1>3. ASSUME NEW c \in Callers, Schedule(c) PROVE TypeInv'
  <2>1. callers[c].doc \in Docs /\ [callers[c] EXCEPT !.pc = "queueing"] \in CallerStates
    BY <1>3, CallerFacts DEF Schedule, TypeOK
  <2>2. callers' \in [Callers -> CallerStates]
    BY <1>3, <1>i, <2>1 DEF Schedule, TypeOK
  <2>3. index' \in [Docs -> IndexStatuses] /\ indexed_at' \in [Docs -> Nat]
    BY <1>3, <2>1, InsertIndexOK DEF Schedule, TypeOK, indexRows
  <2> QED
    BY <1>3, <1>v, <2>2, <2>3 DEF Schedule, TypeOK, ocrRows, indexBounds
<1>4. ASSUME NEW r \in Requests, NEW d \in Docs, StartReindex(r, d) PROVE TypeInv'
  <2>1. r \in Callers /\ \A pc \in {"queueing", "reindexing"} :
                           [pc |-> pc, doc |-> d] \in CallerStates
    BY DEF CallerStates, Callers
  <2>2. callers' \in [Callers -> CallerStates]
    BY <1>4, <2>1 DEF StartReindex, TypeOK
  <2>3. index' \in [Docs -> IndexStatuses] /\ indexed_at' \in [Docs -> Nat]
    BY <1>4, InsertIndexOK DEF StartReindex, TypeOK, indexRows
  <2> QED
    BY <1>4, <1>v, <2>2, <2>3 DEF StartReindex, TypeOK, ocrRows
<1>5. ASSUME NEW r \in Requests, CommitReindex(r) PROVE TypeInv'
  <2>1. r \in Callers
    BY DEF Callers
  <2>2. [callers[r] EXCEPT !.pc = "queueing"] \in CallerStates
    BY <1>5, <2>1, CallerFacts DEF CommitReindex, TypeOK
  <2> QED
    BY <1>5, <1>v, <2>1, <2>2 DEF CommitReindex, TypeOK, ocrRows, indexBounds, IndexStatuses
<1>6. ASSUME NEW c \in Callers, Enqueue(c) PROVE TypeInv'
  <2>1. callers[c].doc \in Docs
    BY <1>6, CallerFacts DEF Enqueue, TypeOK
  <2>2. jobs' \in Seq(Docs) /\ callers' \in [Callers -> CallerStates]
    BY <1>6, <1>i, <2>1 DEF Enqueue, TypeOK
  <2> QED
    BY <1>6, <1>v, <2>2 DEF Enqueue, TypeOK, ocrRows, indexRows, indexBounds
<1>7. ASSUME NEW c \in Callers, CallerFault(c) PROVE TypeInv'
  BY <1>7, <1>i, <1>v DEF CallerFault, TypeOK, ocrRows, indexRows
<1>8. ASSUME NEW x \in IndexThreads, Take(x) PROVE TypeInv'
  <2> DEFINE q == [IdleIndexer EXCEPT !.pc = "loaded", !.doc = Head(jobs),
                                      !.seen = index[Head(jobs)]]
  <2>1. jobs \in Seq(Docs) /\ jobs # <<>>
    BY <1>8 DEF Take, TypeOK
  <2>2. Head(jobs) \in Docs /\ Tail(jobs) \in Seq(Docs)
    BY <2>1
  <2>3. q \in IndexerStates /\ q.pc = "loaded"
    BY <2>2, IdleStates DEF TypeOK, IdleIndexer
  <2>4. indexers' \in [IndexThreads -> IndexerStates] /\ WrittenInReading'
    <3>1. indexers' = [indexers EXCEPT ![x] = q]
      BY <1>8 DEF Take
    <3> HIDE DEF q
    <3> QED
      BY <2>3, <3>1, OneIndexerOK
  <2> QED
    BY <1>8, <2>2, <2>4 DEF Take, TypeOK, ocrRows, indexRows, indexBounds
<1>9. ASSUME NEW x \in IndexThreads, Claim(x) PROVE TypeInv'
  <2> DEFINE d == indexers[x].doc
  <2>1. /\ indexers[x] \in IndexerStates
        /\ d \in Docs
        /\ indexers[x].seen \in IndexStatuses
        /\ \A seen \in IndexStatuses :
             [indexers[x] EXCEPT !.pc = "claimed", !.seen = seen] \in IndexerStates
    BY <1>9, LoadedFacts DEF Claim, TypeOK
  <2>2. index' \in [Docs -> IndexStatuses]
    BY <1>9, <2>1 DEF Claim, TypeOK, IndexStatuses
  <2>3. PICK q \in IndexerStates : indexers' = [indexers EXCEPT ![x] = q] /\ q.pc \in {"claimed", "idle"}
    <3>1. CASE indexers' = [indexers EXCEPT ![x] = IdleIndexer]
      BY <1>i, <3>1
    <3>2. CASE indexers' = [indexers EXCEPT ![x].pc = "claimed",
                                            ![x].seen = IF @ = "pending" THEN "indexing" ELSE @]
      <4> DEFINE seen == IF indexers[x].seen = "pending" THEN "indexing" ELSE indexers[x].seen
                 q    == [indexers[x] EXCEPT !.pc = "claimed", !.seen = seen]
      <4>1. seen \in IndexStatuses
        BY <2>1 DEF IndexStatuses
      <4>2. q \in IndexerStates /\ q.pc = "claimed"
        BY <2>1, <4>1 DEF IndexerStates, IdleIndexer
      <4>3. indexers' = [indexers EXCEPT ![x] = q]
        BY <3>2 DEF TypeOK
      <4> HIDE DEF q
      <4> QED
        BY <4>2, <4>3
    <3>3. \/ indexers' = [indexers EXCEPT ![x] = IdleIndexer]
          \/ indexers' = [indexers EXCEPT ![x].pc = "claimed",
                                          ![x].seen = IF @ = "pending" THEN "indexing" ELSE @]
      BY <1>9, Zenon DEF Claim
    <3> QED
      BY <3>1, <3>2, <3>3
  <2>4. indexers' \in [IndexThreads -> IndexerStates] /\ WrittenInReading'
    BY <2>3, OneIndexerOK
  <2> QED
    BY <1>9, <2>2, <2>4 DEF Claim, TypeOK, ocrRows, indexBounds
<1>10. ASSUME NEW x \in IndexThreads, LoadText(x) PROVE TypeInv'
  <2>1. /\ \A t \in Readings : [indexers[x] EXCEPT !.pc = "embedding", !.reading = t] \in IndexerStates
        /\ [indexers[x] EXCEPT !.pc = "failed"] \in IndexerStates
    BY <1>10, LoadedFacts DEF LoadText, TypeOK
  <2>2. indexers[x].doc \in Docs
    BY <1>10, IndexerFacts DEF LoadText, TypeOK
  <2>3. PICK q \in IndexerStates :
          indexers' = [indexers EXCEPT ![x] = q] /\ q.pc \in {"embedding", "failed"}
    <3>1. CASE HasWords(indexers[x].doc)
      <4> DEFINE q == [indexers[x] EXCEPT !.pc = "embedding", !.reading = ocr_pages[indexers[x].doc]]
      <4>1. indexers' = [indexers EXCEPT ![x] = q]
        BY <1>10, <3>1 DEF LoadText, TypeOK
      <4>2. q \in IndexerStates
        BY <2>1, <3>1 DEF HasWords
      <4>3. q.pc = "embedding"
        BY <1>10, <4>2 DEF IndexerStates, IdleIndexer, TypeOK
      <4> QED
        BY <4>1, <4>2, <4>3
    <3>2. CASE ~HasWords(indexers[x].doc)
      <4>1. indexers' = [indexers EXCEPT ![x] = [indexers[x] EXCEPT !.pc = "failed"]]
        BY <1>10, <3>2 DEF LoadText, Advance, TypeOK
      <4>2. [indexers[x] EXCEPT !.pc = "failed"].pc = "failed"
        BY <2>1 DEF IndexerStates, IdleIndexer, TypeOK
      <4> QED
        BY <2>1, <4>1, <4>2
    <3> QED
      BY <3>1, <3>2
  <2>4. indexers' \in [IndexThreads -> IndexerStates] /\ WrittenInReading'
    BY <2>3, OneIndexerOK
  <2> QED
    BY <1>10, <2>4 DEF LoadText, TypeOK, ocrRows, indexRows, indexBounds
<1>11. ASSUME NEW x \in IndexThreads, Embed(x) PROVE TypeInv'
  <2>1. PICK stage \in {"deleting", "failed"} : Advance(x, stage)
    BY <1>11 DEF Embed
  <2>2. [indexers[x] EXCEPT !.pc = stage] \in IndexerStates
    BY <1>11, EmbeddingFacts DEF Embed, TypeOK
  <2>3. indexers' \in [IndexThreads -> IndexerStates] /\ WrittenInReading'
    BY <2>1, <2>2, StageOK
  <2> QED
    BY <1>11, <2>3 DEF Embed, TypeOK, ocrRows, indexRows, indexBounds
<1>12. ASSUME NEW x \in IndexThreads, DeletePoints(x) PROVE TypeInv'
  <2>1. PICK stage \in {"upserting", "failed"} : Advance(x, stage)
    BY <1>12 DEF DeletePoints
  <2>2. /\ indexers[x] \in IndexerStates
        /\ [indexers[x] EXCEPT !.pc = stage] \in IndexerStates
        /\ indexers[x].written = 0 /\ indexers[x].reading \in Readings
    BY <1>12, EmbeddingFacts DEF DeletePoints, TypeOK
  <2>3. 0 <= KeptChunks(indexers[x].reading)
    BY <2>2, ChunkFacts
  <2>4. indexers' \in [IndexThreads -> IndexerStates] /\ WrittenInReading'
    BY <2>1, <2>2, <2>3, StageOK
  <2>5. points' \in [Docs -> SUBSET AllPoints]
    BY <1>12 DEF DeletePoints, TypeOK
  <2> QED
    BY <1>12, <2>4, <2>5 DEF DeletePoints, TypeOK, ocrRows, indexRows, indexBounds
<1>13. ASSUME NEW x \in IndexThreads, UpsertBatch(x) PROVE TypeInv'
  <2> DEFINE t    == indexers[x].reading
             done == indexers[x].written
             upto == Smaller(done + BatchSize, KeptChunks(t))
             d    == indexers[x].doc
  <2>1. /\ indexers[x] \in IndexerStates
        /\ d \in Docs /\ t \in Readings /\ done \in 0..MaxChunks
        /\ \A n \in 0..MaxChunks, stage \in {"upserting", "indexed"} :
             [indexers[x] EXCEPT !.written = n, !.pc = stage] \in IndexerStates
        /\ [indexers[x] EXCEPT !.pc = "failed"] \in IndexerStates
    BY <1>13, UpsertingFacts DEF UpsertBatch, TypeOK
  <2>2. done \in Nat /\ done <= KeptChunks(t)
    <3>1. indexers[x].pc = "upserting"
      BY <1>13 DEF UpsertBatch
    <3>2. done <= KeptChunks(t)
      BY <3>1 DEF WrittenInReading
    <3>3. done \in 0..MaxChunks
      BY <2>1
    <3> HIDE DEF done, t
    <3> QED
      BY <3>2, <3>3, IndexConstants DEF IndexConstants
  <2>3. /\ upto \in 0..MaxChunks /\ upto <= KeptChunks(t)
        /\ {Point(t, n) : n \in done + 1..upto} \subseteq AllPoints
    BY <2>1, <2>2, BatchFacts
  <2>4. CASE Advance(x, "failed") /\ UNCHANGED points
    <3>1. indexers' \in [IndexThreads -> IndexerStates] /\ WrittenInReading'
      BY <2>1, <2>4, StageOK
    <3> QED
      BY <1>13, <2>4, <3>1 DEF UpsertBatch, TypeOK, ocrRows, indexRows, indexBounds
  <2>6. CASE /\ points' = [points EXCEPT ![d] = Upserted(@, {Point(t, n) : n \in done + 1..upto})]
             /\ Advance(x, "failed")
    <3>1. indexers' \in [IndexThreads -> IndexerStates] /\ WrittenInReading'
      BY <2>1, <2>6, StageOK
    <3>2. points' \in [Docs -> SUBSET AllPoints]
      BY <2>1, <2>3, <2>6 DEF TypeOK, Upserted
    <3> QED
      BY <1>13, <3>1, <3>2 DEF UpsertBatch, TypeOK, ocrRows, indexRows, indexBounds
  <2>5. CASE /\ points' = [points EXCEPT ![d] = Upserted(@, {Point(t, n) : n \in done + 1..upto})]
             /\ indexers' = [indexers EXCEPT
                               ![x].written = upto,
                               ![x].pc = IF upto = KeptChunks(t) THEN "indexed" ELSE @]
    <3>1. PICK stage \in {"upserting", "indexed"} :
            stage = IF upto = KeptChunks(t) THEN "indexed" ELSE indexers[x].pc
      BY <1>13 DEF UpsertBatch
    <3> DEFINE q == [indexers[x] EXCEPT !.written = upto, !.pc = stage]
    <3>2. indexers' = [indexers EXCEPT ![x] = q]
      BY <2>5, <3>1 DEF TypeOK
    <3>3. q \in IndexerStates
      BY <2>1, <2>3, <3>1
    <3>4. q.written = upto /\ q.reading = t
      BY <1>13, <2>1 DEF IndexerStates, IdleIndexer, UpsertBatch
    <3>5. indexers' \in [IndexThreads -> IndexerStates] /\ WrittenInReading'
      <4> HIDE DEF q, upto, t
      <4> QED
        BY <2>3, <3>2, <3>3, <3>4, OneIndexerOK
    <3>6. points' \in [Docs -> SUBSET AllPoints]
      BY <2>1, <2>3, <2>5 DEF TypeOK, Upserted
    <3> QED
      BY <1>13, <3>5, <3>6 DEF UpsertBatch, TypeOK, ocrRows, indexRows, indexBounds
  <2> QED
    BY <1>13, <2>4, <2>5, <2>6 DEF UpsertBatch
<1>14. ASSUME NEW x \in IndexThreads, Finish(x) PROVE TypeInv'
  <2>1. index' \in [Docs -> IndexStatuses]
    BY <1>14 DEF Finish, TypeOK, IndexStatuses
  <2>2. indexers' \in [IndexThreads -> IndexerStates] /\ WrittenInReading'
    BY <1>14, <1>i, OneIndexerOK DEF Finish
  <2> QED
    BY <1>14, <2>1, <2>2 DEF Finish, TypeOK, ocrRows, indexBounds
<1>15. ASSUME NEW x \in IndexThreads, Refuse(x) \/ IndexFault(x) PROVE TypeInv'
  <2>1. indexers' \in [IndexThreads -> IndexerStates] /\ WrittenInReading'
    BY <1>15, <1>i, OneIndexerOK DEF Refuse, IndexFault
  <2> QED
    BY <1>15, <2>1 DEF Refuse, IndexFault, TypeOK, ocrRows, indexRows, indexBounds
<1>16. CASE StartIndexWorkers
  <2> DEFINE n == Smaller(RequeueLimit, Cardinality(Pending))
  <2>1. n \in Nat
    BY CountsAreNat, IndexConstants DEF Pending, Smaller, IndexConstants
  <2>2. PICK batch \in [1..n -> Pending] : jobs' = jobs \o batch
    BY <1>16 DEF StartIndexWorkers
  <2>3. batch \in [1..n -> Docs]
    BY DEF Pending
  <2>4. batch \in Seq(Docs)
    BY <2>1, <2>3
  <2>5. jobs' \in Seq(Docs)
    <3> HIDE DEF n
    <3> QED
      BY <2>2, <2>4 DEF TypeOK
  <2> QED
    BY <1>16, <1>v, <2>5 DEF StartIndexWorkers, TypeOK, ocrRows, indexRows, indexBounds
<1>17. CASE Boot \/ StartIndexFault \/ StopIndexWorkers \/ Drained
  BY <1>17, <1>v DEF Boot, StartIndexFault, StopIndexWorkers, Drained, TypeOK, ocrRows, indexRows, indexBounds
<1>18. CASE Crash
  <2>1. indexers' \in [IndexThreads -> IndexerStates] /\ WrittenInReading'
    BY <1>18, <1>i DEF Crash, WrittenInReading
  <2>2. crashes' \in Nat /\ callers' \in [Callers -> CallerStates]
    BY <1>18, <1>i DEF Crash, TypeOK
  <2> QED
    BY <1>18, <2>1, <2>2 DEF Crash, TypeOK, ocrRows, indexRows, indexBounds
<1>19. CASE UNCHANGED vars
  BY <1>19, <1>v DEF vars, TypeOK, ocrRows, indexRows, indexBounds
<1> QED
  BY <1>1, <1>2, <1>3, <1>4, <1>5, <1>6, <1>7, <1>8, <1>9, <1>10, <1>11, <1>12,
     <1>13, <1>14, <1>15, <1>16, <1>17, <1>18, <1>19
  DEF Next, Callers

(* Every variable keeps its type, whatever extraction does: a busy caller  *)
(* or thread names a version, a thread from "embedding" on has a reading,  *)
(* and every point is one of a kept chunk of some reading (process,        *)
(* _persist, requeue_pending).                                             *)
THEOREM TypeCorrect == Spec => []TypeOK
<1>1. Init => TypeInv
  BY InitTypeOK DEF TypeInv, Init, WrittenInReading, IdleIndexer
<1>2. TypeInv /\ [Next]_vars => TypeInv'
  BY StepTypeInv
<1>3. TypeInv => TypeOK
  BY DEF TypeInv
<1> QED
  BY <1>1, <1>2, <1>3, PTL DEF Spec

-----------------------------------------------------------------------------
(* Serial re-indexes: the inductive invariant *)

(* The conditional UPDATE of claim admits one thread to a run. *)
OneThreadPerRun ==
    \A d \in Serial : \A x, y \in IndexThreads : Holds(x, d) /\ Holds(y, d) => x = y

(* The row of a run that a thread holds says so. *)
HeldIsIndexing ==
    \A d \in Serial : \A x \in IndexThreads : Holds(x, d) => index[d] = "indexing"

(* A request between its check and its write finds the row as it checked   *)
(* it, and is the only one there.                                          *)
ReindexOwnsRow ==
    \A r \in Requests : callers[r].pc = "reindexing" /\ callers[r].doc \in Serial =>
        /\ index[callers[r].doc] \in {"indexed", "failed"}
        /\ \A q \in Requests : callers[q] = callers[r] => q = r

(* A thread that upserts finds the points it has written and no others.    *)
PointsOfThread ==
    \A x \in IndexThreads : indexers[x].doc \in Serial =>
        /\ indexers[x].pc = "upserting" =>
             points[indexers[x].doc] = Prefix(indexers[x].reading, indexers[x].written)
        /\ indexers[x].pc = "indexed" =>
             points[indexers[x].doc] = PointsOf(indexers[x].reading)

IndexInv ==
    /\ TypeInv
    /\ OneThreadPerRun
    /\ HeldIsIndexing
    /\ ReindexOwnsRow
    /\ PointsOfThread
    /\ OneReadingPerVersion
    /\ IndexedIsWhole

(* At the start there is no thread, no request and no point.               *)
LEMMA InitIndexInv == Init => IndexInv
<1> SUFFICES ASSUME Init PROVE IndexInv
  OBVIOUS
<1>1. \A x \in IndexThreads : indexers[x].pc = "idle"
  BY DEF Init, IdleIndexer
<1>2. \A r \in Requests : callers[r].pc = "idle"
  BY DEF Init, IdleCaller, Callers
<1>3. TypeInv
  BY <1>1, InitTypeOK DEF TypeInv, WrittenInReading
<1>4. OneThreadPerRun /\ HeldIsIndexing /\ PointsOfThread
  BY <1>1 DEF OneThreadPerRun, HeldIsIndexing, PointsOfThread, Holds
<1>5. ReindexOwnsRow
  BY <1>2 DEF ReindexOwnsRow
<1>6. OneReadingPerVersion /\ IndexedIsWhole
  BY DEF Init, OneReadingPerVersion, IndexedIsWhole, Serial
<1> QED
  BY <1>3, <1>4, <1>5, <1>6 DEF IndexInv

-----------------------------------------------------------------------------
(* Who owns a run *)

(* A step that leaves rows and callers alone and gives no thread a run.    *)
LEMMA NoNewHolder ==
    ASSUME IndexInv, UNCHANGED <<index, callers>>,
           \A x \in IndexThreads, d \in Serial : Holds(x, d)' => Holds(x, d)
    PROVE  OneThreadPerRun' /\ HeldIsIndexing' /\ ReindexOwnsRow'
BY DEF IndexInv, OneThreadPerRun, HeldIsIndexing, ReindexOwnsRow, Serial

(* A thread that lets go of its job holds nothing, and the others hold     *)
(* what they held.                                                         *)
LEMMA ReleasedHolds ==
    ASSUME IndexInv, NEW x \in IndexThreads, indexers' = [indexers EXCEPT ![x] = IdleIndexer]
    PROVE  \A y \in IndexThreads, d \in Serial : Holds(y, d)' <=> Holds(y, d) /\ y # x
BY DEF IndexInv, TypeInv, TypeOK, Holds, IdleIndexer

(* A thread at work on a run keeps its version, and the others are not     *)
(* concerned.                                                              *)
LEMMA JobKept ==
    ASSUME TypeOK, NEW x \in IndexThreads,
           LoadText(x) \/ Embed(x) \/ DeletePoints(x) \/ UpsertBatch(x)
    PROVE  /\ indexers'[x].doc = indexers[x].doc
           /\ \A y \in IndexThreads : y # x => indexers'[y] = indexers[y]
<1>1. DOMAIN indexers = IndexThreads /\ indexers[x] \in IndexerStates
  BY DEF TypeOK
<1>2. PICK q : indexers' = [indexers EXCEPT ![x] = q] /\ q.doc = indexers[x].doc
  <2>1. ASSUME NEW stage, Advance(x, stage)
        PROVE  \E q : indexers' = [indexers EXCEPT ![x] = q] /\ q.doc = indexers[x].doc
    <3> DEFINE q == [indexers[x] EXCEPT !.pc = stage]
    <3>1. indexers' = [indexers EXCEPT ![x] = q]
      BY <1>1, <2>1 DEF Advance
    <3>2. q.doc = indexers[x].doc
      BY <1>1, SameJob
    <3> HIDE DEF q
    <3> QED
      BY <3>1, <3>2
  <2>2. ASSUME NEW t, indexers' = [indexers EXCEPT ![x].pc = "embedding", ![x].reading = t]
        PROVE  \E q : indexers' = [indexers EXCEPT ![x] = q] /\ q.doc = indexers[x].doc
    <3> DEFINE q == [indexers[x] EXCEPT !.pc = "embedding", !.reading = t]
    <3>1. indexers' = [indexers EXCEPT ![x] = q]
      BY <1>1, <2>2
    <3>2. q.doc = indexers[x].doc
      BY <1>1, SameJob
    <3> HIDE DEF q
    <3> QED
      BY <3>1, <3>2
  <2>3. ASSUME NEW n, NEW k, indexers[x].pc = "upserting",
               indexers' = [indexers EXCEPT ![x].written = n,
                                            ![x].pc = IF n = k THEN "indexed" ELSE @]
        PROVE  \E q : indexers' = [indexers EXCEPT ![x] = q] /\ q.doc = indexers[x].doc
    <3> DEFINE stage == IF n = k THEN "indexed" ELSE indexers[x].pc
               q     == [indexers[x] EXCEPT !.written = n, !.pc = stage]
    <3>1. indexers' = [indexers EXCEPT ![x] = q]
      BY <1>1, <2>3
    <3>2. q.doc = indexers[x].doc
      <4> HIDE DEF stage
      <4> QED
        BY <1>1, SameJob
    <3> HIDE DEF q
    <3> QED
      BY <3>1, <3>2
  <2>4. CASE LoadText(x)
    BY <2>1, <2>2, <2>4 DEF LoadText
  <2>5. CASE Embed(x) \/ DeletePoints(x)
    BY <2>1, <2>5 DEF Embed, DeletePoints
  <2>6. CASE UpsertBatch(x)
    BY <2>1, <2>3, <2>6 DEF UpsertBatch
  <2> QED
    BY <2>4, <2>5, <2>6
<1> QED
  BY <1>1, <1>2

(* A busy thread and a busy caller name a version. *)
LEMMA BusyDocs ==
    ASSUME IndexInv
    PROVE  /\ \A x \in IndexThreads : indexers[x].pc # "idle" => indexers[x].doc \in Docs
           /\ \A c \in Callers : callers[c].pc # "idle" => callers[c].doc \in Docs
BY IndexerFacts, CallerFacts DEF IndexInv, TypeInv, TypeOK

(* A row that is written while no thread holds it and no request is about  *)
(* to write it disturbs nobody: every other holder and request keeps its   *)
(* own row.                                                                *)
LEMMA WrittenRow ==
    ASSUME IndexInv, NEW d \in Docs, NEW s, index' = [index EXCEPT ![d] = s],
           d \in Serial =>
             /\ \A x \in IndexThreads : Holds(x, d)' => s = "indexing"
             /\ \A r \in Requests : callers'[r].pc = "reindexing" => callers'[r].doc # d,
           \A r \in Requests : callers'[r].pc = "reindexing" => callers'[r] = callers[r],
           \A x \in IndexThreads, e \in Serial : e # d => (Holds(x, e)' => Holds(x, e))
    PROVE  HeldIsIndexing' /\ ReindexOwnsRow'
<1>1. \A e \in Docs : index'[e] = IF e = d THEN s ELSE index[e]
  BY DEF IndexInv, TypeInv, TypeOK
<1>2. HeldIsIndexing'
  BY <1>1 DEF IndexInv, HeldIsIndexing, Serial
<1>3. ReindexOwnsRow'
  BY <1>1 DEF IndexInv, ReindexOwnsRow, Serial
<1> QED
  BY <1>2, <1>3

(* Every step keeps the ownership of runs. CommitReindex may write a row   *)
(* by id because ReindexOwnsRow says that it is terminal, hence held by    *)
(* nobody; Claim admits one thread because HeldIsIndexing says that a      *)
(* pending row has no holder.                                              *)
LEMMA StepOwnership ==
    ASSUME IndexInv, [Next]_vars
    PROVE  OneThreadPerRun' /\ HeldIsIndexing' /\ ReindexOwnsRow'
<1> DEFINE Goal == OneThreadPerRun' /\ HeldIsIndexing' /\ ReindexOwnsRow'
<1> USE DEF IndexInv
<1>t. TypeOK
  BY DEF TypeInv
<1>r. Requests \subseteq Callers /\ Requests \cap OcrThreads = {}
  BY IndexConstants DEF Callers, IndexConstants
<1>1. ASSUME NEW c \in OcrThreads, NEW d \in Docs, NEW t \in Readings, OcrCompletes(c, d, t)
      PROVE  Goal
  <2>1. \A r \in Requests : callers'[r] = callers[r]
    BY <1>1, <1>t, <1>r DEF OcrCompletes, TypeOK
  <2>2. UNCHANGED <<index, indexers>>
    BY <1>1 DEF OcrCompletes, indexRows
  <2> QED
    BY <2>1, <2>2 DEF OneThreadPerRun, HeldIsIndexing, ReindexOwnsRow, Holds
<1>2. ASSUME NEW d \in Docs, OcrMoves(d) PROVE Goal
  BY <1>2, NoNewHolder DEF OcrMoves, indexRows, Holds
<1>3. ASSUME NEW c \in OcrThreads, Schedule(c) PROVE Goal
  <2>1. (\A r \in Requests : callers'[r] = callers[r]) /\ UNCHANGED indexers
    BY <1>3, <1>t, <1>r DEF Schedule, TypeOK
  <2>2. CASE InsertIndex(callers[c].doc)
    <3>1. callers[c].doc \in Docs
      BY <1>3, BusyDocs DEF Schedule, Callers
    <3>2. index[callers[c].doc] = "none" /\ index' = [index EXCEPT ![callers[c].doc] = "pending"]
      BY <2>2 DEF InsertIndex
    <3>3. HeldIsIndexing' /\ ReindexOwnsRow'
      BY <2>1, <3>1, <3>2, WrittenRow DEF HeldIsIndexing, ReindexOwnsRow, Holds
    <3> QED
      BY <2>1, <3>3 DEF OneThreadPerRun, Holds
  <2>3. CASE UNCHANGED indexRows
    BY <2>1, <2>3 DEF OneThreadPerRun, HeldIsIndexing, ReindexOwnsRow, Holds, indexRows
  <2> QED
    BY <1>3, <2>2, <2>3 DEF Schedule
<1>4. ASSUME NEW r \in Requests, NEW d \in Docs, Admitted(d), StartReindex(r, d) PROVE Goal
  <2>1. CASE InsertIndex(d) /\ callers' = [callers EXCEPT ![r] = [pc |-> "queueing", doc |-> d]]
    <3>1. UNCHANGED indexers
      BY <1>4 DEF StartReindex
    <3>2. index[d] = "none" /\ index' = [index EXCEPT ![d] = "pending"]
      BY <2>1 DEF InsertIndex
    <3>3. \A q \in Requests : callers'[q].pc = "reindexing" => callers'[q] = callers[q]
      BY <2>1, <1>t, <1>r DEF TypeOK
    <3>4. HeldIsIndexing' /\ ReindexOwnsRow'
      BY <3>1, <3>2, <3>3, WrittenRow DEF HeldIsIndexing, ReindexOwnsRow, Holds
    <3> QED
      BY <3>1, <3>4 DEF OneThreadPerRun, Holds
  <2>2. CASE /\ CanReindex(index[d])
             /\ callers' = [callers EXCEPT ![r] = [pc |-> "reindexing", doc |-> d]]
             /\ UNCHANGED indexRows
    <3>1. index[d] \in {"indexed", "failed"}
      BY <2>2, <1>t, StatusTable DEF TypeOK
    <3>2. d \in Serial =>
            \A q \in Requests : callers[q].pc = "reindexing" => callers[q].doc # d
      <4>1. \A q \in Requests : callers[q].pc = "reindexing" /\ callers[q].doc = d
                => callers[q] = [pc |-> "reindexing", doc |-> d]
        BY <1>t, <1>r, CallerFacts DEF TypeOK
      <4> QED
        BY <1>4, <4>1 DEF Admitted, Serial
    <3>3. ReindexOwnsRow'
      <4> DEFINE new == [pc |-> "reindexing", doc |-> d]
      <4>1. UNCHANGED index /\ new.pc = "reindexing" /\ new.doc = d
        BY <2>2 DEF indexRows
      <4>2. \A q \in Requests : callers'[q] = IF q = r THEN new ELSE callers[q]
        BY <2>2, <1>t, <1>r DEF TypeOK
      <4>3. d \in Serial => \A q \in Requests : callers'[q] = new => q = r
        BY <3>2, <4>1, <4>2
      <4> HIDE DEF new
      <4> SUFFICES ASSUME NEW p \in Requests, callers'[p].pc = "reindexing",
                          callers'[p].doc \in Serial
                   PROVE  /\ index[callers'[p].doc] \in {"indexed", "failed"}
                          /\ \A q \in Requests : callers'[q] = callers'[p] => q = p
        BY <4>1 DEF ReindexOwnsRow
      <4>4. CASE p = r
        BY <3>1, <4>1, <4>2, <4>3, <4>4
      <4>5. CASE p # r
        BY <3>2, <4>1, <4>2, <4>5 DEF ReindexOwnsRow
      <4> QED
        BY <4>4, <4>5
    <3> QED
      BY <1>4, <2>2, <3>3 DEF StartReindex, OneThreadPerRun, HeldIsIndexing, Holds, indexRows
  <2> QED
    BY <1>4, <2>1, <2>2 DEF StartReindex
<1>5. ASSUME NEW r \in Requests, CommitReindex(r) PROVE Goal
  <2>d. PICK d \in Docs : d = callers[r].doc
    BY <1>5, <1>r, BusyDocs DEF CommitReindex
  <2>1. index' = [index EXCEPT ![d] = "pending"] /\ UNCHANGED indexers
    BY <1>5, <2>d DEF CommitReindex
  <2>2. \A q \in Requests : callers'[q].pc = "reindexing" => callers'[q] = callers[q] /\ q # r
    BY <1>5, <1>t, <1>r DEF CommitReindex, TypeOK
  <2>3. d \in Serial => /\ index[d] \in {"indexed", "failed"}
                        /\ \A q \in Requests : callers[q] = callers[r] => q = r
    BY <1>5, <2>d DEF CommitReindex, ReindexOwnsRow
  <2>4. d \in Serial => \A x \in IndexThreads : ~Holds(x, d)'
    BY <2>1, <2>3 DEF HeldIsIndexing, Holds
  <2>5. d \in Serial => \A q \in Requests : callers'[q].pc = "reindexing" => callers'[q].doc # d
    <3> SUFFICES ASSUME d \in Serial, NEW q \in Requests, callers'[q].pc = "reindexing",
                        callers'[q].doc = d
                 PROVE  FALSE
      OBVIOUS
    <3>1. callers[q].pc = "reindexing" /\ callers[q].doc = d /\ q # r
      BY <2>2
    <3>2. callers[q] = callers[r]
      <4>1. \A c \in {q, r} : callers[c] = [pc |-> callers[c].pc, doc |-> callers[c].doc]
        BY <3>1, <1>5, <1>t, <1>r, CallerFacts DEF CommitReindex, TypeOK
      <4> QED
        BY <1>5, <2>d, <3>1, <4>1 DEF CommitReindex
    <3> QED
      BY <2>3, <3>1, <3>2
  <2>6. HeldIsIndexing' /\ ReindexOwnsRow'
    <3>1. \A x \in IndexThreads, e \in Serial : Holds(x, e)' => Holds(x, e)
      BY <2>1 DEF Holds
    <3> QED
      BY <2>1, <2>2, <2>4, <2>5, <3>1, WrittenRow
  <2> QED
    BY <2>1, <2>6 DEF OneThreadPerRun, Holds
<1>6. ASSUME NEW c \in Callers, Enqueue(c) \/ CallerFault(c) PROVE Goal
  <2>1. \A r \in Requests : callers'[r].pc = "reindexing" => callers'[r] = callers[r]
    BY <1>6, <1>t, <1>r DEF Enqueue, CallerFault, IdleCaller, TypeOK
  <2>2. UNCHANGED <<index, indexers>>
    BY <1>6 DEF Enqueue, CallerFault, indexRows
  <2> QED
    BY <2>1, <2>2 DEF OneThreadPerRun, HeldIsIndexing, ReindexOwnsRow, Holds
<1>7. ASSUME NEW x \in IndexThreads, Take(x) PROVE Goal
  <2>1. indexers'[x].pc = "loaded" /\ \A y \in IndexThreads : y # x => indexers'[y] = indexers[y]
    BY <1>7, <1>t DEF Take, TypeOK, IdleIndexer
  <2> QED
    BY <1>7, <2>1, NoNewHolder DEF Take, Holds, indexRows
<1>8. ASSUME NEW x \in IndexThreads, Claim(x) PROVE Goal
  <2> DEFINE d == indexers[x].doc
  <2>1. CASE indexers' = [indexers EXCEPT ![x] = IdleIndexer] /\ UNCHANGED <<index, callers>>
    BY <2>1, ReleasedHolds, NoNewHolder
  <2>2. CASE /\ index[d] = "pending"
             /\ index' = [index EXCEPT ![d] = "indexing"]
             /\ indexers' = [indexers EXCEPT
                               ![x].pc = "claimed",
                               ![x].seen = IF @ = "pending" THEN "indexing" ELSE @]
    <3>1. d \in Docs /\ UNCHANGED callers
      BY <1>8, BusyDocs DEF Claim
    <3>2. indexers'[x].doc = d /\ \A y \in IndexThreads : y # x => indexers'[y] = indexers[y]
      BY <2>2, <1>t DEF TypeOK
    <3>3. \A y \in IndexThreads, e \in Serial : Holds(y, e)' => Holds(y, e) \/ (y = x /\ e = d)
      BY <3>2 DEF Holds
    <3>4. d \in Serial => \A y \in IndexThreads : ~Holds(y, d)
      BY <2>2 DEF HeldIsIndexing
    <3>5. OneThreadPerRun'
      <4> HIDE DEF d
      <4> QED
        BY <3>3, <3>4 DEF OneThreadPerRun, Serial
    <3>6. d \in Serial => \A r \in Requests : callers[r].pc = "reindexing" => callers[r].doc # d
      BY <2>2 DEF ReindexOwnsRow
    <3>7. HeldIsIndexing' /\ ReindexOwnsRow'
      <4> HIDE DEF d
      <4> QED
        BY <2>2, <3>1, <3>3, <3>6, WrittenRow
    <3> QED
      BY <3>5, <3>7
  <2> QED
    BY <1>8, <2>1, <2>2, Zenon DEF Claim
<1>9. ASSUME NEW x \in IndexThreads,
             LoadText(x) \/ Embed(x) \/ DeletePoints(x) \/ UpsertBatch(x)
      PROVE  Goal
  <2>1. /\ indexers'[x].doc = indexers[x].doc
        /\ \A y \in IndexThreads : y # x => indexers'[y] = indexers[y]
    BY <1>9, <1>t, JobKept
  <2>2. indexers[x].pc \notin {"idle", "loaded"} /\ UNCHANGED <<index, callers>>
    BY <1>9 DEF LoadText, Embed, DeletePoints, UpsertBatch, indexRows
  <2> QED
    BY <2>1, <2>2, NoNewHolder DEF Holds
<1>10. ASSUME NEW x \in IndexThreads, Finish(x) PROVE Goal
  <2>d. PICK d \in Docs, s \in {"indexed", "failed"} : d = indexers[x].doc /\ s = indexers[x].pc
    BY <1>10, BusyDocs DEF Finish
  <2>1. /\ index' = [index EXCEPT ![d] = s]
        /\ UNCHANGED callers
        /\ d \in Serial => Holds(x, d) /\ index[d] = "indexing"
    BY <1>10, <2>d DEF Finish, HeldIsIndexing, Holds
  <2>2. \A y \in IndexThreads, e \in Serial : Holds(y, e)' <=> Holds(y, e) /\ y # x
    BY <1>10, ReleasedHolds DEF Finish
  <2>3. d \in Serial => /\ \A y \in IndexThreads : ~Holds(y, d)'
                        /\ \A r \in Requests : callers[r].pc = "reindexing" => callers[r].doc # d
    BY <2>1, <2>2 DEF OneThreadPerRun, ReindexOwnsRow
  <2>4. HeldIsIndexing' /\ ReindexOwnsRow'
    <3> QED
      BY <2>1, <2>2, <2>3, WrittenRow
  <2> QED
    BY <2>2, <2>4 DEF OneThreadPerRun, Serial
<1>11. ASSUME NEW x \in IndexThreads, Refuse(x) \/ IndexFault(x) PROVE Goal
  BY <1>11, ReleasedHolds, NoNewHolder DEF Refuse, IndexFault, indexRows
<1>12. CASE Boot \/ StartIndexWorkers \/ StartIndexFault \/ StopIndexWorkers \/ Drained
            \/ UNCHANGED vars
  BY <1>12, NoNewHolder
  DEF Boot, StartIndexWorkers, StartIndexFault, StopIndexWorkers, Drained, vars, indexRows, Holds
<1>13. CASE Crash
  <2>1. (\A y \in IndexThreads, e \in Serial : ~Holds(y, e)') /\ \A r \in Requests : callers'[r].pc = "idle"
    BY <1>13, <1>r DEF Crash, Holds, IdleIndexer, IdleCaller
  <2> QED
    BY <2>1 DEF OneThreadPerRun, HeldIsIndexing, ReindexOwnsRow, Serial
<1> QED
  BY <1>1, <1>2, <1>3, <1>4, <1>5, <1>6, <1>7, <1>8, <1>9, <1>10, <1>11, <1>12, <1>13
  DEF Next

-----------------------------------------------------------------------------
(* What is in the vector database *)

(* A step that writes no point disturbs nothing, unless it lets a thread   *)
(* write or marks a version as indexed.                                    *)
LEMMA PointsUnchanged ==
    ASSUME IndexInv, UNCHANGED points,
           \A x \in IndexThreads : indexers'[x].pc \in {"upserting", "indexed"}
              => indexers'[x] = indexers[x],
           \A d \in Serial : index'[d] = "indexed" => index[d] = "indexed"
    PROVE  PointsOfThread' /\ OneReadingPerVersion' /\ IndexedIsWhole'
BY DEF IndexInv, PointsOfThread, OneReadingPerVersion, IndexedIsWhole

(* A thread that writes the points of its version leaves the other threads *)
(* the points they know, and no version that says "indexed" is concerned.  *)
LEMMA PointsWritten ==
    ASSUME IndexInv, NEW x \in IndexThreads, NEW t \in Readings, NEW n \in Nat,
           n <= KeptChunks(t),
           indexers[x].pc \in {"deleting", "upserting"},
           UNCHANGED index,
           indexers'[x].doc = indexers[x].doc,
           \A y \in IndexThreads : y # x => indexers'[y] = indexers[y],
           indexers'[x].reading = t,
           indexers'[x].pc = "upserting" => indexers'[x].written = n,
           indexers'[x].pc = "indexed" => n = KeptChunks(t),
           indexers[x].doc \in Serial =>
             points' = [points EXCEPT ![indexers[x].doc] = Prefix(t, n)],
           indexers[x].doc \notin Serial =>
             \A e \in Serial : points'[e] = points[e]
    PROVE  PointsOfThread' /\ OneReadingPerVersion' /\ IndexedIsWhole'
<1>d. PICK d \in Docs : d = indexers[x].doc
  BY BusyDocs
<1>1. \A e \in Serial : points'[e] = IF e = d THEN Prefix(t, n) ELSE points[e]
  BY <1>d DEF IndexInv, TypeInv, TypeOK, Serial
<1>2. /\ \A p, q \in Prefix(t, n) : p.text = q.text
      /\ Prefix(t, KeptChunks(t)) = PointsOf(t)
  BY PrefixFacts
<1>3. d \in Serial => /\ index[d] = "indexing"
                      /\ \A y \in IndexThreads : y # x => ~Holds(y, d)
  BY <1>d DEF IndexInv, HeldIsIndexing, OneThreadPerRun, Holds
<1>4. OneReadingPerVersion'
  BY <1>1, <1>2 DEF IndexInv, OneReadingPerVersion
<1>5. IndexedIsWhole'
  BY <1>1, <1>3 DEF IndexInv, IndexedIsWhole
<1>6. ASSUME NEW y \in IndexThreads, indexers'[y].doc \in Serial
      PROVE  /\ indexers'[y].pc = "upserting" =>
                  points'[indexers'[y].doc] = Prefix(indexers'[y].reading, indexers'[y].written)
             /\ indexers'[y].pc = "indexed" =>
                  points'[indexers'[y].doc] = PointsOf(indexers'[y].reading)
  <2>1. CASE y = x
    BY <1>d, <1>1, <1>2, <1>6, <2>1
  <2>2. CASE y # x
    <3>1. indexers'[y] = indexers[y]
      BY <2>2
    <3>2. indexers[y].pc \in {"upserting", "indexed"} => indexers[y].doc # d
      BY <1>3, <1>6, <2>2, <3>1 DEF Holds
    <3> QED
      BY <1>1, <1>6, <3>1, <3>2 DEF IndexInv, PointsOfThread
  <2> QED
    BY <2>1, <2>2
<1>7. PointsOfThread'
  BY <1>6 DEF PointsOfThread
<1> QED
  BY <1>4, <1>5, <1>7

(* A caller's write never makes a version indexed. *)
LEMMA CallerPoints ==
    ASSUME IndexInv, UNCHANGED <<points, indexers>>, NEW d \in Docs,
           index' = index \/ index' = [index EXCEPT ![d] = "pending"]
    PROVE  PointsOfThread' /\ OneReadingPerVersion' /\ IndexedIsWhole'
<1>1. \A e \in Serial : index'[e] = "indexed" => index[e] = "indexed"
  BY DEF IndexInv, TypeInv, TypeOK, Serial
<1> QED
  BY <1>1, PointsUnchanged

(* A thread that lets go of its job writes nothing. *)
LEMMA ReleasedPoints ==
    ASSUME IndexInv, UNCHANGED <<points, index>>, NEW x \in IndexThreads,
           indexers' = [indexers EXCEPT ![x] = IdleIndexer]
    PROVE  PointsOfThread' /\ OneReadingPerVersion' /\ IndexedIsWhole'
<1>1. \A y \in IndexThreads : indexers'[y].pc \in {"upserting", "indexed"}
         => indexers'[y] = indexers[y]
  BY DEF IndexInv, TypeInv, TypeOK, IdleIndexer
<1> QED
  BY <1>1, PointsUnchanged

(* One that only advances, to a stage before the first point or to failure.*)
LEMMA AdvancedPoints ==
    ASSUME IndexInv, UNCHANGED <<points, index>>, NEW x \in IndexThreads,
           NEW stage \in {"claimed", "embedding", "deleting", "failed"},
           indexers'[x].pc = stage,
           \A y \in IndexThreads : y # x => indexers'[y] = indexers[y]
    PROVE  PointsOfThread' /\ OneReadingPerVersion' /\ IndexedIsWhole'
<1>1. \A y \in IndexThreads : indexers'[y].pc \in {"upserting", "indexed"}
         => indexers'[y] = indexers[y]
  OBVIOUS
<1> QED
  BY <1>1, PointsUnchanged

(* A thread that deletes or writes points and then fails, the answer of the *)
(* database having been lost, leaves points of one reading.                *)
LEMMA LostAnswer ==
    ASSUME IndexInv, UNCHANGED index, NEW x \in IndexThreads,
           indexers[x].pc \in {"deleting", "upserting"}, indexers'[x].pc = "failed",
           \A y \in IndexThreads : y # x => indexers'[y] = indexers[y],
           NEW t \in Readings, NEW n \in Nat,
           indexers[x].doc \in Serial => points' = [points EXCEPT ![indexers[x].doc] = Prefix(t, n)],
           indexers[x].doc \notin Serial => \A e \in Serial : points'[e] = points[e]
    PROVE  PointsOfThread' /\ OneReadingPerVersion' /\ IndexedIsWhole'
<1> DEFINE d == indexers[x].doc
<1>t. TypeOK
  BY DEF IndexInv, TypeInv
<1>1. d \in Docs
  BY BusyDocs DEF IndexInv
<1>2. \A e \in Serial : points'[e] = IF e = d THEN Prefix(t, n) ELSE points[e]
  BY <1>t, <1>1 DEF TypeOK, Serial
<1>8. \A p, q \in Prefix(t, n) : p.text = q.text
  BY DEF Prefix, Point
<1>3. d \in Serial => index[d] = "indexing" /\ \A y \in IndexThreads : Holds(y, d) => y = x
  BY DEF IndexInv, OneThreadPerRun, HeldIsIndexing, Holds
<1>4. \A y \in IndexThreads : indexers'[y].pc \in {"upserting", "indexed"} =>
         /\ indexers'[y] = indexers[y]
         /\ indexers[y].doc \in Serial => indexers[y].doc # d
  BY <1>3 DEF Holds
<1>5. PointsOfThread'
  <2> HIDE DEF d
  <2> QED
    BY <1>2, <1>4 DEF PointsOfThread, IndexInv
<1>6. OneReadingPerVersion'
  <2> HIDE DEF d
  <2> QED
    BY <1>2, <1>8 DEF OneReadingPerVersion, IndexInv
<1>7. IndexedIsWhole'
  <2> HIDE DEF d
  <2> QED
    BY <1>2, <1>3 DEF IndexedIsWhole, IndexInv
<1> QED
  BY <1>5, <1>6, <1>7

(* The stage a thread reaches is the one it advances to. *)
LEMMA NewStage ==
    ASSUME TypeOK, NEW x \in IndexThreads, NEW stage, Advance(x, stage)
    PROVE  /\ indexers'[x].pc = stage
           /\ indexers'[x].doc = indexers[x].doc
           /\ indexers'[x].reading = indexers[x].reading
           /\ indexers'[x].written = indexers[x].written
           /\ \A y \in IndexThreads : y # x => indexers'[y] = indexers[y]
<1> DEFINE q == [indexers[x] EXCEPT !.pc = stage]
<1>1. DOMAIN indexers = IndexThreads /\ indexers[x] \in IndexerStates
  BY DEF TypeOK
<1>2. indexers' = [indexers EXCEPT ![x] = q]
  BY <1>1 DEF Advance
<1>3. /\ q.pc = stage /\ q.doc = indexers[x].doc
      /\ q.reading = indexers[x].reading /\ q.written = indexers[x].written
  BY <1>1 DEF IndexerStates, IdleIndexer
<1> HIDE DEF q
<1> QED
  BY <1>1, <1>2, <1>3

(* Every step keeps the points as the rows and the threads know them. The  *)
(* steps that write points are those of the thread that owns the run; the  *)
(* step that marks a version as indexed follows the last batch.            *)
LEMMA StepPoints ==
    ASSUME IndexInv, [Next]_vars
    PROVE  PointsOfThread' /\ OneReadingPerVersion' /\ IndexedIsWhole'
<1> DEFINE Goal == PointsOfThread' /\ OneReadingPerVersion' /\ IndexedIsWhole'
<1> USE DEF IndexInv
<1>t. TypeOK
  BY DEF TypeInv
<1>r. Requests \subseteq Callers /\ OcrThreads \subseteq Callers
  BY DEF Callers
<1>1. ASSUME NEW c \in OcrThreads, Schedule(c) PROVE Goal
  <2>1. PICK d \in Docs : d = callers[c].doc
    BY <1>1, <1>r, BusyDocs DEF Schedule
  <2> QED
    BY <1>1, <2>1, CallerPoints DEF Schedule, InsertIndex, indexRows
<1>2. ASSUME NEW r \in Requests, NEW d \in Docs, StartReindex(r, d) PROVE Goal
  BY <1>2, CallerPoints DEF StartReindex, InsertIndex, indexRows
<1>3. ASSUME NEW r \in Requests, CommitReindex(r) PROVE Goal
  <2>1. PICK d \in Docs : d = callers[r].doc
    BY <1>3, <1>r, BusyDocs DEF CommitReindex
  <2> QED
    BY <1>3, <2>1, CallerPoints DEF CommitReindex
<1>4. ASSUME UNCHANGED <<points, index, indexers>> PROVE Goal
  BY <1>4, PointsUnchanged
<1>5. ASSUME NEW x \in IndexThreads, Take(x) PROVE Goal
  <2>1. indexers'[x].pc = "loaded" /\ \A y \in IndexThreads : y # x => indexers'[y] = indexers[y]
    BY <1>5, <1>t DEF Take, TypeOK, IdleIndexer
  <2> QED
    BY <1>5, <2>1, PointsUnchanged DEF Take, indexRows
<1>6. ASSUME NEW x \in IndexThreads, Claim(x) PROVE Goal
  <2>1. CASE indexers' = [indexers EXCEPT ![x] = IdleIndexer] /\ UNCHANGED index
    BY <1>6, <2>1, ReleasedPoints DEF Claim
  <2>2. CASE /\ index' = [index EXCEPT ![indexers[x].doc] = "indexing"]
             /\ indexers' = [indexers EXCEPT
                               ![x].pc = "claimed",
                               ![x].seen = IF @ = "pending" THEN "indexing" ELSE @]
    <3>1. \A e \in Serial : index'[e] = "indexed" => index[e] = "indexed"
      BY <2>2, <1>t DEF TypeOK, Serial
    <3>2. indexers[x] \in IndexerStates
      BY <1>t DEF TypeOK
    <3>3. indexers'[x].pc = "claimed" /\ \A y \in IndexThreads : y # x => indexers'[y] = indexers[y]
      BY <2>2, <3>2, <1>t DEF TypeOK, IndexerStates, IdleIndexer
    <3> QED
      BY <1>6, <3>1, <3>3, PointsUnchanged DEF Claim
  <2> QED
    BY <1>6, <2>1, <2>2, Zenon DEF Claim
<1>7. ASSUME NEW x \in IndexThreads, LoadText(x) PROVE Goal
  <2>1. CASE Advance(x, "failed")
    BY <1>7, <1>t, <2>1, NewStage, AdvancedPoints DEF LoadText, indexRows
  <2>2. CASE indexers' = [indexers EXCEPT ![x].pc = "embedding", ![x].reading = ocr_pages[indexers[x].doc]]
    <3>1. indexers[x] \in IndexerStates
      BY <1>t DEF TypeOK
    <3>2. indexers'[x].pc = "embedding" /\ \A y \in IndexThreads : y # x => indexers'[y] = indexers[y]
      BY <2>2, <3>1, <1>t DEF TypeOK, IndexerStates, IdleIndexer
    <3> QED
      BY <1>7, <3>2, AdvancedPoints DEF LoadText, indexRows
  <2> QED
    BY <1>7, <2>1, <2>2 DEF LoadText
<1>8. ASSUME NEW x \in IndexThreads, Embed(x) PROVE Goal
  <2>1. PICK stage \in {"deleting", "failed"} : Advance(x, stage)
    BY <1>8 DEF Embed
  <2> QED
    BY <1>8, <1>t, <2>1, NewStage, AdvancedPoints DEF Embed, indexRows
<1>9. ASSUME NEW x \in IndexThreads, DeletePoints(x) PROVE Goal
  <2>1. CASE Advance(x, "failed") /\ UNCHANGED points
    BY <1>9, <1>t, <2>1, NewStage, AdvancedPoints DEF DeletePoints, indexRows
  <2>2. CASE points' = [points EXCEPT ![indexers[x].doc] = {}] /\ Advance(x, "upserting")
    <3>1. PICK t \in Readings : t = indexers[x].reading /\ indexers[x].written = 0
      BY <1>9, <1>t, EmbeddingFacts DEF DeletePoints, TypeOK
    <3>2. Prefix(t, 0) = {} /\ 0 <= KeptChunks(t)
      BY ChunkFacts DEF Prefix
    <3>3. indexers[x].doc \notin Serial => \A e \in Serial : points'[e] = points[e]
      BY <2>2, <1>t DEF TypeOK, Serial
    <3>4. indexers[x].pc = "deleting" /\ UNCHANGED index
      BY <1>9 DEF DeletePoints, indexRows
    <3>5. /\ indexers'[x].pc = "upserting" /\ indexers'[x].doc = indexers[x].doc
          /\ indexers'[x].reading = t /\ indexers'[x].written = 0
          /\ \A y \in IndexThreads : y # x => indexers'[y] = indexers[y]
      BY <1>t, <2>2, <3>1, NewStage
    <3>6. points' = [points EXCEPT ![indexers[x].doc] = Prefix(t, 0)]
      BY <2>2, <3>2
    <3>7. indexers'[x].pc # "indexed" /\ indexers[x].pc \in {"deleting", "upserting"} /\ 0 \in Nat
      BY <3>4, <3>5
    <3> QED
      BY <3>2, <3>3, <3>4, <3>5, <3>6, <3>7, PointsWritten
  <2>3. CASE points' = [points EXCEPT ![indexers[x].doc] = {}] /\ Advance(x, "failed")
    <3>1. /\ indexers'[x].pc = "failed"
          /\ \A y \in IndexThreads : y # x => indexers'[y] = indexers[y]
      BY <1>t, <2>3, NewStage
    <3>2. indexers[x].pc \in {"deleting", "upserting"} /\ UNCHANGED index
      BY <1>9 DEF DeletePoints, indexRows
    <3>3. PICK t \in Readings : t = indexers[x].reading
      BY <1>9, <1>t, EmbeddingFacts DEF DeletePoints, TypeOK
    <3>4. Prefix(t, 0) = {} /\ 0 \in Nat
      BY DEF Prefix
    <3>5. points' = [points EXCEPT ![indexers[x].doc] = Prefix(t, 0)]
      BY <2>3, <3>4
    <3>6. indexers[x].doc \notin Serial => \A e \in Serial : points'[e] = points[e]
      BY <2>3, <1>t DEF TypeOK, Serial
    <3> QED
      BY <3>1, <3>2, <3>4, <3>5, <3>6, LostAnswer
  <2> QED
    BY <1>9, <2>1, <2>2, <2>3 DEF DeletePoints
<1>10. ASSUME NEW x \in IndexThreads, UpsertBatch(x) PROVE Goal
  <2>1. CASE Advance(x, "failed") /\ UNCHANGED points
    BY <1>10, <1>t, <2>1, NewStage, AdvancedPoints DEF UpsertBatch, indexRows
  <2>p. PICK t \in Readings, done \in 0..MaxChunks :
          t = indexers[x].reading /\ done = indexers[x].written
    BY <1>10, <1>t, UpsertingFacts DEF UpsertBatch, TypeOK
  <2> DEFINE upto  == Smaller(done + BatchSize, KeptChunks(t))
             batch == {Point(t, n) : n \in done + 1..upto}
             stage == IF upto = KeptChunks(t) THEN "indexed" ELSE "upserting"
             q     == [indexers[x] EXCEPT !.written = upto, !.pc = stage]
  <2>2. CASE /\ points' = [points EXCEPT ![indexers[x].doc] = Upserted(@, batch)]
             /\ indexers' = [indexers EXCEPT ![x] = q]
    <3>1. indexers[x].pc = "upserting" /\ UNCHANGED index
      BY <1>10 DEF UpsertBatch, indexRows
    <3>2. done \in Nat /\ done <= KeptChunks(t)
      BY <2>p, <3>1 DEF TypeInv, WrittenInReading
    <3>3. upto \in 0..MaxChunks /\ done <= upto /\ upto <= KeptChunks(t)
      BY <3>2, BatchFacts
    <3>4. /\ q.doc = indexers[x].doc /\ q.reading = t /\ q.written = upto /\ q.pc = stage
      <4>1. indexers[x] \in IndexerStates
        BY <1>t DEF TypeOK
      <4> HIDE DEF upto, stage
      <4> QED
        BY <2>p, <4>1 DEF IndexerStates, IdleIndexer
    <3>5. indexers[x].doc \in Serial => points[indexers[x].doc] = Prefix(t, done)
      BY <2>p, <3>1 DEF PointsOfThread
    <3>6. indexers[x].doc \in Serial => points' = [points EXCEPT ![indexers[x].doc] = Prefix(t, upto)]
      <4>1. upto \in Nat
        BY <3>3
      <4>2. Upserted(Prefix(t, done), batch) = Prefix(t, upto)
        <5> HIDE DEF upto
        <5> QED
          BY <3>2, <3>3, <4>1, UpsertedPrefix
      <4> HIDE DEF upto, batch
      <4> QED
        BY <2>2, <3>5, <4>2
    <3>7. indexers[x].doc \notin Serial => \A e \in Serial : points'[e] = points[e]
      BY <2>2, <1>t DEF TypeOK, Serial
    <3>8. indexers'[x] = q /\ \A y \in IndexThreads : y # x => indexers'[y] = indexers[y]
      BY <2>2, <1>t DEF TypeOK
    <3>9. indexers'[x].pc = "indexed" => upto = KeptChunks(t)
      BY <3>4, <3>8
    <3> HIDE DEF upto, batch, q, stage
    <3> QED
      BY <3>1, <3>3, <3>4, <3>6, <3>7, <3>8, <3>9, PointsWritten
  <2>6. CASE /\ points' = [points EXCEPT ![indexers[x].doc] = Upserted(@, batch)]
             /\ Advance(x, "failed")
    <3>1. indexers[x].pc = "upserting" /\ UNCHANGED index
      BY <1>10 DEF UpsertBatch, indexRows
    <3>2. done \in Nat /\ done <= KeptChunks(t)
      BY <2>p, <3>1 DEF TypeInv, WrittenInReading
    <3>3. upto \in 0..MaxChunks /\ done <= upto /\ upto <= KeptChunks(t)
      BY <3>2, BatchFacts
    <3>4. /\ indexers'[x].pc = "failed"
          /\ \A y \in IndexThreads : y # x => indexers'[y] = indexers[y]
      BY <1>t, <2>6, NewStage
    <3>5. indexers[x].doc \in Serial => points[indexers[x].doc] = Prefix(t, done)
      BY <2>p, <3>1 DEF PointsOfThread
    <3>6. indexers[x].doc \in Serial => points' = [points EXCEPT ![indexers[x].doc] = Prefix(t, upto)]
      <4>1. upto \in Nat
        BY <3>3
      <4>2. Upserted(Prefix(t, done), batch) = Prefix(t, upto)
        <5> HIDE DEF upto
        <5> QED
          BY <3>2, <3>3, <4>1, UpsertedPrefix
      <4> HIDE DEF upto, batch
      <4> QED
        BY <2>6, <3>5, <4>2
    <3>7. indexers[x].doc \notin Serial => \A e \in Serial : points'[e] = points[e]
      BY <2>6, <1>t DEF TypeOK, Serial
    <3>8. upto \in Nat /\ indexers[x].pc \in {"deleting", "upserting"}
      BY <3>1, <3>3
    <3> HIDE DEF upto, batch, q, stage
    <3> QED
      BY <3>1, <3>4, <3>6, <3>7, <3>8, LostAnswer
  <2>3. indexers[x].pc = "upserting" /\ DOMAIN indexers = IndexThreads
    BY <1>10, <1>t DEF UpsertBatch, TypeOK
  <2>4. \/ Advance(x, "failed") /\ UNCHANGED points
        \/ /\ points' = [points EXCEPT ![indexers[x].doc] = Upserted(@, batch)]
           /\ Advance(x, "failed")
        \/ /\ points' = [points EXCEPT ![indexers[x].doc] = Upserted(@, batch)]
           /\ indexers' = [indexers EXCEPT
                             ![x].written = upto,
                             ![x].pc = IF upto = KeptChunks(t) THEN "indexed" ELSE @]
    BY <1>10, <2>p DEF UpsertBatch
  <2>5. indexers' = [indexers EXCEPT
                       ![x].written = upto,
                       ![x].pc = IF upto = KeptChunks(t) THEN "indexed" ELSE @]
           => indexers' = [indexers EXCEPT ![x] = q]
    <3> HIDE DEF upto
    <3> QED
      BY <2>3
  <2> HIDE DEF upto, batch, q
  <2> QED
    BY <2>1, <2>2, <2>4, <2>5, <2>6
<1>11. ASSUME NEW x \in IndexThreads, Finish(x) PROVE Goal
  <2>d. PICK d \in Docs, s \in {"indexed", "failed"} : d = indexers[x].doc /\ s = indexers[x].pc
    BY <1>11, BusyDocs DEF Finish
  <2>1. /\ \A e \in Docs : index'[e] = IF e = d THEN s ELSE index[e]
        /\ UNCHANGED points
        /\ \A y \in IndexThreads : indexers'[y] = IF y = x THEN IdleIndexer ELSE indexers[y]
    BY <1>11, <1>t, <2>d DEF Finish, TypeOK
  <2>2. s = "indexed" /\ d \in Serial => \E t \in Readings : points[d] = PointsOf(t)
    <3>1. s = "indexed" => indexers[x].reading \in Readings
      BY <1>t, <2>d, UpsertingFacts DEF TypeOK
    <3> QED
      BY <2>d, <3>1 DEF PointsOfThread
  <2>3. PointsOfThread' /\ OneReadingPerVersion'
    BY <2>1 DEF PointsOfThread, OneReadingPerVersion, IdleIndexer
  <2>4. IndexedIsWhole'
    BY <2>1, <2>2 DEF IndexedIsWhole, Serial
  <2> QED
    BY <2>3, <2>4
<1>12. ASSUME NEW x \in IndexThreads, Refuse(x) \/ IndexFault(x) PROVE Goal
  BY <1>12, ReleasedPoints DEF Refuse, IndexFault, indexRows
<1>13. CASE Crash
  <2>1. \A y \in IndexThreads : indexers'[y].pc = "idle"
    BY <1>13 DEF Crash, IdleIndexer
  <2> QED
    BY <1>13, <2>1, PointsUnchanged DEF Crash, indexRows
<1>14. ASSUME \/ \E c \in OcrThreads, d \in Docs, t \in Readings : OcrCompletes(c, d, t)
              \/ \E d \in Docs : OcrMoves(d)
              \/ \E c \in Callers : Enqueue(c) \/ CallerFault(c)
              \/ Boot \/ StartIndexWorkers \/ StartIndexFault \/ StopIndexWorkers \/ Drained
              \/ UNCHANGED vars
       PROVE  Goal
  BY <1>4, <1>14
  DEF OcrCompletes, OcrMoves, Enqueue, CallerFault, Boot, StartIndexWorkers, StartIndexFault,
      StopIndexWorkers, Drained, vars, indexRows
<1> QED
  BY <1>1, <1>2, <1>3, <1>5, <1>6, <1>7, <1>8, <1>9, <1>10, <1>11, <1>12, <1>13, <1>14
  DEF Next

(* Every step keeps the whole invariant. *)
LEMMA StepIndexInv == IndexInv /\ [Next]_vars => IndexInv'
BY StepTypeInv, StepOwnership, StepPoints DEF IndexInv

(* Serial re-indexes: the invariant holds of every execution, and so do    *)
(* its two statements about the points: a search never returns passages of *)
(* two readings of one version, and a version that says "indexed" has all  *)
(* points of one reading (process, _persist, _complete).                   *)
THEOREM IndexSafety == Spec => [](OneReadingPerVersion /\ IndexedIsWhole)
<1>1. IndexInv => OneReadingPerVersion /\ IndexedIsWhole
  BY DEF IndexInv
<1> QED
  BY <1>1, InitIndexInv, StepIndexInv, PTL DEF Spec

(* The second statement alone: all points of one reading, once a version   *)
(* says "indexed" (_persist, _complete).                                   *)
THEOREM IndexedVersionsAreWhole == Spec => []IndexedIsWhole
<1>1. OneReadingPerVersion /\ IndexedIsWhole => IndexedIsWhole
  OBVIOUS
<1> QED
  BY <1>1, IndexSafety, PTL

(* Points are written and deleted only under the claim of the thread that  *)
(* does it, so the row tells a reader when they may be incomplete.         *)
THEOREM ClaimedPointsOnly == Spec => PointsMoveUnderClaim
<1> DEFINE A == \A d \in Serial : points'[d] # points[d] =>
                  index[d] = "indexing" /\ \E x \in IndexThreads : Holds(x, d)
<1>1. IndexInv /\ [Next]_vars => [A]_vars
  <2> SUFFICES ASSUME IndexInv, Next, NEW d \in Serial, points'[d] # points[d]
               PROVE  index[d] = "indexing" /\ \E x \in IndexThreads : Holds(x, d)
    OBVIOUS
  <2>1. PICK x \in IndexThreads : DeletePoints(x) \/ UpsertBatch(x)
    BY DEF Next, OcrCompletes, OcrMoves, Schedule, StartReindex, CommitReindex, Enqueue,
           CallerFault, Take, Claim, LoadText, Embed, Finish, Refuse, IndexFault, Boot,
           StartIndexWorkers, StartIndexFault, StopIndexWorkers, Drained, Crash
  <2>2. Holds(x, d)
    BY <2>1 DEF DeletePoints, UpsertBatch, Holds, IndexInv, TypeInv, TypeOK, Serial
  <2> QED
    BY <2>2 DEF IndexInv, HeldIsIndexing
<1> QED
  BY <1>1, InitIndexInv, StepIndexInv, PTL DEF Spec, PointsMoveUnderClaim

-----------------------------------------------------------------------------
(* Serial re-indexes: the rows follow the status table *)

(* The moves the handlers make, under the names of the abstract table.     *)
LEMMA Targets ==
    /\ AsRun("none") = "none" /\ AsRun("pending") = "pending"
    /\ AsRun("indexing") = "processing"
    /\ AsRun("indexed") = "completed" /\ AsRun("failed") = "failed"
    /\ "pending" \in Lifecycle!StatusTransitions["none"]
    /\ "processing" \in Lifecycle!StatusTransitions["pending"]
    /\ "completed" \in Lifecycle!StatusTransitions["processing"]
    /\ "failed" \in Lifecycle!StatusTransitions["processing"]
    /\ "pending" \in Lifecycle!StatusTransitions["completed"]
    /\ "pending" \in Lifecycle!StatusTransitions["failed"]
BY DEF Lifecycle!StatusTransitions, AsRun

(* The row of a version moves along the table or does not move.            *)
LEMMA StepFollowsTable ==
    ASSUME IndexInv, [Next]_vars
    PROVE  [Lifecycle!Next]_SerialRuns
<1> USE DEF IndexInv
<1>t. TypeOK
  BY DEF TypeInv
<1>m. ASSUME NEW d \in Docs, NEW s,
             d \in Serial => AsRun(s) \in Lifecycle!StatusTransitions[AsRun(index[d])],
             index' = [index EXCEPT ![d] = s]
      PROVE  [Lifecycle!Next]_SerialRuns
  <2>1. \A e \in Docs : index'[e] = IF e = d THEN s ELSE index[e]
    BY <1>m, <1>t DEF TypeOK
  <2>2. CASE d \in Serial
    <3>1. SerialRuns[d] = AsRun(index[d])
      BY <2>2 DEF SerialRuns
    <3>2. SerialRuns' = [SerialRuns EXCEPT ![d] = AsRun(s)]
      BY <2>1, <2>2 DEF SerialRuns, Serial
    <3> QED
      BY <1>m, <2>2, <3>1, <3>2 DEF Lifecycle!Next, Lifecycle!Move
  <2>3. CASE d \notin Serial
    BY <2>1, <2>3 DEF SerialRuns, Serial
  <2> QED
    BY <2>2, <2>3
<1>u. UNCHANGED index => UNCHANGED SerialRuns
  BY DEF SerialRuns
<1>i. ASSUME NEW d \in Docs, InsertIndex(d) PROVE [Lifecycle!Next]_SerialRuns
  BY <1>i, <1>m, Targets DEF InsertIndex
<1>1. ASSUME NEW c \in OcrThreads, Schedule(c) PROVE [Lifecycle!Next]_SerialRuns
  <2>1. callers[c].doc \in Docs
    BY <1>1, BusyDocs DEF Schedule, Callers
  <2> QED
    BY <1>1, <1>i, <1>u, <2>1 DEF Schedule, indexRows
<1>2. ASSUME NEW r \in Requests, NEW d \in Docs, StartReindex(r, d)
      PROVE  [Lifecycle!Next]_SerialRuns
  BY <1>2, <1>i, <1>u DEF StartReindex, indexRows
<1>3. ASSUME NEW r \in Requests, CommitReindex(r) PROVE [Lifecycle!Next]_SerialRuns
  <2>1. /\ callers[r].doc \in Docs
        /\ callers[r].doc \in Serial => index[callers[r].doc] \in {"indexed", "failed"}
    BY <1>3, BusyDocs DEF CommitReindex, ReindexOwnsRow, Callers
  <2> QED
    BY <1>3, <1>m, <2>1, Targets DEF CommitReindex
<1>4. ASSUME NEW x \in IndexThreads, Claim(x) PROVE [Lifecycle!Next]_SerialRuns
  <2>1. indexers[x].doc \in Docs
    BY <1>4, BusyDocs DEF Claim
  <2> QED
    BY <1>4, <1>m, <1>u, <2>1, Targets DEF Claim
<1>5. ASSUME NEW x \in IndexThreads, Finish(x) PROVE [Lifecycle!Next]_SerialRuns
  <2>1. /\ indexers[x].doc \in Docs
        /\ indexers[x].doc \in Serial => index[indexers[x].doc] = "indexing"
    BY <1>5, BusyDocs DEF Finish, HeldIsIndexing, Holds
  <2> QED
    BY <1>5, <1>m, <2>1, Targets DEF Finish
<1>6. ASSUME UNCHANGED index PROVE [Lifecycle!Next]_SerialRuns
  BY <1>6, <1>u
<1> QED
  BY <1>1, <1>2, <1>3, <1>4, <1>5, <1>6
  DEF Next, OcrCompletes, OcrMoves, Enqueue, CallerFault, Take, LoadText, Embed,
      DeletePoints, UpsertBatch, Refuse, IndexFault, Boot, StartIndexWorkers,
      StartIndexFault, StopIndexWorkers, Drained, Crash, indexRows, vars

(* Indexing implements the same abstract lifecycle as extraction, although *)
(* the write of a re-index and the one that ends a run are by id alone     *)
(* (reindex, claim, _transition).                                          *)
THEOREM IndexLifecycle == Spec => Lifecycle!Spec
<1>1. Init => Lifecycle!Init
  BY Targets DEF Init, Lifecycle!Init, SerialRuns, Serial
<1> QED
  BY <1>1, InitIndexInv, StepIndexInv, StepFollowsTable, PTL DEF Spec, Lifecycle!Spec

-----------------------------------------------------------------------------
(* A pending row of a process that serves has a job, whatever overlaps *)

(* The row is queued, has just been taken by a thread, or is about to be   *)
(* queued by the caller that wrote it.                                     *)
HasJob(d) ==
    \/ \E i \in DOMAIN jobs : jobs[i] = d
    \/ \E x \in IndexThreads : indexers[x].pc = "loaded" /\ indexers[x].doc = d
    \/ \E c \in Callers : callers[c].pc = "queueing" /\ callers[c].doc = d

(* Until requeue_pending has run, the rows an earlier process left pending *)
(* have no job; from then on every pending row has one, unless the         *)
(* database has refused a statement.                                       *)
NoPendingIndexLost ==
    process \in {"serving", "draining"} /\ indexFaults = 0
        /\ RequeueLimit >= Cardinality(Docs)
      => \A d \in Pending : HasJob(d)

(* The jobs appended to a queue are found behind those in it. *)
LEMMA SecondPart ==
    ASSUME NEW S, NEW s \in Seq(S), NEW t \in Seq(S), NEW i \in 1..Len(t)
    PROVE  Len(s) + i \in DOMAIN (s \o t) /\ (s \o t)[Len(s) + i] = t[i]
OBVIOUS

(* The requeue at startup finds every pending row if the limit allows.     *)
LEMMA RequeueFindsAll ==
    ASSUME TypeOK, StartIndexWorkers, RequeueLimit >= Cardinality(Docs)
    PROVE  \A d \in Pending : \E i \in DOMAIN jobs' : jobs'[i] = d
<1> DEFINE n == Cardinality(Pending)
<1>1. /\ IsFiniteSet(Pending)
      /\ n \in Nat
      /\ n <= Cardinality(Docs)
  BY IndexConstants, FS_Subset, FS_CardinalityType DEF IndexConstants, Pending
<1>2. Smaller(RequeueLimit, n) = n
  BY <1>1, CountsAreNat, IndexConstants DEF Smaller, IndexConstants
<1>3. PICK batch \in [1..n -> Pending] : RequeuedJobs(batch) /\ jobs' = jobs \o batch
  BY <1>2 DEF StartIndexWorkers
<1> HIDE DEF n
<1>4. \A i, j \in 1..n : batch[i] = batch[j] => i = j
  <2> SUFFICES ASSUME NEW i \in 1..n, NEW j \in 1..n, i # j PROVE batch[i] # batch[j]
    OBVIOUS
  <2>1. i < j \/ j < i
    BY <1>1
  <2>2. indexed_at[batch[i]] \in Nat /\ indexed_at[batch[j]] \in Nat
    BY DEF TypeOK, Pending
  <2> QED
    BY <1>3, <2>1, <2>2 DEF RequeuedJobs
<1>5. batch \in Injection(1..n, Pending)
  BY <1>3, <1>4 DEF Injection, IsInjective
<1>6. Cardinality(1..n) = n
  BY <1>1, FS_Interval
<1>7. batch \in Surjection(1..n, Pending)
  BY <1>1, <1>5, <1>6, FS_Injection DEF n
<1>8. batch \in Seq(Docs) /\ DOMAIN batch = 1..n /\ jobs \in Seq(Docs)
  <2>1. batch \in [1..n -> Docs]
    BY DEF Pending
  <2> QED
    BY <1>1, <2>1 DEF TypeOK
<1> SUFFICES ASSUME NEW d \in Pending PROVE \E i \in DOMAIN jobs' : jobs'[i] = d
  OBVIOUS
<1>9. PICK i \in 1..n : batch[i] = d
  BY <1>7 DEF Surjection
<1>10. Len(jobs) + i \in DOMAIN jobs' /\ jobs'[Len(jobs) + i] = d
  <2>1. jobs' = jobs \o batch /\ Len(batch) = n /\ Len(jobs) \in Nat
    BY <1>1, <1>3, <1>8
  <2>2. i \in 1..Len(batch)
    BY <1>9, <2>1
  <2> QED
    BY <1>8, <1>9, <2>1, <2>2, SecondPart
<1> QED
  BY <1>10

(* Whatever a step does to the rows, the queue, the threads and the        *)
(* callers, a row that is pending after it has a job after it.             *)
LEMMA StepNoPendingIndexLost ==
    ASSUME TypeOK, NoPendingIndexLost, [Next]_vars
    PROVE  NoPendingIndexLost'
<1> SUFFICES ASSUME process' \in {"serving", "draining"}, indexFaults' = 0,
                    RequeueLimit >= Cardinality(Docs), NEW d \in Pending'
             PROVE  HasJob(d)'
  BY DEF NoPendingIndexLost
<1>d. d \in Docs /\ index'[d] = "pending"
  BY DEF Pending
<1>h. ASSUME process \in {"serving", "draining"}, indexFaults = 0, index[d] = "pending"
      PROVE  HasJob(d)
  BY <1>d, <1>h DEF NoPendingIndexLost, Pending
<1>r. Requests \subseteq Callers /\ OcrThreads \subseteq Callers
  BY DEF Callers
<1>k. ASSUME HasJob(d), UNCHANGED jobs,
             \A x \in IndexThreads : indexers[x].pc = "loaded" => indexers'[x] = indexers[x],
             \A c \in Callers : callers[c].pc = "queueing" => callers'[c] = callers[c]
      PROVE  HasJob(d)'
  BY <1>k DEF HasJob
<1>n. ASSUME NEW c \in Callers, callers' = [callers EXCEPT ![c].pc = "queueing"],
             callers[c].pc # "idle", callers[c].doc = d
      PROVE  HasJob(d)'
  <2>1. callers'[c].pc = "queueing" /\ callers'[c].doc = d
    BY <1>n, CallerFacts DEF TypeOK, CallerStates
  <2> QED
    BY <2>1 DEF HasJob
<1>1. ASSUME NEW c \in OcrThreads, NEW e \in Docs, NEW t \in Readings, OcrCompletes(c, e, t)
      PROVE  HasJob(d)'
  BY <1>d, <1>h, <1>k, <1>r, <1>1 DEF OcrCompletes, indexRows, indexBounds, TypeOK
<1>2. ASSUME NEW e \in Docs, OcrMoves(e) PROVE HasJob(d)'
  BY <1>d, <1>h, <1>k, <1>2 DEF OcrMoves, indexRows, indexBounds
<1>3. ASSUME NEW c \in OcrThreads, Schedule(c) PROVE HasJob(d)'
  <2>1. /\ process \in {"serving", "draining"} /\ indexFaults = 0
        /\ UNCHANGED <<jobs, indexers>>
        /\ callers[c].pc = "scheduling" /\ c \in Callers
    BY <1>3, <1>r DEF Schedule, indexBounds
  <2>2. CASE index[d] = "pending"
    <3>1. \A b \in Callers : callers[b].pc = "queueing" => callers'[b] = callers[b]
      BY <1>3 DEF Schedule, TypeOK
    <3> QED
      BY <1>h, <1>k, <2>1, <2>2, <3>1
  <2>3. CASE index[d] # "pending"
    <3>1. /\ callers' = [callers EXCEPT ![c].pc = "queueing"]
          /\ index' = [index EXCEPT ![callers[c].doc] = "pending"]
      BY <1>d, <1>3, <2>3 DEF Schedule, InsertIndex, indexRows
    <3>2. callers[c].doc = d
      BY <1>d, <2>3, <3>1 DEF TypeOK
    <3> QED
      BY <1>n, <2>1, <3>1, <3>2
  <2> QED
    BY <2>2, <2>3
<1>4. ASSUME NEW r \in Requests, NEW e \in Docs, StartReindex(r, e) PROVE HasJob(d)'
  <2>1. /\ process \in {"serving", "draining"} /\ indexFaults = 0
        /\ UNCHANGED <<jobs, indexers>> /\ callers[r].pc = "idle" /\ r \in Callers
    BY <1>4, <1>r DEF StartReindex
  <2>2. CASE index[d] = "pending"
    <3>1. \A b \in Callers : callers[b].pc = "queueing" => callers'[b] = callers[b]
      BY <1>4, <2>1 DEF StartReindex, TypeOK
    <3> QED
      BY <1>h, <1>k, <2>1, <2>2, <3>1
  <2>3. CASE index[d] # "pending"
    <3>1. /\ callers' = [callers EXCEPT ![r] = [pc |-> "queueing", doc |-> e]]
          /\ index' = [index EXCEPT ![e] = "pending"]
      BY <1>d, <1>4, <2>3 DEF StartReindex, InsertIndex, indexRows
    <3>2. e = d
      BY <1>d, <2>3, <3>1 DEF TypeOK
    <3>3. callers'[r] = [pc |-> "queueing", doc |-> d]
      BY <2>1, <3>1, <3>2 DEF TypeOK
    <3> QED
      BY <2>1, <3>3 DEF HasJob
  <2> QED
    BY <2>2, <2>3
<1>5. ASSUME NEW r \in Requests, CommitReindex(r) PROVE HasJob(d)'
  <2>1. /\ process \in {"serving", "draining"} /\ indexFaults = 0
        /\ UNCHANGED <<jobs, indexers>> /\ callers[r].pc = "reindexing" /\ r \in Callers
        /\ callers' = [callers EXCEPT ![r].pc = "queueing"]
        /\ index' = [index EXCEPT ![callers[r].doc] = "pending"]
    BY <1>5, <1>r DEF CommitReindex, indexBounds
  <2>2. CASE callers[r].doc = d
    BY <1>n, <2>1, <2>2
  <2>3. CASE callers[r].doc # d
    <3>1. index[d] = "pending"
      BY <1>d, <2>1, <2>3 DEF TypeOK
    <3>2. \A b \in Callers : callers[b].pc = "queueing" => callers'[b] = callers[b]
      BY <2>1 DEF TypeOK
    <3> QED
      BY <1>h, <1>k, <2>1, <3>1, <3>2
  <2> QED
    BY <2>2, <2>3
<1>6. ASSUME NEW c \in Callers, Enqueue(c) PROVE HasJob(d)'
  <2>1. HasJob(d)
    BY <1>d, <1>h, <1>6 DEF Enqueue, indexRows, indexBounds
  <2>2. jobs \in Seq(Docs) /\ jobs' = Append(jobs, callers[c].doc) /\ UNCHANGED indexers
    BY <1>6 DEF Enqueue, TypeOK
  <2>3. CASE \E i \in DOMAIN jobs : jobs[i] = d
    BY <2>2, <2>3 DEF HasJob
  <2>4. CASE \E x \in IndexThreads : indexers[x].pc = "loaded" /\ indexers[x].doc = d
    BY <2>2, <2>4 DEF HasJob
  <2>5. CASE callers[c].doc = d
    <3>1. Len(jobs) + 1 \in DOMAIN jobs' /\ jobs'[Len(jobs) + 1] = d
      BY <2>2, <2>5
    <3> QED
      BY <3>1 DEF HasJob
  <2>6. ASSUME NEW b \in Callers, b # c, callers[b].pc = "queueing", callers[b].doc = d
        PROVE  HasJob(d)'
    BY <1>6, <2>6 DEF Enqueue, HasJob, TypeOK
  <2> QED
    BY <2>1, <2>3, <2>4, <2>5, <2>6 DEF HasJob
<1>7. ASSUME NEW c \in Callers, CallerFault(c) PROVE HasJob(d)'
  BY <1>7 DEF CallerFault, TypeOK
<1>8. ASSUME NEW x \in IndexThreads, Take(x) PROVE HasJob(d)'
  <2>1. HasJob(d)
    BY <1>d, <1>h, <1>8 DEF Take, indexRows, indexBounds
  <2>2. /\ jobs \in Seq(Docs) /\ jobs # <<>> /\ jobs' = Tail(jobs)
        /\ indexers[x].pc = "idle" /\ UNCHANGED callers
        /\ indexers'[x].pc = "loaded" /\ indexers'[x].doc = Head(jobs)
        /\ \A y \in IndexThreads : y # x => indexers'[y] = indexers[y]
    BY <1>8 DEF Take, TypeOK, IdleIndexer
  <2>3. CASE Head(jobs) = d
    BY <2>2, <2>3 DEF HasJob
  <2>4. ASSUME NEW i \in DOMAIN jobs, jobs[i] = d, Head(jobs) # d PROVE HasJob(d)'
    <3>1. i - 1 \in DOMAIN jobs' /\ jobs'[i - 1] = d
      BY <2>2, <2>4
    <3> QED
      BY <3>1 DEF HasJob
  <2>5. CASE \E y \in IndexThreads : indexers[y].pc = "loaded" /\ indexers[y].doc = d
    BY <2>2, <2>5 DEF HasJob
  <2>6. CASE \E c \in Callers : callers[c].pc = "queueing" /\ callers[c].doc = d
    BY <2>2, <2>6 DEF HasJob
  <2> QED
    BY <2>1, <2>3, <2>4, <2>5, <2>6 DEF HasJob
<1>9. ASSUME NEW x \in IndexThreads, Claim(x) PROVE HasJob(d)'
  <2>1. index[d] = "pending" /\ indexers[x].pc = "loaded" /\ UNCHANGED <<jobs, callers>>
        /\ \A y \in IndexThreads : y # x => indexers'[y] = indexers[y]
    BY <1>d, <1>9 DEF Claim, TypeOK
  <2>2. indexers[x].doc # d
    <3>1. CASE index' = [index EXCEPT ![indexers[x].doc] = "indexing"]
      BY <1>d, <3>1 DEF TypeOK
    <3>2. CASE index[indexers[x].doc] # "pending"
      BY <2>1, <3>2
    <3> QED
      BY <1>9, <3>1, <3>2 DEF Claim
  <2> QED
    BY <1>h, <1>9, <2>1, <2>2 DEF Claim, HasJob, indexBounds
<1>10. ASSUME NEW x \in IndexThreads,
              LoadText(x) \/ Embed(x) \/ DeletePoints(x) \/ UpsertBatch(x)
       PROVE  HasJob(d)'
  <2>1. \A y \in IndexThreads : indexers[y].pc = "loaded" => indexers'[y] = indexers[y]
    BY <1>10, JobKept DEF LoadText, Embed, DeletePoints, UpsertBatch
  <2> QED
    BY <1>d, <1>h, <1>k, <1>10, <2>1
    DEF LoadText, Embed, DeletePoints, UpsertBatch, indexRows, indexBounds
<1>11. ASSUME NEW x \in IndexThreads, Finish(x) \/ Refuse(x) PROVE HasJob(d)'
  <2>1. index[d] = "pending"
    BY <1>d, <1>11 DEF Finish, Refuse, TypeOK, indexRows
  <2>2. \A y \in IndexThreads : indexers[y].pc = "loaded" => indexers'[y] = indexers[y]
    BY <1>11 DEF Finish, Refuse, TypeOK
  <2> QED
    BY <1>h, <1>k, <1>11, <2>1, <2>2 DEF Finish, Refuse, indexBounds
<1>12. ASSUME NEW x \in IndexThreads, IndexFault(x) PROVE HasJob(d)'
  BY <1>12 DEF IndexFault, TypeOK
<1>13. CASE StartIndexWorkers
  BY <1>d, <1>13, RequeueFindsAll DEF HasJob, StartIndexWorkers, indexRows, Pending
<1>s. CASE StartIndexFault
  BY <1>s DEF StartIndexFault, TypeOK
<1>14. CASE StopIndexWorkers \/ UNCHANGED vars
  BY <1>d, <1>h, <1>k, <1>14 DEF StopIndexWorkers, indexRows, indexBounds, vars
<1>15. CASE Boot \/ Drained \/ Crash
  BY <1>15 DEF Boot, Drained, Crash
<1> QED
  BY <1>1, <1>2, <1>3, <1>4, <1>5, <1>6, <1>7, <1>8, <1>9, <1>10, <1>11, <1>12,
     <1>13, <1>14, <1>15, <1>s
  DEF Next

(* No pending index is lost once the server takes requests: rows left by a *)
(* crash are queued at startup and rows written since then by their        *)
(* callers, also by extraction threads that ran before it                  *)
(* (requeue_pending, _enqueue, start_index_workers).                       *)
THEOREM PendingHasJob == Spec => []NoPendingIndexLost
<1>1. Init => NoPendingIndexLost
  BY DEF Init, NoPendingIndexLost
<1>2. TypeOK /\ NoPendingIndexLost /\ [Next]_vars => NoPendingIndexLost'
  BY StepNoPendingIndexLost
<1> QED
  BY <1>1, <1>2, TypeCorrect, PTL DEF Spec

(* No caller is at work when the pool has begun to drain. *)
CallersDone == process = "draining" => \A c \in Callers : callers[c].pc = "idle"

(* A stop that is not cut short leaves no pending index: the half of       *)
(* CleanShutdown (Pipeline) that is about rows waiting to be indexed.      *)
StopLeavesNonePending ==
    [][process = "draining" /\ process' = "down" /\ crashes' = crashes
         /\ indexFaults = 0 /\ RequeueLimit >= Cardinality(Docs) => Pending = {}]_vars

(* A pool that drains takes nothing more from requests and extractions.    *)
LEMMA StepCallersDone == CallersDone /\ [Next]_vars => CallersDone'
<1> SUFFICES ASSUME CallersDone, [Next]_vars, process' = "draining", NEW c \in Callers
             PROVE  callers'[c].pc = "idle"
  BY DEF CallersDone
<1>1. CASE StopIndexWorkers \/ UNCHANGED vars
  BY <1>1 DEF StopIndexWorkers, vars, CallersDone
<1>2. CASE Boot \/ StartIndexWorkers \/ StartIndexFault \/ Drained \/ Crash
  BY <1>2 DEF Boot, StartIndexWorkers, StartIndexFault, Drained, Crash
<1>3. ASSUME NEW d \in Docs,
             \/ \E b \in OcrThreads, t \in Readings : OcrCompletes(b, d, t)
             \/ OcrMoves(d)
             \/ \E r \in Requests : StartReindex(r, d)
      PROVE  callers'[c].pc = "idle"
  BY <1>3 DEF OcrCompletes, OcrMoves, StartReindex
<1>4. ASSUME NEW b \in Callers,
             Schedule(b) \/ CommitReindex(b) \/ Enqueue(b) \/ CallerFault(b)
      PROVE  callers'[c].pc = "idle"
  BY <1>4 DEF Schedule, CommitReindex, Enqueue, CallerFault, CallersDone
<1>5. ASSUME NEW x \in IndexThreads, ThreadStep(x) \/ IndexFault(x)
      PROVE  callers'[c].pc = "idle"
  BY <1>5 DEF ThreadStep, Take, Claim, LoadText, Embed, DeletePoints, UpsertBatch,
     Finish, Refuse, IndexFault, CallersDone
<1> QED
  BY <1>1, <1>2, <1>3, <1>4, <1>5 DEF Next, Callers, ThreadStep

(* What the drained pool leaves: no job is queued, no thread holds one, no *)
(* caller is about to queue one, so no row is pending (stop_index_workers).*)
THEOREM StopLeavesNothingQueued == Spec => StopLeavesNonePending
<1> DEFINE A == process = "draining" /\ process' = "down" /\ crashes' = crashes
                  /\ indexFaults = 0 /\ RequeueLimit >= Cardinality(Docs) => Pending = {}
<1>1. Init => CallersDone
  BY DEF Init, CallersDone
<1>2. TypeOK /\ NoPendingIndexLost /\ CallersDone /\ [Next]_vars => [A]_vars
  <2> SUFFICES ASSUME TypeOK, NoPendingIndexLost, CallersDone, Next,
                      process = "draining", process' = "down", crashes' = crashes,
                      indexFaults = 0, RequeueLimit >= Cardinality(Docs),
                      NEW d \in Pending
               PROVE  FALSE
    OBVIOUS
  <2>1. Drained
    BY DEF Next, OcrCompletes, OcrMoves, Schedule, StartReindex, CommitReindex, Enqueue,
       CallerFault, Take, Claim, LoadText, Embed, DeletePoints, UpsertBatch, Finish, Refuse,
       IndexFault, Boot, StartIndexWorkers, StartIndexFault, StopIndexWorkers, Crash, TypeOK
  <2>2. HasJob(d)
    BY DEF NoPendingIndexLost
  <2> QED
    BY <2>1, <2>2 DEF Drained, HasJob, CallersDone
<1> QED
  BY <1>1, <1>2, StepCallersDone, TypeCorrect, PendingHasJob, PTL DEF Spec, StopLeavesNonePending

-----------------------------------------------------------------------------
(* Indexing and extraction in one process                                  *)

(* Rows and what requests and threads of extraction know. *)
OcrTypes ==
    /\ ocr_status \in [Docs -> OcrStatuses]
    /\ ocr_pages \in [Docs -> Readings \cup {NoReading}]
    /\ queue \in Seq(Docs)
    /\ requests \in [Requests -> O!RequestStates]
    /\ workers \in [OcrThreads -> O!WorkerStates]

(* A run that is queued or worked on has a row.                            *)
RunsHaveRows ==
    /\ \A i \in DOMAIN queue : ocr_status[queue[i]] # "none"
    /\ \A r \in Requests : requests[r].pc \in {"retrying", "queueing"} =>
         ocr_status[requests[r].doc] # "none"
    /\ \A w \in OcrThreads : workers[w].pc # "idle" => ocr_status[workers[w].doc] # "none"

(* Extraction runs only in a process that has not begun to stop indexing.  *)
OcrWithin ==
    /\ pool # "on" => \A r \in Requests : requests[r].pc = "idle"
    /\ pool = "off" => \A w \in OcrThreads : workers[w].pc = "idle"
    /\ pool # "off" => process \in {"starting", "serving"}

(* Threads schedule what they extracted, and requests re-index.            *)
CallersApart ==
    /\ callers \in [Callers -> CallerStates]
    /\ \A r \in Requests : callers[r].pc # "scheduling"
    /\ \A w \in OcrThreads : callers[w].pc # "reindexing"

Composed == OcrTypes /\ RunsHaveRows /\ OcrWithin /\ CallersApart

(* Instances of FiniteSets count alike.                                    *)
LEMMA SameCardinality == \A S : O!Cardinality(S) = Cardinality(S)
BY DEF O!Cardinality, Cardinality

(* The states of requests and threads of extraction.                       *)
LEMMA OcrNames ==
    /\ O!Lifecycle!Statuses = OcrStatuses
    /\ O!Outcomes = Readings \cup {NoReading}
    /\ O!IdleRequest.pc = "idle" /\ O!IdleRequest \in O!RequestStates
    /\ O!IdleWorker.pc = "idle" /\ O!IdleWorker \in O!WorkerStates
    /\ IdleCaller.pc = "idle" /\ IdleCaller \in CallerStates
    /\ \A q \in O!RequestStates : q.pc # "idle" => q.doc \in Docs
    /\ \A q \in O!WorkerStates : q.pc # "idle" =>
         /\ q.doc \in Docs /\ q.seen \in OcrStatuses /\ q.outcome \in Readings \cup {NoReading}
    /\ \A q \in CallerStates : q.pc # "idle" => q.doc \in Docs
<1>1. O!Lifecycle!Statuses = OcrStatuses
  BY DEF O!Lifecycle!Statuses, OcrStatuses, O!Lifecycle!LifecycleStatuses
<1>2. O!Outcomes = Readings \cup {NoReading}
  BY DEF O!Outcomes
<1> QED
  BY <1>1, <1>2 DEF O!IdleRequest, O!RequestStates, O!IdleWorker, O!WorkerStates,
     IdleCaller, CallerStates

(* A step of extraction that changes the row of one run is a move the      *)
(* environment of indexing may make.                                       *)
LEMMA RunMoves ==
    ASSUME Composed, UNCHANGED indexVars, process \in {"starting", "serving"},
           NEW d \in Docs, NEW s \in OcrStatuses \ {"none", "completed"},
           ocr_status' = [ocr_status EXCEPT ![d] = s],
           ocr_pages' = ocr_pages \/ ocr_pages' = [ocr_pages EXCEPT ![d] = NoReading]
    PROVE  Next
<1>1. \E t \in {NoReading, ocr_pages[d]} : ocr_pages' = [ocr_pages EXCEPT ![d] = t]
  BY DEF Composed, OcrTypes
<1>2. OcrMoves(d)
  BY <1>1 DEF OcrMoves, indexRows, indexBounds, OcrStatuses,
     indexVars
<1> QED
  BY <1>2 DEF Next

(* A request or a thread that is at work has a pool.                       *)
LEMMA AtWork ==
    ASSUME Composed,
           \/ pool # "off"
           \/ \E r \in Requests : requests[r].pc # "idle"
           \/ \E w \in OcrThreads : workers[w].pc # "idle"
    PROVE  /\ pool # "off" /\ process \in {"starting", "serving"}
           /\ (\E r \in Requests : requests[r].pc # "idle") => pool = "on"
BY DEF Composed, OcrWithin

(* What a step of extraction must keep, and how indexing sees it.          *)
OcrGoal == OcrTypes' /\ RunsHaveRows' /\ OcrWithin' /\ [Next]_vars

(* Indexing does not see a step that leaves rows and its own state alone.  *)
LEMMA Unseen ==
    ASSUME UNCHANGED <<indexVars, ocr_status, ocr_pages>>
    PROVE  [Next]_vars
BY DEF indexVars, vars, ocrRows, indexRows, indexBounds

(* Requests for extraction. *)
LEMMA OcrRequestSteps ==
    ASSUME Composed, UNCHANGED indexVars, NEW r \in Requests,
           \/ \E d \in Docs : OcrRequest(r, d)
           \/ O!RequestStep(r)
           \/ O!RequestFault(r)
    PROVE  OcrGoal
<1> USE OcrNames DEF O!vars, O!rowVars, O!boundVars
<1>0. OcrTypes /\ RunsHaveRows /\ OcrWithin /\ process' = process
  BY DEF Composed, indexVars
<1>1. ASSUME NEW d \in Docs, O!Upload(r, d) PROVE OcrGoal
  <2>1. [pc |-> "scheduling", doc |-> d] \in O!RequestStates
    BY DEF O!RequestStates
  <2>2. OcrTypes'
    BY <1>0, <1>1, <2>1 DEF OcrTypes, O!Upload
  <2>3. RunsHaveRows'
    BY <1>0, <1>1 DEF OcrTypes, RunsHaveRows, O!Upload
  <2>4. OcrWithin'
    BY <1>0, <1>1 DEF OcrWithin, O!Upload
  <2>5. [Next]_vars
    BY <1>1, Unseen DEF O!Upload
  <2> QED
    BY <2>2, <2>3, <2>4, <2>5 DEF OcrGoal
<1>2. ASSUME NEW d \in Docs, O!InsertRow(d), UNCHANGED <<pool, queue, workers>>, pool = "on",
             process \in {"starting", "serving"},
             requests' = [requests EXCEPT ![r] = [pc |-> "queueing", doc |-> d]]
      PROVE  OcrGoal
  <2>1. [pc |-> "queueing", doc |-> d] \in O!RequestStates
    BY DEF O!RequestStates
  <2>2. OcrTypes'
    BY <1>0, <1>2, <2>1 DEF OcrTypes, O!InsertRow, OcrStatuses
  <2>3. RunsHaveRows'
    BY <1>0, <1>2 DEF OcrTypes, RunsHaveRows, O!InsertRow
  <2>4. OcrWithin'
    BY <1>0, <1>2 DEF OcrWithin
  <2>5. Next
    BY <1>2, RunMoves DEF O!InsertRow, OcrStatuses
  <2> QED
    BY <2>2, <2>3, <2>4, <2>5 DEF OcrGoal
<1>3. ASSUME UNCHANGED <<ocr_status, ocr_pages, pool, workers>>, pool = "on",
             process \in {"starting", "serving"}, NEW q \in O!RequestStates,
             requests' = [requests EXCEPT ![r] = q],
             q.pc \in {"retrying", "queueing"} => ocr_status[q.doc] # "none",
             queue' = queue \/ (requests[r].pc = "queueing"
                                /\ queue' = Append(queue, requests[r].doc))
      PROVE  OcrGoal
  <2>1. requests[r].pc = "queueing" => requests[r].doc \in Docs
    BY <1>0 DEF OcrTypes
  <2>2. OcrTypes'
    BY <1>0, <1>3, <2>1 DEF OcrTypes
  <2>3. \A i \in DOMAIN queue' : ocr_status[queue'[i]] # "none"
    <3>1. CASE requests[r].pc = "queueing" /\ queue' = Append(queue, requests[r].doc)
      <4>1. ocr_status[requests[r].doc] # "none"
        BY <1>0, <3>1 DEF RunsHaveRows
      <4>2. \A i \in DOMAIN queue' :
              queue'[i] = requests[r].doc \/ (i \in DOMAIN queue /\ queue'[i] = queue[i])
        <5>1. queue \in Seq(Docs) /\ requests[r].doc \in Docs
          BY <1>0, <2>1, <3>1 DEF OcrTypes
        <5> HIDE DEF O!vars, O!rowVars, O!boundVars
        <5> QED
          BY <3>1, <5>1
      <4> QED
        BY <1>0, <4>1, <4>2 DEF RunsHaveRows
    <3>2. CASE queue' = queue
      BY <1>0, <3>2 DEF RunsHaveRows
    <3> QED
      BY <1>3, <3>1, <3>2
  <2>4. RunsHaveRows'
    BY <1>0, <1>3, <2>3 DEF OcrTypes, RunsHaveRows
  <2>5. OcrWithin'
    BY <1>0, <1>3 DEF OcrWithin
  <2>6. [Next]_vars
    BY <1>3, Unseen
  <2> QED
    BY <2>2, <2>4, <2>5, <2>6 DEF OcrGoal
<1>4. ASSUME NEW d \in Docs, O!StartRetry(r, d) PROVE OcrGoal
  <2>1. pool = "on" /\ process \in {"starting", "serving"}
    BY <1>4, AtWork DEF O!StartRetry
  <2>2. CASE O!InsertRow(d) /\ requests' = [requests EXCEPT ![r] = [pc |-> "queueing", doc |-> d]]
    BY <2>1, <2>2, <1>2, <1>4 DEF O!StartRetry
  <2>3. CASE /\ O!Lifecycle!CanRetry(ocr_status[d])
             /\ requests' = [requests EXCEPT ![r] = [pc |-> "retrying", doc |-> d]]
             /\ UNCHANGED O!rowVars
    <3>1. [pc |-> "retrying", doc |-> d] \in O!RequestStates
      BY DEF O!RequestStates
    <3>2. ocr_status[d] # "none"
      BY <2>3 DEF O!Lifecycle!CanRetry, O!Lifecycle!RetryableStatuses,
         O!Lifecycle!LifecycleStatuses
    <3> QED
      BY <2>1, <2>3, <1>3, <1>4, <3>1, <3>2 DEF O!StartRetry
  <2> QED
    BY <1>4, <2>2, <2>3 DEF O!StartRetry
<1>5. ASSUME O!Schedule(r) PROVE OcrGoal
  <2>1. requests[r].doc \in Docs /\ requests[r] \in O!RequestStates
    BY <1>0, <1>5 DEF OcrTypes, O!Schedule
  <2>2. pool = "on" /\ process \in {"starting", "serving"}
    BY <1>5, AtWork DEF O!Schedule
  <2>3. [requests EXCEPT ![r].pc = "queueing"]
          = [requests EXCEPT ![r] = [pc |-> "queueing", doc |-> requests[r].doc]]
    <3>1. PICK p \in {"scheduling", "retrying", "queueing"}, e \in Docs :
             requests[r] = [pc |-> p, doc |-> e]
      BY <1>5, <2>1 DEF O!Schedule, O!RequestStates, O!IdleRequest
    <3>2. [requests[r] EXCEPT !.pc = "queueing"] = [pc |-> "queueing", doc |-> e]
      BY <3>1
    <3> QED
      BY <3>1, <3>2
  <2> QED
    BY <1>5, <1>2, <1>3, <2>1, <2>2, <2>3 DEF O!Schedule
<1>6. ASSUME O!CommitRetry(r) PROVE OcrGoal
  <2> DEFINE d == requests[r].doc
  <2>1. d \in Docs /\ requests[r] \in O!RequestStates
    BY <1>0, <1>6 DEF OcrTypes, O!CommitRetry
  <2>2. pool = "on" /\ process \in {"starting", "serving"}
    BY <1>6, AtWork DEF O!CommitRetry
  <2>3. [requests[r] EXCEPT !.pc = "queueing"] \in O!RequestStates
    BY <2>1 DEF O!RequestStates, O!IdleRequest
  <2>4. OcrTypes'
    BY <1>0, <1>6, <2>1, <2>3 DEF OcrTypes, O!CommitRetry, OcrStatuses
  <2>5. RunsHaveRows'
    BY <1>0, <1>6, <2>1, <2>3 DEF OcrTypes, RunsHaveRows, O!CommitRetry
  <2>6. OcrWithin'
    BY <1>0, <1>6, <2>2 DEF OcrWithin, O!CommitRetry
  <2>7. Next
    BY <1>6, <2>1, <2>2, RunMoves DEF O!CommitRetry, OcrStatuses
  <2> QED
    BY <2>4, <2>5, <2>6, <2>7 DEF OcrGoal
<1>7. ASSUME O!Enqueue(r) \/ O!RequestFault(r) PROVE OcrGoal
  <2>1. pool = "on" /\ process \in {"starting", "serving"}
    BY <1>7, AtWork DEF O!Enqueue, O!RequestFault
  <2> QED
    BY <1>7, <1>3, <2>1 DEF O!Enqueue, O!RequestFault
<1> QED
  BY <1>1, <1>4, <1>5, <1>6, <1>7 DEF OcrRequest, O!RequestStep

(* Threads of extraction, but for the step that hands over. *)
LEMMA OcrThreadSteps ==
    ASSUME Composed, UNCHANGED indexVars, NEW w \in OcrThreads,
           \/ O!Take(w) \/ O!Claim(w) \/ O!Extract(w) \/ O!Fail(w)
           \/ O!Refuse(w) \/ O!HandOn(w) \/ O!WorkerFault(w)
    PROVE  OcrGoal
<1> USE OcrNames DEF O!vars, O!rowVars, O!boundVars
<1>0. OcrTypes /\ RunsHaveRows /\ OcrWithin /\ process' = process
  BY DEF Composed, indexVars
<1>1. pool # "off" /\ process \in {"starting", "serving"}
  BY AtWork DEF O!Take, O!Claim, O!Extract, O!Fail, O!Refuse, O!HandOn, O!WorkerFault
<1>2. workers[w] \in O!WorkerStates
  BY <1>0 DEF OcrTypes
<1>3. ASSUME UNCHANGED <<ocr_status, ocr_pages, pool, requests>>, NEW q \in O!WorkerStates,
             workers' = [workers EXCEPT ![w] = q],
             q.pc # "idle" => ocr_status[q.doc] # "none",
             queue' = queue \/ (queue # <<>> /\ queue' = Tail(queue))
      PROVE  OcrGoal
  <2>q. queue' \in Seq(Docs)
    <3>1. queue \in Seq(Docs)
      BY <1>0 DEF OcrTypes
    <3>2. queue' = queue \/ (queue # <<>> /\ queue' = Tail(queue))
      BY <1>3
    <3> QED
      BY ONLY <3>1, <3>2
  <2>w. workers' \in [OcrThreads -> O!WorkerStates]
    BY <1>0, <1>3 DEF OcrTypes
  <2>1. OcrTypes'
    BY <1>0, <1>3, <2>q, <2>w DEF OcrTypes
  <2>2. RunsHaveRows'
    <3>1. \A i \in DOMAIN queue' : ocr_status[queue'[i]] # "none"
      BY <1>0, <1>3 DEF OcrTypes, RunsHaveRows
    <3> QED
      BY <1>0, <1>3, <3>1 DEF OcrTypes, RunsHaveRows
  <2>3. OcrWithin'
    BY <1>0, <1>1, <1>3 DEF OcrWithin
  <2>4. [Next]_vars
    BY <1>3, Unseen
  <2> QED
    BY <2>1, <2>2, <2>3, <2>4 DEF OcrGoal
<1>4. ASSUME UNCHANGED <<ocr_pages, pool, requests, queue>>, NEW q \in O!WorkerStates,
             workers' = [workers EXCEPT ![w] = q], workers[w].pc # "idle",
             q.pc # "idle" => q.doc = workers[w].doc,
             NEW s \in {"processing", "failed"},
             ocr_status' = [ocr_status EXCEPT ![workers[w].doc] = s]
      PROVE  OcrGoal
  <2>d. workers[w].doc \in Docs
    BY <1>2, <1>4
  <2>1. OcrTypes'
    BY <1>0, <1>4, <2>d DEF OcrTypes, OcrStatuses
  <2>2. RunsHaveRows'
    BY <1>0, <1>4, <2>d DEF OcrTypes, RunsHaveRows
  <2>3. OcrWithin'
    BY <1>0, <1>1, <1>4 DEF OcrWithin
  <2>4. Next
    BY <1>1, <1>4, <2>d, RunMoves DEF OcrStatuses
  <2> QED
    BY <2>1, <2>2, <2>3, <2>4 DEF OcrGoal
<1>5. ASSUME O!Take(w) PROVE OcrGoal
  <2>1. Head(queue) \in Docs /\ ocr_status[Head(queue)] \in OcrStatuses \ {"none"}
    BY <1>0, <1>5 DEF OcrTypes, RunsHaveRows, O!Take
  <2> DEFINE q == [O!IdleWorker EXCEPT !.pc = "loaded", !.doc = Head(queue),
                                         !.seen = ocr_status[Head(queue)]]
  <2>2. q \in O!WorkerStates /\ q.doc = Head(queue)
    BY <2>1 DEF O!WorkerStates, O!IdleWorker
  <2> QED
    BY <1>5, <2>1, <2>2, <1>3 DEF O!Take
<1>6. ASSUME workers[w].pc # "idle"
      PROVE  /\ ocr_status[workers[w].doc] # "none"
             /\ \A p \in {"processing", "saving"} :
                  /\ [workers[w] EXCEPT !.pc = p] \in O!WorkerStates
                  /\ [workers[w] EXCEPT !.pc = p].doc = workers[w].doc
                  /\ \A e \in OcrStatuses :
                       /\ [workers[w] EXCEPT !.pc = p, !.seen = e] \in O!WorkerStates
                       /\ [workers[w] EXCEPT !.pc = p, !.seen = e].doc = workers[w].doc
                  /\ \A t \in Readings \cup {NoReading} :
                       /\ [workers[w] EXCEPT !.pc = p, !.outcome = t] \in O!WorkerStates
                       /\ [workers[w] EXCEPT !.pc = p, !.outcome = t].doc = workers[w].doc
  <2>1. ocr_status[workers[w].doc] # "none"
    BY <1>0, <1>6 DEF RunsHaveRows
  <2> QED
    BY <1>2, <1>6, <2>1 DEF O!WorkerStates, O!IdleWorker
<1>7. ASSUME O!Claim(w) PROVE OcrGoal
  <2>0. workers[w].pc # "idle"
    BY <1>7 DEF O!Claim
  <2>1. CASE ocr_status[workers[w].doc] = "pending"
    <3> DEFINE e == IF workers[w].seen = "pending" THEN "processing" ELSE workers[w].seen
               q == [workers[w] EXCEPT !.pc = "processing", !.seen = e]
    <3>1. e \in OcrStatuses
      BY <1>2, <2>0 DEF OcrStatuses
    <3>2. q \in O!WorkerStates /\ q.doc = workers[w].doc
      BY <1>6, <2>0, <3>1
    <3>3. workers' = [workers EXCEPT ![w] = q]
      BY <1>7, <2>1, <1>0 DEF O!Claim, OcrTypes
    <3> HIDE DEF q
    <3> QED
      BY <1>7, <1>4, <2>0, <2>1, <3>2, <3>3 DEF O!Claim
  <2>2. CASE ocr_status[workers[w].doc] # "pending"
    BY <1>7, <1>3, <2>2 DEF O!Claim
  <2> QED
    BY <2>1, <2>2
<1>8. ASSUME O!Extract(w) PROVE OcrGoal
  <2>1. PICK t \in Readings \cup {NoReading} :
          workers' = [workers EXCEPT ![w].pc = "saving", ![w].outcome = t]
    BY <1>8 DEF O!Extract
  <2> DEFINE q == [workers[w] EXCEPT !.pc = "saving", !.outcome = t]
  <2>2. workers[w].pc # "idle"
    BY <1>8 DEF O!Extract
  <2>3. q \in O!WorkerStates /\ q.doc = workers[w].doc
    BY <1>6, <2>2
  <2>4. workers' = [workers EXCEPT ![w] = q]
    BY <2>1, <1>0 DEF OcrTypes
  <2> HIDE DEF q
  <2> QED
    BY <1>8, <1>6, <1>3, <2>2, <2>3, <2>4 DEF O!Extract
<1>9. ASSUME O!Fail(w) PROVE OcrGoal
  BY <1>9, <1>4 DEF O!Fail
<1>10. ASSUME O!Refuse(w) \/ O!HandOn(w) \/ O!WorkerFault(w) PROVE OcrGoal
  BY <1>10, <1>3 DEF O!Refuse, O!HandOn, O!WorkerFault
<1> QED
  BY <1>5, <1>7, <1>8, <1>9, <1>10

(* The step in which a thread commits its text and hands it over.          *)
LEMMA HandOverStep ==
    ASSUME Composed, NEW w \in OcrThreads, Complete(w)
    PROVE  Composed' /\ Next
<1> USE OcrNames DEF O!vars, O!rowVars, O!boundVars
<1> DEFINE d == workers[w].doc
           t == workers[w].outcome
<1>0. OcrTypes /\ RunsHaveRows /\ OcrWithin /\ CallersApart
  BY DEF Composed
<1>1. /\ workers[w] \in O!WorkerStates /\ workers[w].pc = "saving" /\ t # NoReading
      /\ UNCHANGED <<stored, created, pool, queue, requests>>
      /\ workers' = [workers EXCEPT ![w].pc = "saved"]
      /\ ocr_status' = [ocr_status EXCEPT ![d] = "completed"]
      /\ ocr_pages' = [ocr_pages EXCEPT ![d] = t]
      /\ OcrCompletes(w, d, t)
  BY <1>0 DEF Complete, O!Complete, O!Target, OcrTypes
<1>2. d \in Docs /\ t \in Readings /\ ocr_status[d] # "none"
  BY <1>0, <1>1 DEF RunsHaveRows
<1>3. [workers[w] EXCEPT !.pc = "saved"] \in O!WorkerStates
      /\ [workers[w] EXCEPT !.pc = "saved"].doc = d
  BY <1>1, <1>2 DEF O!WorkerStates, O!IdleWorker
<1>4. OcrTypes'
  BY <1>0, <1>1, <1>2, <1>3 DEF OcrTypes, OcrStatuses
<1>5. RunsHaveRows'
  BY <1>0, <1>1, <1>2, <1>3 DEF OcrTypes, RunsHaveRows
<1>6. process' = process
  BY <1>1 DEF OcrCompletes
<1>7. OcrWithin'
  BY <1>0, <1>1, <1>6 DEF OcrWithin
<1>8. CallersApart'
  <2>1. [pc |-> "scheduling", doc |-> d] \in CallerStates
    BY <1>2 DEF CallerStates
  <2>2. w \notin Requests
    BY IndexConstants DEF IndexConstants
  <2>3. callers' = callers \/ callers' = [callers EXCEPT ![w] = [pc |-> "scheduling", doc |-> d]]
    BY <1>1 DEF OcrCompletes
  <2> QED
    BY <1>0, <2>1, <2>2, <2>3 DEF CallersApart, Callers
<1>9. Next
  BY <1>1, <1>2 DEF Next
<1> QED
  BY <1>4, <1>5, <1>7, <1>8, <1>9 DEF Composed

(* Threads and requests of indexing.  Only the step of a request that      *)
(* schedules, or of an extraction thread that re-indexes, would be none of *)
(* IndexRun, and there is none.                                            *)
LEMMA IndexSteps ==
    ASSUME Composed, IndexStep
    PROVE  Composed' /\ Next
<1>0. OcrTypes /\ RunsHaveRows /\ OcrWithin /\ CallersApart
  BY DEF Composed
<1>1. UNCHANGED <<ocr_status, ocr_pages, pool, queue, requests, workers>>
  BY DEF IndexStep, ocrVars
<1>2. OcrTypes' /\ RunsHaveRows'
  BY <1>0, <1>1 DEF OcrTypes, RunsHaveRows
<1>3. process' = process
  BY DEF IndexStep, CallerStep, Schedule, CommitReindex, Enqueue, CallerFault,
     StartReindex, ThreadStep, Take, Claim, LoadText, Embed,
     DeletePoints, UpsertBatch, Finish, Refuse, IndexFault
<1>4. OcrWithin'
  BY <1>0, <1>1, <1>3 DEF OcrWithin
<1>5. ASSUME NEW c \in Callers, NEW q \in CallerStates, callers' = [callers EXCEPT ![c] = q],
             q.pc = "reindexing" => c \in Requests, q.pc # "scheduling"
      PROVE  CallersApart'
  BY <1>0, <1>5, IndexConstants DEF CallersApart, Callers, IndexConstants
<1>6. ASSUME NEW c \in Callers, callers[c].pc # "idle"
      PROVE  /\ callers[c].doc \in Docs
             /\ [callers[c] EXCEPT !.pc = "queueing"] \in CallerStates
             /\ [callers[c] EXCEPT !.pc = "queueing"].pc = "queueing"
  <2>1. PICK p \in {"scheduling", "reindexing", "queueing"}, e \in Docs :
           callers[c] = [pc |-> p, doc |-> e]
    BY <1>0, <1>6 DEF CallersApart, CallerStates, IdleCaller
  <2>2. [callers[c] EXCEPT !.pc = "queueing"] = [pc |-> "queueing", doc |-> e]
    BY <2>1
  <2> QED
    BY <2>1, <2>2 DEF CallerStates
<1>7. IdleCaller \in CallerStates /\ IdleCaller.pc = "idle"
  BY OcrNames
<1>8. ASSUME NEW c \in Callers, CallerStep(c) \/ CallerFault(c)
      PROVE  CallersApart' /\ Next
  <2>1. callers[c].pc # "idle"
    BY <1>8 DEF CallerStep, Schedule, CommitReindex, Enqueue, CallerFault
  <2>2. \/ callers' = [callers EXCEPT ![c] = [callers[c] EXCEPT !.pc = "queueing"]]
        \/ callers' = [callers EXCEPT ![c] = IdleCaller]
    BY <1>0, <1>7, <1>8 DEF CallerStep, Schedule, CommitReindex, Enqueue,
       CallerFault, CallersApart
  <2>3. CallersApart'
    BY <1>5, <1>6, <1>7, <2>1, <2>2
  <2>4. Schedule(c) => c \in OcrThreads
    BY <1>0 DEF CallersApart, Callers, Schedule
  <2>5. CommitReindex(c) => c \in Requests
    BY <1>0 DEF CallersApart, Callers, CommitReindex
  <2>6. Next
    BY <1>7, <1>8, <2>4, <2>5 DEF CallerStep, Next
  <2> QED
    BY <2>3, <2>6
<1>9. ASSUME NEW r \in Requests, NEW d \in Docs, Admitted(d) /\ StartReindex(r, d)
      PROVE  CallersApart' /\ Next
  <2>1. /\ [pc |-> "queueing", doc |-> d] \in CallerStates
        /\ [pc |-> "reindexing", doc |-> d] \in CallerStates
    BY DEF CallerStates
  <2>2. r \in Callers
    BY DEF Callers
  <2>3. \/ callers' = [callers EXCEPT ![r] = [pc |-> "queueing", doc |-> d]]
        \/ callers' = [callers EXCEPT ![r] = [pc |-> "reindexing", doc |-> d]]
    BY <1>9 DEF StartReindex
  <2>4. CallersApart'
    BY <1>5, <2>1, <2>2, <2>3
  <2>5. Next
    BY <1>9 DEF Next
  <2> QED
    BY <2>4, <2>5
<1>10. ASSUME NEW x \in IndexThreads, ThreadStep(x) \/ IndexFault(x)
       PROVE  CallersApart' /\ Next
  <2>1. callers' = callers
    BY <1>10 DEF ThreadStep, Take, Claim, LoadText, Embed,
       DeletePoints, UpsertBatch, Finish, Refuse, IndexFault
  <2>2. Next
    BY <1>10 DEF ThreadStep, Next
  <2> QED
    BY <1>0, <2>1, <2>2 DEF CallersApart
<1>11. CallersApart' /\ Next
  BY <1>7, <1>8, <1>9, <1>10 DEF IndexStep
<1> QED
  BY <1>2, <1>4, <1>11 DEF Composed

(* The lifespan. *)
LEMMA LifespanSteps ==
    ASSUME Composed,
           \/ StartOcrPool \/ StartIndexPool \/ StopOcrPool
           \/ OcrDrained \/ StopIndexPool \/ IndexDrained \/ ProcessDies
    PROVE  Composed' /\ [Next]_vars
<1> USE OcrNames DEF O!vars, O!rowVars, O!boundVars
<1>0. OcrTypes /\ RunsHaveRows /\ OcrWithin /\ CallersApart
  BY DEF Composed
<1>1. CASE StartOcrPool
  <2>1. /\ process = "down" /\ process' = "starting" /\ pool = "off" /\ pool' = "on"
        /\ UNCHANGED <<ocr_status, ocr_pages, requests, workers, callers>>
    BY <1>1 DEF StartOcrPool, O!Start, O!StartFault, Boot
  <2>6. OcrWithin' /\ CallersApart'
    BY <1>0, <2>1 DEF OcrWithin, CallersApart
  <2>7. Next
    BY <1>1 DEF StartOcrPool, Next
  <2>8. CASE O!StartFault
    <3>1. queue' = queue
      BY <2>8 DEF O!StartFault
    <3>2. OcrTypes' /\ RunsHaveRows'
      BY <1>0, <2>1, <3>1 DEF OcrTypes, RunsHaveRows
    <3> QED
      BY <2>6, <2>7, <3>2 DEF Composed
  <2> SUFFICES ASSUME O!Start PROVE Composed' /\ [Next]_vars
    BY <1>1, <2>8 DEF StartOcrPool
  <2>2. PICK js \in [1..O!Smaller(RequeueLimit, Cardinality(O!Pending)) -> O!Pending] :
           queue' = js
    BY SameCardinality DEF O!Start
  <2>3. O!Smaller(RequeueLimit, Cardinality(O!Pending)) \in Nat
    <3>1. O!Pending \subseteq Docs
      BY DEF O!Pending
    <3> QED
      BY <3>1, IndexConstants, FS_Subset, FS_CardinalityType DEF IndexConstants, O!Smaller
  <2>4. queue' \in Seq(Docs) /\ \A i \in DOMAIN queue' : ocr_status[queue'[i]] # "none"
    <3>1. \A d \in O!Pending : d \in Docs /\ ocr_status[d] # "none"
      BY DEF O!Pending
    <3> QED
      BY <2>2, <2>3, <3>1
  <2>5. OcrTypes' /\ RunsHaveRows'
    BY <1>0, <2>1, <2>4 DEF OcrTypes, RunsHaveRows
  <2> QED
    BY <2>5, <2>6, <2>7 DEF Composed
<1>2. CASE StartIndexPool \/ StopIndexPool \/ IndexDrained
  <2>1. UNCHANGED <<ocr_status, ocr_pages, queue, requests, workers, callers, pool>>
    BY <1>2 DEF StartIndexPool, StopIndexPool, IndexDrained, ocrVars,
       StartIndexWorkers, StartIndexFault, StopIndexWorkers, Drained
  <2>2. OcrTypes' /\ RunsHaveRows' /\ CallersApart'
    BY <1>0, <2>1 DEF OcrTypes, RunsHaveRows, CallersApart
  <2>3. OcrWithin'
    BY <1>0, <1>2, <2>1 DEF OcrWithin, StartIndexPool, StopIndexPool, IndexDrained,
       StartIndexWorkers, StartIndexFault, StopIndexWorkers, Drained
  <2>4. Next
    BY <1>2 DEF StartIndexPool, StopIndexPool, IndexDrained, Next
  <2> QED
    BY <2>2, <2>3, <2>4 DEF Composed
<1>3. CASE StopOcrPool \/ OcrDrained
  <2>1. UNCHANGED <<indexVars, ocr_status, ocr_pages, queue, requests, workers>>
    BY <1>3 DEF StopOcrPool, OcrDrained, O!Stop, O!Drained
  <2>2. OcrTypes' /\ RunsHaveRows' /\ CallersApart'
    BY <1>0, <2>1 DEF OcrTypes, RunsHaveRows, CallersApart, indexVars
  <2>3. \/ pool = "on" /\ pool' = "draining"
        \/ /\ pool = "draining" /\ pool' = "off" /\ \A w \in OcrThreads : workers[w].pc = "idle"
    BY <1>3 DEF StopOcrPool, OcrDrained, O!Stop, O!Drained
  <2>4. StopOcrPool => \A r \in Requests : requests[r].pc = "idle"
    BY DEF StopOcrPool, O!Stop
  <2>5. OcrWithin'
    <3>1. process' = process
      BY <2>1 DEF indexVars
    <3>2. \A r \in Requests : requests[r].pc = "idle"
      BY <1>0, <1>3, <2>4 DEF OcrWithin, OcrDrained, O!Drained
    <3> QED
      BY <1>0, <2>1, <2>3, <3>1, <3>2 DEF OcrWithin
  <2> QED
    BY <2>1, <2>2, <2>5, Unseen DEF Composed
<1>4. CASE ProcessDies
  <2>1. /\ ocr_status' = ocr_status /\ ocr_pages' = ocr_pages /\ pool' = "off"
        /\ callers' = [c \in Callers |-> IdleCaller]
    BY <1>4 DEF ProcessDies, O!Crash, Crash, ocrVars, Callers, ocrRows
  <2>2. \/ /\ queue' = <<>>
           /\ requests' = [r \in Requests |-> O!IdleRequest]
           /\ workers' = [w \in OcrThreads |-> O!IdleWorker]
        \/ pool = "off" /\ UNCHANGED <<queue, requests, workers>>
    BY <1>4 DEF ProcessDies, O!Crash, ocrVars
  <2>3. CallersApart'
    BY <2>1 DEF CallersApart, Callers
  <2>4. OcrTypes' /\ RunsHaveRows' /\ OcrWithin'
    <3>1. CASE queue' = <<>> /\ requests' = [r \in Requests |-> O!IdleRequest]
               /\ workers' = [w \in OcrThreads |-> O!IdleWorker]
      BY <1>0, <2>1, <3>1 DEF OcrTypes, RunsHaveRows, OcrWithin
    <3>2. CASE pool = "off" /\ UNCHANGED <<queue, requests, workers>>
      BY <1>0, <2>1, <3>2 DEF OcrTypes, RunsHaveRows, OcrWithin
    <3> QED
      BY <2>2, <3>1, <3>2
  <2>5. Next
    BY <1>4 DEF ProcessDies, Next
  <2> QED
    BY <2>3, <2>4, <2>5 DEF Composed
<1> QED
  BY <1>1, <1>2, <1>3, <1>4

(* Every step of the composition is one that indexing may see. *)
LEMMA ComposedStep ==
    ASSUME Composed, [PipelineNext]_pipelineVars
    PROVE  Composed' /\ [Next]_vars
<1>1. ASSUME OcrGoal, UNCHANGED indexVars
      PROVE  Composed' /\ [Next]_vars
  BY <1>1 DEF OcrGoal, Composed, CallersApart, indexVars
<1>2. CASE \E r \in Requests, d \in Docs : OcrRequest(r, d)
  BY <1>1, <1>2, OcrRequestSteps DEF OcrRequest
<1>3. CASE OcrStep
  BY <1>1, <1>3, OcrRequestSteps, OcrThreadSteps DEF OcrStep
<1>4. CASE \E w \in OcrThreads : Release(w)
  BY <1>1, <1>4, OcrThreadSteps DEF Release
<1>5. CASE \E w \in OcrThreads : Complete(w)
  BY <1>5, HandOverStep
<1>6. CASE IndexStep
  BY <1>6, IndexSteps
<1>7. CASE UNCHANGED pipelineVars
  BY <1>7, Unseen DEF Composed, OcrTypes, RunsHaveRows, OcrWithin, CallersApart, pipelineVars,
     indexVars, ocrVars
<1> QED
  BY <1>2, <1>3, <1>4, <1>5, <1>6, <1>7, LifespanSteps DEF PipelineNext

(* In the composition indexing is an execution of IndexRun: whatever       *)
(* extraction does, overlapping retries or not, is what IndexRun allows    *)
(* its environment (ImplementsIndex of Pipeline).                          *)
THEOREM PipelineIndexes == PipelineSpec => ImplementsIndex
<1>1. PipelineInit => Init /\ Composed
  <2> SUFFICES ASSUME PipelineInit PROVE Composed
    BY DEF PipelineInit
  <2>1. /\ ocr_status = [d \in Docs |-> "none"] /\ ocr_pages = [d \in Docs |-> NoReading]
        /\ pool = "off" /\ queue = <<>>
        /\ requests = [r \in Requests |-> O!IdleRequest]
        /\ workers = [w \in OcrThreads |-> O!IdleWorker]
        /\ callers = [c \in Callers |-> IdleCaller]
    BY OcrNames DEF PipelineInit, O!Init, Init, Callers
  <2> QED
    BY <2>1, OcrNames DEF Composed, OcrTypes, RunsHaveRows, OcrWithin, CallersApart, OcrStatuses,
       Callers
<1>2. Composed /\ [PipelineNext]_pipelineVars => Composed' /\ [Next]_vars
  BY ComposedStep
<1> QED
  BY <1>1, <1>2, PTL DEF PipelineSpec, ImplementsIndex, Spec

(* What was proved of indexing for any extraction holds with the one there *)
(* is: as long as re-indexes of a version do not overlap, no search mixes  *)
(* readings, and a version that says indexed has every point of one.       *)
THEOREM PipelineIndexIsWhole == PipelineSpec => [](OneReadingPerVersion /\ IndexedIsWhole)
BY PipelineIndexes, IndexSafety DEF ImplementsIndex

(* The same of a stop: with the extraction there is, the process goes down *)
(* with no row waiting to be indexed.                                      *)
THEOREM PipelineStopsWithoutPending == PipelineSpec => StopLeavesNonePending
BY PipelineIndexes, StopLeavesNothingQueued DEF ImplementsIndex

=============================================================================
