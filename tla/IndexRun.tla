------------------------------ MODULE IndexRun ------------------------------
(***************************************************************************)
(* Indexing of extracted text into the vector database: the hand-over from *)
(* extraction, re-index requests, the job queue, the threads that chunk,   *)
(* embed and write the points, and the life of the process                 *)
(* (services/indexing.py, services/job_queue.py,                           *)
(* services/indexing_worker.py, services/vector_store.py).                 *)
(*                                                                         *)
(* The rows and pages of extraction are read here and written by another   *)
(* component: any environment that completes runs and moves them on.       *)
(* Pipeline puts OcrRun in its place.  As in OcrRun, "seen" is a session's *)
(* unrefreshed copy of its row's status.                                   *)
(***************************************************************************)
EXTENDS Naturals, Sequences, FiniteSets

CONSTANTS
    Docs,            \* document versions, each the key of at most one index
    Requests,        \* HTTP requests in progress together
    OcrThreads,      \* threads of the extraction pool, which hand runs over
    IndexThreads,    \* threads of this pool (INDEXING_WORKER_CONCURRENCY)
    Readings,        \* the texts an extraction may produce
    Passages,        \* Passages[t]: the page of each chunk the splitter makes of t
    Blank,           \* the readings without a single word
    NoReading, NoDoc,
    MaxChunks,       \* INDEX_MAX_CHUNKS
    BatchSize,       \* QDRANT_UPSERT_BATCH_SIZE
    RequeueLimit,    \* requeue_pending(limit=100)
    OverlappingReindexes, \* the versions whose re-index requests may overlap
    MaxReindexes, MaxCrashes, MaxFaults    \* bounds

ASSUME IndexConstants ==
    /\ IsFiniteSet(Docs)
    /\ Requests \cap OcrThreads = {}
    /\ Passages \in [Readings -> Seq(Nat)]
    /\ Blank \subseteq Readings
    /\ \A t \in Blank : Passages[t] = <<>>
    /\ NoReading \notin Readings
    /\ NoDoc \notin Docs
    /\ MaxChunks \in Nat \ {0}
    /\ BatchSize \in Nat \ {0}
    /\ RequeueLimit \in Nat
    /\ OverlappingReindexes \subseteq Docs
    /\ {MaxReindexes, MaxCrashes, MaxFaults} \subseteq Nat

Callers == Requests \cup OcrThreads

VARIABLES
    ocr_status,  \* ocr_results.status of each version, "none" without a row
    ocr_pages,   \* ocr_pages: the reading they hold
    index,       \* document_indexes.status, "none" before the row exists
    indexed_at,  \* document_indexes.created_at, as the position among the rows
    points,      \* the points of each version in the vector database
    process,     \* "down", "starting", "serving" or "draining"
    jobs,        \* jobs accepted and not yet taken by a thread
    callers,     \* what each request or extraction thread is about to do
    indexers,    \* what each thread of the pool is doing
    reindexes, crashes, indexFaults

ocrRows     == <<ocr_status, ocr_pages>>
indexRows   == <<index, indexed_at>>
indexBounds == <<reindexes, crashes, indexFaults>>
vars == <<ocrRows, indexRows, points, process, jobs, callers, indexers, indexBounds>>

OcrStatuses   == {"none", "pending", "processing", "completed", "failed"}
IndexStatuses == {"none", "pending", "indexing", "indexed", "failed"}

(* core/indexing.py repeats the table of core/ocr.py under its own names.  *)
AsRun(s) == CASE s = "indexing" -> "processing"
              [] s = "indexed"  -> "completed"
              [] OTHER          -> s

(* The versions whose re-index requests do not overlap, and their rows.    *)
Serial == Docs \ OverlappingReindexes

SerialRuns == [d \in Serial |-> AsRun(index[d])]

Lifecycle == INSTANCE RunLifecycle WITH Runs <- Serial, status <- SerialRuns

CanMove(current, target) == Lifecycle!CanTransition(AsRun(current), AsRun(target))
CanReindex(current)      == Lifecycle!CanRetry(AsRun(current))

Smaller(m, n) == IF m < n THEN m ELSE n

HasWords(d) == ocr_status[d] = "completed" /\ ocr_pages[d] \in Readings \ Blank

(* The chunks kept of a reading, and the point written for each of them:   *)
(* its id is derived from the version, the page and the chunk number.      *)
KeptChunks(t) == Smaller(Len(Passages[t]), MaxChunks)

Point(t, n) == [page |-> Passages[t][n], chunk |-> n, text |-> t]

PointsOf(t) == {Point(t, n) : n \in 1..KeptChunks(t)}

SameId(p, q) == p.page = q.page /\ p.chunk = q.chunk

Upserted(old, batch) == {p \in old : \A q \in batch : ~SameId(p, q)} \cup batch

IdleCaller  == [pc |-> "idle", doc |-> NoDoc]
IdleIndexer == [pc |-> "idle", doc |-> NoDoc, seen |-> "none",
                reading |-> NoReading, written |-> 0]

CallerStates ==
    {IdleCaller} \cup [pc : {"scheduling", "reindexing", "queueing"}, doc : Docs]

(* A thread has a reading once it has loaded one, and has written no point *)
(* before it has deleted those of the previous run.                        *)
IndexerStates ==
    {IdleIndexer}
    \cup [pc : {"loaded", "claimed"}, doc : Docs, seen : IndexStatuses,
          reading : {NoReading}, written : {0}]
    \cup [pc : {"embedding", "deleting"}, doc : Docs, seen : IndexStatuses,
          reading : Readings, written : {0}]
    \cup [pc : {"upserting", "indexed"}, doc : Docs, seen : IndexStatuses,
          reading : Readings, written : 0..MaxChunks]
    \cup [pc : {"failed"}, doc : Docs, seen : IndexStatuses,
          reading : Readings \cup {NoReading}, written : 0..MaxChunks]

AllPoints == UNION {PointsOf(t) : t \in Readings}

TypeOK ==
    /\ ocr_status \in [Docs -> OcrStatuses]
    /\ ocr_pages \in [Docs -> Readings \cup {NoReading}]
    /\ index \in [Docs -> IndexStatuses]
    /\ indexed_at \in [Docs -> Nat]
    /\ points \in [Docs -> SUBSET AllPoints]
    /\ process \in {"down", "starting", "serving", "draining"}
    /\ jobs \in Seq(Docs)
    /\ callers \in [Callers -> CallerStates]
    /\ indexers \in [IndexThreads -> IndexerStates]
    /\ reindexes \in Nat
    /\ crashes \in Nat
    /\ indexFaults \in Nat

Init ==
    /\ ocr_status = [d \in Docs |-> "none"]
    /\ ocr_pages = [d \in Docs |-> NoReading]
    /\ index = [d \in Docs |-> "none"]
    /\ indexed_at = [d \in Docs |-> 0]
    /\ points = [d \in Docs |-> {}]
    /\ process = "down"
    /\ jobs = <<>>
    /\ callers = [c \in Callers |-> IdleCaller]
    /\ indexers = [x \in IndexThreads |-> IdleIndexer]
    /\ reindexes = 0
    /\ crashes = 0
    /\ indexFaults = 0

-----------------------------------------------------------------------------
(* Callers *)

InsertIndex(d) ==
    /\ index[d] = "none"
    /\ index' = [index EXCEPT ![d] = "pending"]
    /\ indexed_at' = [indexed_at EXCEPT
                        ![d] = 1 + Cardinality({e \in Docs : index[e] # "none"})]

(* An extraction of d completed with reading t and is committed; its last  *)
(* call is schedule_for_ocr_result, which has something to do only if the  *)
(* completed run it was handed holds a word.                               *)
OcrCompletes(c, d, t) ==
    /\ process \in {"starting", "serving"}
    /\ callers[c].pc = "idle"
    /\ ocr_status' = [ocr_status EXCEPT ![d] = "completed"]
    /\ ocr_pages' = [ocr_pages EXCEPT ![d] = t]
    /\ callers' = IF t \in Blank THEN callers
                  ELSE [callers EXCEPT ![c] = [pc |-> "scheduling", doc |-> d]]
    /\ UNCHANGED <<indexRows, points, process, jobs, indexers, indexBounds>>

(* Extraction moves a run to any other state: it is scheduled, claimed,    *)
(* retried or fails.  A retry deletes the text, a run that fails leaves it *)
(* where it is: there is one if two retries overlapped.                    *)
OcrMoves(d) ==
    /\ process \in {"starting", "serving"}
    /\ \E s \in OcrStatuses \ {"none", "completed"} :
         ocr_status' = [ocr_status EXCEPT ![d] = s]
    /\ \E t \in {NoReading, ocr_pages[d]} : ocr_pages' = [ocr_pages EXCEPT ![d] = t]
    /\ UNCHANGED <<indexRows, points, process, jobs, callers, indexers, indexBounds>>

(* _schedule: an existing index is returned untouched, whatever its status *)
(* and whatever text it was built from.                                    *)
Schedule(c) ==
    /\ callers[c].pc = "scheduling"
    /\ \/ /\ InsertIndex(callers[c].doc)
          /\ callers' = [callers EXCEPT ![c].pc = "queueing"]
       \/ /\ index[callers[c].doc] # "none"
          /\ callers' = [callers EXCEPT ![c] = IdleCaller]
          /\ UNCHANGED indexRows
    /\ UNCHANGED <<ocrRows, points, process, jobs, indexers, indexBounds>>

(* reindex, up to its write: extraction must have completed; a version     *)
(* without an index gets its first one; a run that is not terminal is      *)
(* refused, which changes nothing.                                         *)
StartReindex(r, d) ==
    /\ process = "serving"
    /\ callers[r].pc = "idle"
    /\ ocr_status[d] = "completed"
    /\ reindexes < MaxReindexes
    /\ reindexes' = reindexes + 1
    /\ \/ /\ InsertIndex(d)
          /\ callers' = [callers EXCEPT ![r] = [pc |-> "queueing", doc |-> d]]
       \/ /\ CanReindex(index[d])
          /\ callers' = [callers EXCEPT ![r] = [pc |-> "reindexing", doc |-> d]]
          /\ UNCHANGED indexRows
    /\ UNCHANGED <<ocrRows, points, process, jobs, indexers, crashes, indexFaults>>

(* Variant: the request deletes the points itself.                         *)
ReindexDeletesPoints(r) ==
    /\ callers[r].pc = "reindexing"
    /\ index' = [index EXCEPT ![callers[r].doc] = "pending"]
    /\ points' = [points EXCEPT ![callers[r].doc] = {}]
    /\ callers' = [callers EXCEPT ![r].pc = "queueing"]
    /\ UNCHANGED <<ocrRows, indexed_at, process, jobs, indexers, indexBounds>>

(* The write of reindex, by id alone; the points stay until the new run    *)
(* deletes them.                                                           *)
CommitReindex(r) ==
    /\ callers[r].pc = "reindexing"
    /\ index' = [index EXCEPT ![callers[r].doc] = "pending"]
    /\ callers' = [callers EXCEPT ![r].pc = "queueing"]
    /\ UNCHANGED <<ocrRows, indexed_at, points, process, jobs, indexers, indexBounds>>

(* ThreadPoolJobQueue.enqueue, which starts the pool if it has none: an    *)
(* extraction thread may hand over before start_index_workers has run.     *)
Enqueue(c) ==
    /\ callers[c].pc = "queueing"
    /\ jobs' = Append(jobs, callers[c].doc)
    /\ callers' = [callers EXCEPT ![c] = IdleCaller]
    /\ UNCHANGED <<ocrRows, indexRows, points, process, indexers, indexBounds>>

(* A caller's write fails: a request answers with an error, while          *)
(* schedule_for_ocr_result logs it and returns.  Refused by the database   *)
(* it has rolled back; if it is the refresh that follows the commit, the   *)
(* row stays and no job is queued.  For an extraction thread this is also  *)
(* the refresh after its own commit, which ends the job without the call.  *)
CallerFault(c) ==
    /\ callers[c].pc # "idle"
    /\ indexFaults < MaxFaults
    /\ indexFaults' = indexFaults + 1
    /\ callers' = [callers EXCEPT ![c] = IdleCaller]
    /\ UNCHANGED <<ocrRows, indexRows, points, process, jobs, indexers, reindexes, crashes>>

-----------------------------------------------------------------------------
(* Threads: IndexingService.process *)

Advance(x, stage) == indexers' = [indexers EXCEPT ![x].pc = stage]

Take(x) ==
    /\ indexers[x].pc = "idle"
    /\ jobs # <<>>
    /\ jobs' = Tail(jobs)
    /\ indexers' = [indexers EXCEPT ![x] =
                      [IdleIndexer EXCEPT !.pc = "loaded",
                                          !.doc = Head(jobs),
                                          !.seen = index[Head(jobs)]]]
    /\ UNCHANGED <<ocrRows, indexRows, points, process, callers, indexBounds>>

(* IndexingRepository.claim: UPDATE ... WHERE status = 'pending'. *)
Claim(x) ==
    LET d == indexers[x].doc IN
    /\ indexers[x].pc = "loaded"
    /\ \/ /\ index[d] = "pending"
          /\ index' = [index EXCEPT ![d] = "indexing"]
          /\ indexers' = [indexers EXCEPT
                            ![x].pc = "claimed",
                            ![x].seen = IF @ = "pending" THEN "indexing" ELSE @]
       \/ /\ index[d] # "pending"
          /\ indexers' = [indexers EXCEPT ![x] = IdleIndexer]
          /\ UNCHANGED index
    /\ UNCHANGED <<ocrRows, indexed_at, points, process, jobs, callers, indexBounds>>

(* _load_text: fails unless extraction is completed and has a word.        *)
LoadText(x) ==
    LET d == indexers[x].doc IN
    /\ indexers[x].pc = "claimed"
    /\ \/ /\ HasWords(d)
          /\ indexers' = [indexers EXCEPT ![x].pc = "embedding", ![x].reading = ocr_pages[d]]
       \/ ~HasWords(d) /\ Advance(x, "failed")
    /\ UNCHANGED <<ocrRows, indexRows, points, process, jobs, callers, indexBounds>>

(* _chunk, _embed and ensure_collection: no state changes before they have *)
(* all succeeded; each may fail, and a reading without chunks always does. *)
Embed(x) ==
    /\ indexers[x].pc = "embedding"
    /\ \/ KeptChunks(indexers[x].reading) > 0 /\ Advance(x, "deleting")
       \/ Advance(x, "failed")
    /\ UNCHANGED <<ocrRows, indexRows, points, process, jobs, callers, indexBounds>>

(* Variant: the points of the previous run are not deleted first.          *)
KeepPoints(x) ==
    /\ indexers[x].pc = "deleting"
    /\ Advance(x, "upserting")
    /\ UNCHANGED <<ocrRows, indexRows, points, process, jobs, callers, indexBounds>>

(* delete_document_version.  A call that fails may have been carried out,  *)
(* its answer lost; the same goes for a batch of upsert.                   *)
DeletePoints(x) ==
    /\ indexers[x].pc = "deleting"
    /\ \/ /\ points' = [points EXCEPT ![indexers[x].doc] = {}]
          /\ Advance(x, "upserting") \/ Advance(x, "failed")
       \/ /\ Advance(x, "failed")
          /\ UNCHANGED points
    /\ UNCHANGED <<ocrRows, indexRows, process, jobs, callers, indexBounds>>

(* Variant: the last batch is left out when it is not a full one.          *)
UpsertFullBatches(x) ==
    LET t    == indexers[x].reading
        done == indexers[x].written
        upto == Smaller(done + BatchSize, KeptChunks(t))
    IN
    /\ indexers[x].pc = "upserting"
    /\ points' = [points EXCEPT ![indexers[x].doc] =
                     Upserted(@, {Point(t, n) : n \in done + 1..upto})]
    /\ indexers' = [indexers EXCEPT
                      ![x].written = upto,
                      ![x].pc = IF upto + BatchSize > KeptChunks(t) THEN "indexed" ELSE @]
    /\ UNCHANGED <<ocrRows, indexRows, process, jobs, callers, indexBounds>>

(* One batch of upsert.  A batch that fails leaves the earlier ones.       *)
UpsertBatch(x) ==
    LET t    == indexers[x].reading
        done == indexers[x].written
        upto == Smaller(done + BatchSize, KeptChunks(t))
    IN
    /\ indexers[x].pc = "upserting"
    /\ \/ /\ points' = [points EXCEPT ![indexers[x].doc] =
                          Upserted(@, {Point(t, n) : n \in done + 1..upto})]
          /\ \/ indexers' = [indexers EXCEPT
                               ![x].written = upto,
                               ![x].pc = IF upto = KeptChunks(t) THEN "indexed" ELSE @]
             \/ Advance(x, "failed")
       \/ /\ Advance(x, "failed")
          /\ UNCHANGED points
    /\ UNCHANGED <<ocrRows, indexRows, process, jobs, callers, indexBounds>>

(* _complete and _fail: the status, by id, if the session's copy allows it.*)
Finish(x) ==
    /\ indexers[x].pc \in {"indexed", "failed"}
    /\ CanMove(indexers[x].seen, indexers[x].pc)
    /\ index' = [index EXCEPT ![indexers[x].doc] = indexers[x].pc]
    /\ indexers' = [indexers EXCEPT ![x] = IdleIndexer]
    /\ UNCHANGED <<ocrRows, indexed_at, points, process, jobs, callers, indexBounds>>

(* _transition raises; the queue logs it and the row keeps its status.     *)
Refuse(x) ==
    /\ indexers[x].pc \in {"indexed", "failed"}
    /\ ~CanMove(indexers[x].seen, indexers[x].pc)
    /\ indexers' = [indexers EXCEPT ![x] = IdleIndexer]
    /\ UNCHANGED <<ocrRows, indexRows, points, process, jobs, callers, indexBounds>>

(* The database refuses a statement outside the try block. *)
IndexFault(x) ==
    /\ indexers[x].pc \in {"loaded", "claimed", "indexed", "failed"}
    /\ indexFaults < MaxFaults
    /\ indexFaults' = indexFaults + 1
    /\ indexers' = [indexers EXCEPT ![x] = IdleIndexer]
    /\ UNCHANGED <<ocrRows, indexRows, points, process, jobs, callers, reindexes, crashes>>

-----------------------------------------------------------------------------
(* The process *)

Pending == {d \in Docs : index[d] = "pending"}

RequeuedJobs(batch) ==
    /\ \A i, j \in DOMAIN batch : i < j => indexed_at[batch[i]] < indexed_at[batch[j]]
    /\ \A i \in DOMAIN batch : \A d \in Pending :
         (\A j \in DOMAIN batch : batch[j] # d) => indexed_at[batch[i]] < indexed_at[d]

(* The lifespan begins: the extraction pool is started first. *)
Boot ==
    /\ process = "down"
    /\ process' = "starting"
    /\ UNCHANGED <<ocrRows, indexRows, points, jobs, callers, indexers, indexBounds>>

(* Variant: requeue_pending is not called.                                 *)
StartWithoutRequeue ==
    /\ process = "starting"
    /\ process' = "serving"
    /\ UNCHANGED <<ocrRows, indexRows, points, jobs, callers, indexers, indexBounds>>

(* start_index_workers: pending rows are queued, also those an extraction  *)
(* thread has queued since Boot; then the server takes requests.           *)
StartIndexWorkers ==
    /\ process = "starting"
    /\ process' = "serving"
    /\ \E batch \in [1..Smaller(RequeueLimit, Cardinality(Pending)) -> Pending] :
         RequeuedJobs(batch) /\ jobs' = jobs \o batch
    /\ UNCHANGED <<ocrRows, indexRows, points, callers, indexers, indexBounds>>

(* requeue_pending fails, which is logged. *)
StartIndexFault ==
    /\ process = "starting"
    /\ process' = "serving"
    /\ indexFaults < MaxFaults
    /\ indexFaults' = indexFaults + 1
    /\ UNCHANGED <<ocrRows, indexRows, points, jobs, callers, indexers, reindexes, crashes>>

(* stop_index_workers, after the requests and the extraction pool are done.*)
StopIndexWorkers ==
    /\ process = "serving"
    /\ \A c \in Callers : callers[c].pc = "idle"
    /\ process' = "draining"
    /\ UNCHANGED <<ocrRows, indexRows, points, jobs, callers, indexers, indexBounds>>

Drained ==
    /\ process = "draining"
    /\ jobs = <<>>
    /\ \A x \in IndexThreads : indexers[x].pc = "idle"
    /\ process' = "down"
    /\ UNCHANGED <<ocrRows, indexRows, points, jobs, callers, indexers, indexBounds>>

Crash ==
    /\ process # "down"
    /\ crashes < MaxCrashes
    /\ crashes' = crashes + 1
    /\ process' = "down"
    /\ jobs' = <<>>
    /\ callers' = [c \in Callers |-> IdleCaller]
    /\ indexers' = [x \in IndexThreads |-> IdleIndexer]
    /\ UNCHANGED <<ocrRows, indexRows, points, reindexes, indexFaults>>

-----------------------------------------------------------------------------

(* The environment's choices, not the code's. *)
Admitted(d) ==
    d \in OverlappingReindexes
      \/ ~\E r \in Requests : callers[r] = [pc |-> "reindexing", doc |-> d]

ThreadStep(x) ==
    \/ Take(x) \/ Claim(x) \/ LoadText(x) \/ Embed(x) \/ DeletePoints(x)
    \/ UpsertBatch(x) \/ Finish(x) \/ Refuse(x)

CallerStep(c) == Schedule(c) \/ CommitReindex(c) \/ Enqueue(c)

Next ==
    \/ \E c \in OcrThreads, d \in Docs, t \in Readings :
         /\ ocr_status[d] # "none"
         /\ OcrCompletes(c, d, t)
    \/ \E d \in Docs : OcrMoves(d)
    \/ \E c \in OcrThreads : Schedule(c)
    \/ \E r \in Requests, d \in Docs : Admitted(d) /\ StartReindex(r, d)
    \/ \E r \in Requests : CommitReindex(r)
    \/ \E c \in Callers : Enqueue(c)
    \/ \E c \in Callers : CallerFault(c)
    \/ \E x \in IndexThreads : Take(x)
    \/ \E x \in IndexThreads : Claim(x)
    \/ \E x \in IndexThreads : LoadText(x)
    \/ \E x \in IndexThreads : Embed(x)
    \/ \E x \in IndexThreads : DeletePoints(x)
    \/ \E x \in IndexThreads : UpsertBatch(x)
    \/ \E x \in IndexThreads : Finish(x)
    \/ \E x \in IndexThreads : Refuse(x)
    \/ \E x \in IndexThreads : IndexFault(x)
    \/ Boot
    \/ StartIndexWorkers
    \/ StartIndexFault
    \/ StopIndexWorkers
    \/ Drained
    \/ Crash

Spec == Init /\ [][Next]_vars

-----------------------------------------------------------------------------
(* Properties *)

Holds(x, d) ==
    indexers[x].doc = d /\ indexers[x].pc \notin {"idle", "loaded"}

(* Points are written and deleted only while the row says "indexing", and  *)
(* by the thread that claimed it: a reader of the row knows when the       *)
(* points of a version may be incomplete (services/indexing.py 791-843).   *)
PointsMoveUnderClaim ==
    [][\A d \in Serial : points'[d] # points[d] =>
         index[d] = "indexing" /\ \E x \in IndexThreads : Holds(x, d)]_vars

(* A search never returns passages of two readings of one version, also    *)
(* between the delete and the last batch and after a failure or a crash.   *)
OneReadingPerVersion ==
    \A d \in Serial : \A p, q \in points[d] : p.text = q.text

(* An indexed version has every chunk of one reading and no other point:   *)
(* "avoid duplicate vectors / replace outdated vectors".                   *)
IndexedIsWhole ==
    \A d \in Serial : index[d] = "indexed" => \E t \in Readings : points[d] = PointsOf(t)

=============================================================================
