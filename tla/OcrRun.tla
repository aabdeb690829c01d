------------------------------- MODULE OcrRun -------------------------------
(***************************************************************************)
(* Text extraction of document versions: the HTTP requests that schedule   *)
(* and retry a run, the in-process job queue, the worker threads that      *)
(* claim and execute it, and the life of the process around them           *)
(* (services/ocr.py, services/ocr_queue.py, services/ocr_worker.py,        *)
(* repositories/ocr.py).                                                   *)
(*                                                                         *)
(* One action is one step between two commits (or two reads) of the code:  *)
(* what happens inside one database transaction is one action.  Every      *)
(* request and every job has a database session of its own, whose copy of  *)
(* a row is not refreshed by reading it again (db/session.py turns off     *)
(* expire_on_commit); "seen" is a worker's copy of its row's status.       *)
(***************************************************************************)
EXTENDS Naturals, Sequences, FiniteSets

CONSTANTS
    Docs,            \* document versions, each the key of at most one run
    Supported,       \* those whose file type OCR applies to
    Requests,        \* HTTP requests that can be in progress together
    Workers,         \* threads of the pool (OCR_WORKER_CONCURRENCY)
    Readings,        \* the texts an extraction may produce
    NoReading,       \* no stored page, or no text produced
    NoDoc,           \* no document version
    RequeueLimit,    \* requeue_pending(limit=100)
    Overlapping,     \* the versions whose retries may overlap each other
    MaxRetries,      \* bound: retries requested in a behaviour
    MaxCrashes,      \* bound: process crashes in a behaviour
    MaxFaults        \* bound: database errors in requests and threads

ASSUME OcrConstants ==
    /\ IsFiniteSet(Docs)
    /\ Supported \subseteq Docs
    /\ NoReading \notin Readings
    /\ NoDoc \notin Docs
    /\ Overlapping \subseteq Docs
    /\ RequeueLimit \in Nat
    /\ MaxRetries \in Nat
    /\ MaxCrashes \in Nat
    /\ MaxFaults \in Nat

VARIABLES
    stored,    \* the versions whose upload has committed
    status,    \* ocr_results.status, "none" before the row exists
    pages,     \* ocr_pages of the run: the reading they hold
    created,   \* ocr_results.created_at, as the position among the rows
    pool,      \* the executor: "off", "on", or "draining" at shutdown
    queue,     \* jobs accepted and not yet taken by a thread, oldest first
    requests,  \* what each request in progress is about to do
    workers,   \* what each thread is doing
    retries, crashes, faults   \* counters for the bounds

rowVars     == <<stored, status, pages, created>>
boundVars   == <<retries, crashes, faults>>
vars        == <<rowVars, pool, queue, requests, workers, boundVars>>

(* The versions whose retries the environment keeps apart. *)
Serial == Docs \ Overlapping

SerialRows == [d \in Serial |-> status[d]]

Lifecycle == INSTANCE RunLifecycle WITH Runs <- Serial, status <- SerialRows

Outcomes == Readings \cup {NoReading}

IdleRequest == [pc |-> "idle", doc |-> NoDoc]
IdleWorker  == [pc |-> "idle", doc |-> NoDoc, seen |-> "none", outcome |-> NoReading]

RequestStates ==
    {IdleRequest} \cup [pc : {"scheduling", "retrying", "queueing"}, doc : Docs]

WorkerStates ==
    {IdleWorker} \cup [pc   : {"loaded", "processing", "saving", "saved"},
                      doc  : Docs,
                      seen : Lifecycle!Statuses,
                      outcome : Outcomes]

TypeOK ==
    /\ stored \subseteq Docs
    /\ status \in [Docs -> Lifecycle!Statuses]
    /\ pages \in [Docs -> Outcomes]
    /\ created \in [Docs -> Nat]
    /\ pool \in {"off", "on", "draining"}
    /\ queue \in Seq(Docs)
    /\ requests \in [Requests -> RequestStates]
    /\ workers \in [Workers -> WorkerStates]
    /\ retries \in Nat
    /\ crashes \in Nat
    /\ faults \in Nat

Init ==
    /\ stored = {}
    /\ status = [d \in Docs |-> "none"]
    /\ pages = [d \in Docs |-> NoReading]
    /\ created = [d \in Docs |-> 0]
    /\ pool = "off"
    /\ queue = <<>>
    /\ requests = [r \in Requests |-> IdleRequest]
    /\ workers = [w \in Workers |-> IdleWorker]
    /\ retries = 0
    /\ crashes = 0
    /\ faults = 0

-----------------------------------------------------------------------------
(* Requests *)

RowsExist == {d \in Docs : status[d] # "none"}

(* INSERT of a "pending" row; the unique constraint on (document, version) *)
(* makes a second insert of d impossible.                                  *)
InsertRow(d) ==
    /\ status[d] = "none"
    /\ status' = [status EXCEPT ![d] = "pending"]
    /\ created' = [created EXCEPT ![d] = 1 + Cardinality(RowsExist)]
    /\ UNCHANGED <<stored, pages>>

(* upload_document or replace_document: the object and the version row are *)
(* stored and committed; scheduling extraction is the request's last call. *)
Upload(r, d) ==
    /\ pool = "on"
    /\ requests[r].pc = "idle"
    /\ d \notin stored
    /\ stored' = stored \cup {d}
    /\ requests' = [requests EXCEPT ![r] = [pc |-> "scheduling", doc |-> d]]
    /\ UNCHANGED <<status, pages, created, pool, queue, workers, boundVars>>

(* _schedule: nothing for an unsupported type, an existing run is returned *)
(* untouched, otherwise the row is committed and its job is still to queue.*)
Schedule(r) ==
    /\ requests[r].pc = "scheduling"
    /\ \/ /\ requests[r].doc \in Supported
          /\ InsertRow(requests[r].doc)
          /\ requests' = [requests EXCEPT ![r].pc = "queueing"]
       \/ /\ requests[r].doc \notin Supported \/ status[requests[r].doc] # "none"
          /\ requests' = [requests EXCEPT ![r] = IdleRequest]
          /\ UNCHANGED rowVars
    /\ UNCHANGED <<pool, queue, workers, boundVars>>

(* Variant: can_retry is not asked, so a run in progress is retried.       *)
RetryAnyStatus(r, d) ==
    /\ pool = "on"
    /\ requests[r].pc = "idle"
    /\ d \in stored \cap Supported
    /\ status[d] # "none"
    /\ retries < MaxRetries
    /\ retries' = retries + 1
    /\ requests' = [requests EXCEPT ![r] = [pc |-> "retrying", doc |-> d]]
    /\ UNCHANGED <<rowVars, pool, queue, workers, crashes, faults>>

(* retry, up to its write: a version without a run gets its first one, a   *)
(* terminal run is read and goes on to CommitRetry; a run that is pending  *)
(* or processing is refused, which changes nothing.                        *)
StartRetry(r, d) ==
    /\ pool = "on"
    /\ requests[r].pc = "idle"
    /\ d \in stored \cap Supported
    /\ retries < MaxRetries
    /\ retries' = retries + 1
    /\ \/ /\ InsertRow(d)
          /\ requests' = [requests EXCEPT ![r] = [pc |-> "queueing", doc |-> d]]
       \/ /\ Lifecycle!CanRetry(status[d])
          /\ requests' = [requests EXCEPT ![r] = [pc |-> "retrying", doc |-> d]]
          /\ UNCHANGED rowVars
    /\ UNCHANGED <<pool, queue, workers, crashes, faults>>

(* Variants: the pages of the previous attempt are left in place, or the   *)
(* run is put straight back to "processing".                               *)
RetryKeepsPages(r) ==
    /\ requests[r].pc = "retrying"
    /\ status' = [status EXCEPT ![requests[r].doc] = "pending"]
    /\ requests' = [requests EXCEPT ![r].pc = "queueing"]
    /\ UNCHANGED <<stored, pages, created, pool, queue, workers, boundVars>>

RetryRestarts(r) ==
    /\ requests[r].pc = "retrying"
    /\ status' = [status EXCEPT ![requests[r].doc] = "processing"]
    /\ pages' = [pages EXCEPT ![requests[r].doc] = NoReading]
    /\ requests' = [requests EXCEPT ![r].pc = "queueing"]
    /\ UNCHANGED <<stored, created, pool, queue, workers, boundVars>>

(* The write of retry: pages deleted and status set to "pending" in one    *)
(* commit, by an UPDATE whose only condition is the row's id.              *)
CommitRetry(r) ==
    /\ requests[r].pc = "retrying"
    /\ status' = [status EXCEPT ![requests[r].doc] = "pending"]
    /\ pages' = [pages EXCEPT ![requests[r].doc] = NoReading]
    /\ requests' = [requests EXCEPT ![r].pc = "queueing"]
    /\ UNCHANGED <<stored, created, pool, queue, workers, boundVars>>

(* ThreadPoolOcrJobQueue.enqueue, after the commit. *)
Enqueue(r) ==
    /\ requests[r].pc = "queueing"
    /\ queue' = Append(queue, requests[r].doc)
    /\ requests' = [requests EXCEPT ![r] = IdleRequest]
    /\ UNCHANGED <<rowVars, pool, workers, boundVars>>

(* A request's write fails: a retry answers with an error, an upload logs  *)
(* it (schedule_for_document) and goes on.  Refused by the database it has *)
(* rolled back, and leaves an uploaded version without a run; if it is the *)
(* refresh that follows the commit, the row stays and no job is queued.    *)
RequestFault(r) ==
    /\ requests[r].pc # "idle"
    /\ faults < MaxFaults
    /\ faults' = faults + 1
    /\ requests' = [requests EXCEPT ![r] = IdleRequest]
    /\ UNCHANGED <<rowVars, pool, queue, workers, retries, crashes>>

-----------------------------------------------------------------------------
(* Worker threads: OcrService.process *)

(* A thread takes the oldest job and loads its row into a new session. *)
Take(w) ==
    /\ pool # "off"
    /\ workers[w].pc = "idle"
    /\ queue # <<>>
    /\ queue' = Tail(queue)
    /\ workers' = [workers EXCEPT ![w] =
                     [IdleWorker EXCEPT !.pc = "loaded",
                                        !.doc = Head(queue),
                                        !.seen = status[Head(queue)]]]
    /\ UNCHANGED <<rowVars, pool, requests, boundVars>>

(* OcrRepository.claim: UPDATE ... WHERE status = 'pending'.  A row in any *)
(* other state is left alone and the job is skipped.  The session's copy   *)
(* follows the UPDATE only if it satisfied the condition too.              *)
Claim(w) ==
    LET d == workers[w].doc IN
    /\ workers[w].pc = "loaded"
    /\ \/ /\ status[d] = "pending"
          /\ status' = [status EXCEPT ![d] = "processing"]
          /\ workers' = [workers EXCEPT
                           ![w].pc = "processing",
                           ![w].seen = IF @ = "pending" THEN "processing" ELSE @]
       \/ /\ status[d] # "pending"
          /\ workers' = [workers EXCEPT ![w] = IdleWorker]
          /\ UNCHANGED status
    /\ UNCHANGED <<stored, pages, created, pool, queue, requests, boundVars>>

(* The engine reads the stored file: some text, or any of the failures     *)
(* (missing version, storage, engine, timeout, no page at all).            *)
Extract(w) ==
    /\ workers[w].pc = "processing"
    /\ \E outcome \in Outcomes :
         workers' = [workers EXCEPT ![w].pc = "saving", ![w].outcome = outcome]
    /\ UNCHANGED <<rowVars, pool, queue, requests, boundVars>>

Target(w) == IF workers[w].outcome = NoReading THEN "failed" ELSE "completed"

(* _complete: the new pages and the status, in one commit by id. *)
Complete(w) ==
    LET d == workers[w].doc IN
    /\ workers[w].pc = "saving"
    /\ Target(w) = "completed"
    /\ Lifecycle!CanTransition(workers[w].seen, "completed")
    /\ status' = [status EXCEPT ![d] = "completed"]
    /\ pages' = [pages EXCEPT ![d] = workers[w].outcome]
    /\ workers' = [workers EXCEPT ![w].pc = "saved"]
    /\ UNCHANGED <<stored, created, pool, queue, requests, boundVars>>

(* Variant: a failure is logged and not recorded.                          *)
FailUnrecorded(w) ==
    /\ workers[w].pc = "saving"
    /\ Target(w) = "failed"
    /\ workers' = [workers EXCEPT ![w] = IdleWorker]
    /\ UNCHANGED <<rowVars, pool, queue, requests, boundVars>>

(* _fail: the status alone, by id; the pages are not written. *)
Fail(w) ==
    LET d == workers[w].doc IN
    /\ workers[w].pc = "saving"
    /\ Target(w) = "failed"
    /\ Lifecycle!CanTransition(workers[w].seen, "failed")
    /\ status' = [status EXCEPT ![d] = "failed"]
    /\ workers' = [workers EXCEPT ![w] = IdleWorker]
    /\ UNCHANGED <<stored, pages, created, pool, queue, requests, boundVars>>

(* _transition raises on the session's copy; the queue logs the exception  *)
(* and the row keeps the status the claim gave it.                         *)
Refuse(w) ==
    /\ workers[w].pc = "saving"
    /\ ~Lifecycle!CanTransition(workers[w].seen, Target(w))
    /\ workers' = [workers EXCEPT ![w] = IdleWorker]
    /\ UNCHANGED <<rowVars, pool, queue, requests, boundVars>>

(* The last call of a completed run hands the text to indexing, unless the *)
(* refresh after its commit fails, which ends the job the same way here.   *)
HandOn(w) ==
    /\ workers[w].pc = "saved"
    /\ workers' = [workers EXCEPT ![w] = IdleWorker]
    /\ UNCHANGED <<rowVars, pool, queue, requests, boundVars>>

(* The database refuses a read before the try block, the claim or the      *)
(* final save: the exception reaches the queue's _run, which logs it.      *)
WorkerFault(w) ==
    /\ workers[w].pc \in {"loaded", "processing", "saving"}
    /\ faults < MaxFaults
    /\ faults' = faults + 1
    /\ workers' = [workers EXCEPT ![w] = IdleWorker]
    /\ UNCHANGED <<rowVars, pool, queue, requests, retries, crashes>>

-----------------------------------------------------------------------------
(* The process *)

Pending == {d \in Docs : status[d] = "pending"}

(* The first RequeueLimit pending rows, oldest first. *)
RequeuedJobs(jobs) ==
    /\ \A i, j \in DOMAIN jobs : i < j => created[jobs[i]] < created[jobs[j]]
    /\ \A i \in DOMAIN jobs : \A d \in Pending :
         (\A j \in DOMAIN jobs : jobs[j] # d) => created[jobs[i]] < created[d]

Smaller(m, n) == IF m < n THEN m ELSE n

(* Variant: the pool is created and requeue_pending is not called.         *)
StartWithoutRequeue ==
    /\ pool = "off"
    /\ pool' = "on"
    /\ UNCHANGED <<rowVars, queue, requests, workers, boundVars>>

(* start_ocr_workers: the pool is created and pending rows are re-queued   *)
(* before the first request is served.                                     *)
Start ==
    /\ pool = "off"
    /\ pool' = "on"
    /\ \E jobs \in [1..Smaller(RequeueLimit, Cardinality(Pending)) -> Pending] :
         RequeuedJobs(jobs) /\ queue' = jobs
    /\ UNCHANGED <<rowVars, requests, workers, boundVars>>

(* requeue_pending fails: it is logged, and the requests are served all    *)
(* the same.                                                               *)
StartFault ==
    /\ pool = "off"
    /\ pool' = "on"
    /\ faults < MaxFaults
    /\ faults' = faults + 1
    /\ UNCHANGED <<rowVars, queue, requests, workers, retries, crashes>>

(* Graceful shutdown: the server has finished its requests, the executor   *)
(* takes no new job and runs those it has.                                 *)
Stop ==
    /\ pool = "on"
    /\ \A r \in Requests : requests[r].pc = "idle"
    /\ pool' = "draining"
    /\ UNCHANGED <<rowVars, queue, requests, workers, boundVars>>

Drained ==
    /\ pool = "draining"
    /\ queue = <<>>
    /\ \A w \in Workers : workers[w].pc = "idle"
    /\ pool' = "off"
    /\ UNCHANGED <<rowVars, queue, requests, workers, boundVars>>

(* The process dies: what was in memory is gone, what was committed stays. *)
Crash ==
    /\ pool # "off"
    /\ crashes < MaxCrashes
    /\ crashes' = crashes + 1
    /\ pool' = "off"
    /\ queue' = <<>>
    /\ requests' = [r \in Requests |-> IdleRequest]
    /\ workers' = [w \in Workers |-> IdleWorker]
    /\ UNCHANGED <<rowVars, retries, faults>>

-----------------------------------------------------------------------------

(* The environment's choice, not the code's: unless retries overlap, no    *)
(* retry of d begins while another one is between its read and its write.  *)
Admitted(d) ==
    d \in Overlapping \/ ~\E q \in Requests : requests[q] = [pc |-> "retrying", doc |-> d]

RequestStep(r) == Schedule(r) \/ CommitRetry(r) \/ Enqueue(r)

Next ==
    \/ \E r \in Requests, d \in Docs : Upload(r, d)
    \/ \E r \in Requests, d \in Docs : Admitted(d) /\ StartRetry(r, d)
    \/ \E r \in Requests : Schedule(r)
    \/ \E r \in Requests : CommitRetry(r)
    \/ \E r \in Requests : Enqueue(r)
    \/ \E r \in Requests : RequestFault(r)
    \/ \E w \in Workers : Take(w)
    \/ \E w \in Workers : Claim(w)
    \/ \E w \in Workers : Extract(w)
    \/ \E w \in Workers : Complete(w)
    \/ \E w \in Workers : Fail(w)
    \/ \E w \in Workers : Refuse(w)
    \/ \E w \in Workers : HandOn(w)
    \/ \E w \in Workers : WorkerFault(w)
    \/ Start
    \/ StartFault
    \/ Stop
    \/ Drained
    \/ Crash

Spec == Init /\ [][Next]_vars

-----------------------------------------------------------------------------
(* Properties.  Those of a run and its pages are claims about the versions *)
(* whose retries are serial; that every pending run has a job is one about *)
(* all of them.                                                            *)

Holds(w, d) == workers[w].doc = d /\ workers[w].pc \in {"processing", "saving"}

(* "Only one worker may process a document at a time" (repositories/ocr.py *)
(* 10-13): no two threads are between the claim and the save of one run.   *)
ExclusiveRun ==
    \A d \in Serial : \A v, w \in Workers : Holds(v, d) /\ Holds(w, d) => v = w

(* While a thread holds a run, the row says "processing": no request and   *)
(* no other thread rewrites a row that is being worked on.                 *)
HeldRunIsProcessing ==
    \A d \in Serial : \A w \in Workers : Holds(w, d) => status[d] = "processing"

(* A retry that is about to write has a finished run to itself: neither a  *)
(* thread nor another retry can change the row before the write does.      *)
RetryOwnsRun ==
    \A r \in Requests : requests[r].pc = "retrying" /\ requests[r].doc \in Serial =>
        /\ Lifecycle!CanRetry(status[requests[r].doc])
        /\ \A q \in Requests :
             requests[q].pc = "retrying" /\ requests[q].doc = requests[r].doc => q = r

(* get_text returns the pages of the run as it stands: they are there when *)
(* the run completed, and a run that is queued, running or failed shows no *)
(* text of an earlier attempt.                                             *)
PagesIffCompleted ==
    \A d \in Serial : pages[d] # NoReading <=> status[d] = "completed"

(* A queue job exists for every pending row of a live process, unless a    *)
(* database error swallowed it or more rows were pending at startup than   *)
(* requeue_pending reads: nothing else would ever pick the row up.         *)
HasJob(d) ==
    \/ \E i \in DOMAIN queue : queue[i] = d
    \/ \E w \in Workers : workers[w].pc = "loaded" /\ workers[w].doc = d
    \/ \E r \in Requests : requests[r].pc = "queueing" /\ requests[r].doc = d

NoPendingRunLost ==
    pool # "off" /\ faults = 0 /\ RequeueLimit >= Cardinality(Docs)
        => \A d \in Pending : HasJob(d)

(* The rows follow STATUS_TRANSITIONS whatever the interleaving.           *)
ImplementsLifecycle == Lifecycle!Spec

=============================================================================
