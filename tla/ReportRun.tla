----------------------------- MODULE ReportRun -----------------------------
(***************************************************************************)
(* Report generation: the requests of one user that start, regenerate and  *)
(* withdraw reports, the job queue, and the threads that write a report    *)
(* section by section (services/report.py, services/report_graph.py,       *)
(* services/report_worker.py, repositories/report.py).                     *)
(*                                                                         *)
(* A report is a row that is claimed like an extraction, with three things *)
(* an extraction does not have: a limit on the runs of one user that are   *)
(* queued or running, progress written while the run goes on, and rows     *)
(* that can be withdrawn at any moment.  Other users differ only in the    *)
(* rows count_active counts, so one user is enough.                        *)
(*                                                                         *)
(* Rows are written by id, from session copies that a later read does not  *)
(* refresh.  Two regenerations that read the same row before either writes *)
(* are told apart from the rest by "raced": what such a row still promises *)
(* is less, and the properties say which rows they are about.              *)
(***************************************************************************)
EXTENDS Naturals, Sequences, FiniteSets

CONSTANTS
    MaxReports,      \* bound: rows; report i is the i-th created
    Requests,        \* HTTP requests of the user that can be in progress
    Workers,         \* threads (REPORT_WORKER_CONCURRENCY)
    Sections,        \* sections of a template, at most REPORT_MAX_SECTIONS
    ActiveLimit,     \* REPORT_MAX_ACTIVE_PER_USER
    RequeueLimit,    \* requeue_pending(limit=100)
    NoReport,        \* no report
    MaxEdits,        \* bound: regenerations and withdrawals in a behaviour
    MaxMishaps       \* bound: crashes and database errors in a behaviour

ASSUME ReportConstants ==
    /\ MaxReports \in Nat
    /\ IsFiniteSet(Requests) /\ Requests # {}
    /\ Sections \in Nat \ {0}
    /\ ActiveLimit \in Nat \ {0}
    /\ RequeueLimit \in Nat
    /\ NoReport \notin Nat
    /\ MaxEdits \in Nat /\ MaxMishaps \in Nat

VARIABLES
    status,    \* reports.status, "none" before the row exists
    deleted,   \* the rows with a deleted_at
    attempts,  \* reports.attempt_count
    content,   \* the attempt whose sections and citations the row holds, 0: none
    progress,  \* reports.sections_completed
    heard,     \* the reports' last event published on the event dispatcher
    raced,     \* history: rows on which two regenerations overlapped
    pool, queue, requests, workers,
    edits, crashes, faults   \* counters for the bounds

rowVars   == <<status, deleted, attempts, content, progress, raced>>
boundVars == <<edits, crashes, faults>>
vars      == <<rowVars, heard, pool, queue, requests, workers, boundVars>>

Reports == 1 .. MaxReports

(* core/reports.py: the lifecycle of the other runs, but for one more way  *)
(* out of "processing".                                                    *)
StatusTransitions ==
    [none       |-> {"pending"},
     pending    |-> {"processing", "failed"},
     processing |-> {"completed", "failed", "pending"},
     completed  |-> {"pending"},
     failed     |-> {"pending"}]

Statuses == DOMAIN StatusTransitions

CanRegenerate(current) == current \in {"completed", "failed"}

IdleRequest == [pc |-> "idle", report |-> NoReport, seen |-> 0]
IdleWorker  == [pc |-> "idle", report |-> NoReport, seen |-> "none",
                attempt |-> 0, written |-> 0, grounded |-> FALSE]

RequestStates ==
    {IdleRequest, [IdleRequest EXCEPT !.pc = "admitted"]}
    \cup [pc : {"loaded", "queueing"}, report : Reports, seen : 0..Sections]

WorkerStates ==
    {IdleWorker}
    \cup [pc : {"loaded", "claimed", "writing", "completing", "failing"},
          report : Reports, seen : Statuses, attempt : Nat,
          written : 0..Sections, grounded : BOOLEAN]

TypeOK ==
    /\ status \in [Reports -> Statuses]
    /\ deleted \subseteq Reports
    /\ attempts \in [Reports -> Nat]
    /\ content \in [Reports -> Nat]
    /\ progress \in [Reports -> 0..Sections]
    /\ heard \in [Reports -> {"nothing", "started", "finished"}]
    /\ raced \subseteq Reports
    /\ pool \in {"off", "on", "draining"}
    /\ queue \in Seq(Reports)
    /\ requests \in [Requests -> RequestStates]
    /\ workers \in [Workers -> WorkerStates]
    /\ edits \in Nat /\ crashes \in Nat /\ faults \in Nat

Init ==
    /\ status = [r \in Reports |-> "none"]
    /\ deleted = {}
    /\ attempts = [r \in Reports |-> 0]
    /\ content = [r \in Reports |-> 0]
    /\ progress = [r \in Reports |-> 0]
    /\ heard = [r \in Reports |-> "nothing"]
    /\ raced = {}
    /\ pool = "off"
    /\ queue = <<>>
    /\ requests = [q \in Requests |-> IdleRequest]
    /\ workers = [w \in Workers |-> IdleWorker]
    /\ edits = 0
    /\ crashes = 0
    /\ faults = 0

-----------------------------------------------------------------------------
(* Requests *)

(* ReportRepository.count_active counts these. *)
Active == {r \in Reports \ deleted : status[r] \in {"pending", "processing"}}

(* Requests that have counted them and not yet written.                    *)
Counted == {q \in Requests : requests[q].pc \in {"admitted", "loaded"}}

(* The bound on rows: every admitted request will find a report to create. *)
RoomForRow ==
    Cardinality({r \in Reports : status[r] # "none"})
      + Cardinality({q \in Requests : requests[q].pc = "admitted"}) < MaxReports

(* request_report up to its insert: the active runs are counted.  At the   *)
(* limit the request is refused, which changes nothing.                    *)
Admit(q) ==
    /\ pool = "on"
    /\ requests[q] = IdleRequest
    /\ RoomForRow
    /\ Cardinality(Active) < ActiveLimit
    /\ requests' = [requests EXCEPT ![q].pc = "admitted"]
    /\ UNCHANGED <<rowVars, heard, pool, queue, workers, boundVars>>

(* The insert and its commit. *)
Create(q) ==
    /\ requests[q].pc = "admitted"
    /\ \E r \in Reports :
         /\ status[r] = "none"
         /\ \A s \in Reports : s < r => status[s] # "none"
         /\ status' = [status EXCEPT ![r] = "pending"]
         /\ requests' = [requests EXCEPT ![q] = [pc |-> "queueing", report |-> r, seen |-> 0]]
    /\ UNCHANGED <<deleted, attempts, content, progress, raced,
                   heard, pool, queue, workers, boundVars>>

Overlaps(r) == \E p \in Requests : requests[p].pc = "loaded" /\ requests[p].report = r

(* Variant: a run is regenerated when the limit has been reached.          *)
LoadAtLimit(q, r) ==
    /\ pool = "on"
    /\ requests[q] = IdleRequest
    /\ CanRegenerate(status[r]) /\ r \notin deleted
    /\ Cardinality(Active) <= ActiveLimit
    /\ edits < MaxEdits
    /\ edits' = edits + 1
    /\ requests' = [requests EXCEPT ![q] = [pc |-> "loaded", report |-> r, seen |-> progress[r]]]
    /\ raced' = IF Overlaps(r) THEN raced \cup {r} ELSE raced
    /\ UNCHANGED <<status, deleted, attempts, content, progress,
                   heard, pool, queue, workers, crashes, faults>>

(* regenerate up to its write: a finished report that is not withdrawn is  *)
(* read and the active runs are counted.                                   *)
Load(q, r) ==
    /\ pool = "on"
    /\ requests[q] = IdleRequest
    /\ CanRegenerate(status[r]) /\ r \notin deleted
    /\ Cardinality(Active) < ActiveLimit
    /\ edits < MaxEdits
    /\ edits' = edits + 1
    /\ requests' = [requests EXCEPT ![q] = [pc |-> "loaded", report |-> r, seen |-> progress[r]]]
    /\ raced' = IF Overlaps(r) THEN raced \cup {r} ELSE raced
    /\ UNCHANGED <<status, deleted, attempts, content, progress,
                   heard, pool, queue, workers, crashes, faults>>

(* The write of regenerate: an UPDATE by id of the columns that differ     *)
(* from the copy that was read.  The content of the last attempt stays     *)
(* until the claim.                                                        *)
Regenerate(q) ==
    LET r == requests[q].report IN
    /\ requests[q].pc = "loaded"
    /\ status' = [status EXCEPT ![r] = "pending"]
    /\ progress' = IF requests[q].seen = 0 THEN progress ELSE [progress EXCEPT ![r] = 0]
    /\ requests' = [requests EXCEPT ![q].pc = "queueing", ![q].seen = 0]
    /\ UNCHANGED <<deleted, attempts, content, raced, heard, pool, queue, workers, boundVars>>

(* REPORT_STARTED is published on the dispatcher, then the job is queued.  *)
Enqueue(q) ==
    LET r == requests[q].report IN
    /\ requests[q].pc = "queueing"
    /\ heard' = [heard EXCEPT ![r] = "started"]
    /\ queue' = Append(queue, r)
    /\ requests' = [requests EXCEPT ![q] = IdleRequest]
    /\ UNCHANGED <<rowVars, pool, workers, boundVars>>

(* delete_report: whatever its status, and whatever works on it.           *)
Delete(r) ==
    /\ pool = "on"
    /\ status[r] # "none" /\ r \notin deleted
    /\ edits < MaxEdits
    /\ edits' = edits + 1
    /\ deleted' = deleted \cup {r}
    /\ UNCHANGED <<status, attempts, content, progress, raced,
                   heard, pool, queue, requests, workers, crashes, faults>>

(* The database refuses the insert or the update of a request, or fails    *)
(* the refresh that follows its commit: the row then stays, with no job.   *)
RequestFault(q) ==
    /\ requests[q] # IdleRequest
    /\ crashes + faults < MaxMishaps
    /\ faults' = faults + 1
    /\ requests' = [requests EXCEPT ![q] = IdleRequest]
    /\ UNCHANGED <<rowVars, heard, pool, queue, workers, edits, crashes>>

-----------------------------------------------------------------------------
(* Worker threads: ReportService.process *)

(* A thread takes the oldest job and loads its row, withdrawn or not.      *)
Take(w) ==
    /\ pool # "off"
    /\ workers[w].pc = "idle"
    /\ queue # <<>>
    /\ queue' = Tail(queue)
    /\ workers' = [workers EXCEPT ![w] =
                     [IdleWorker EXCEPT !.pc = "loaded", !.report = Head(queue),
                                        !.seen = status[Head(queue)]]]
    /\ UNCHANGED <<rowVars, heard, pool, requests, boundVars>>

(* Variant: the claim leaves the sections of the last attempt in place.    *)
ClaimKeepsContent(w) ==
    LET r == workers[w].report IN
    /\ workers[w].pc = "loaded"
    /\ \/ /\ status[r] = "pending"
          /\ status' = [status EXCEPT ![r] = "processing"]
          /\ attempts' = [attempts EXCEPT ![r] = @ + 1]
          /\ progress' = [progress EXCEPT ![r] = 0]
          /\ workers' = [workers EXCEPT
                           ![w].pc = "claimed", ![w].attempt = attempts'[r],
                           ![w].seen = IF @ = "pending" THEN "processing" ELSE @]
       \/ /\ status[r] # "pending"
          /\ workers' = [workers EXCEPT ![w] = IdleWorker]
          /\ UNCHANGED <<status, attempts, progress>>
    /\ UNCHANGED <<content, deleted, raced, heard, pool, queue, requests, boundVars>>

(* ReportRepository.claim: one conditional UPDATE that clears the content  *)
(* and counts the attempt.  A row that is not pending is skipped.  The     *)
(* session's copy follows only if it satisfied the condition too.          *)
Claim(w) ==
    LET r == workers[w].report IN
    /\ workers[w].pc = "loaded"
    /\ \/ /\ status[r] = "pending"
          /\ status' = [status EXCEPT ![r] = "processing"]
          /\ attempts' = [attempts EXCEPT ![r] = @ + 1]
          /\ content' = [content EXCEPT ![r] = 0]
          /\ progress' = [progress EXCEPT ![r] = 0]
          /\ workers' = [workers EXCEPT
                           ![w].pc = "claimed", ![w].attempt = attempts'[r],
                           ![w].seen = IF @ = "pending" THEN "processing" ELSE @]
       \/ /\ status[r] # "pending"
          /\ workers' = [workers EXCEPT ![w] = IdleWorker]
          /\ UNCHANGED <<status, attempts, content, progress>>
    /\ UNCHANGED <<deleted, raced, heard, pool, queue, requests, boundVars>>

(* plan_report: the plan is not empty; progress 0 is written.              *)
Plan(w) ==
    /\ workers[w].pc = "claimed"
    /\ progress' = [progress EXCEPT ![workers[w].report] = 0]
    /\ workers' = [workers EXCEPT ![w].pc = "writing"]
    /\ UNCHANGED <<status, deleted, attempts, content, raced,
                   heard, pool, queue, requests, boundVars>>

(* write_section within the deadline: an answer, grounded or not, is kept  *)
(* in memory and the counter is written by id.                             *)
WriteSection(w) ==
    /\ workers[w].pc = "writing"
    /\ workers[w].written < Sections
    /\ progress' = [progress EXCEPT ![workers[w].report] = workers[w].written + 1]
    /\ \E grounded \in BOOLEAN :
         workers' = [workers EXCEPT ![w].written = @ + 1, ![w].grounded = @ \/ grounded]
    /\ UNCHANGED <<status, deleted, attempts, content, raced,
                   heard, pool, queue, requests, boundVars>>

(* The run cannot go on: no requester, the deadline has passed, retrieval  *)
(* or the model failed, an unforeseen exception.                           *)
GiveUp(w) ==
    /\ workers[w].pc \in {"claimed", "writing"}
    /\ workers' = [workers EXCEPT ![w].pc = "failing"]
    /\ UNCHANGED <<rowVars, heard, pool, queue, requests, boundVars>>

(* assemble_report and validate_report: a report with no grounded section  *)
(* fails for want of context.                                              *)
Validate(w) ==
    /\ workers[w].pc = "writing"
    /\ workers[w].written = Sections
    /\ workers' = [workers EXCEPT ![w].pc = IF workers[w].grounded THEN "completing"
                                                                   ELSE "failing"]
    /\ UNCHANGED <<rowVars, heard, pool, queue, requests, boundVars>>

(* Variant: the outcome of a withdrawn report is thrown away.              *)
CompleteUnlessDeleted(w) ==
    LET r == workers[w].report IN
    /\ workers[w].pc = "completing"
    /\ workers[w].seen = "processing"
    /\ IF r \in deleted
       THEN UNCHANGED <<status, content>>
       ELSE /\ status' = [status EXCEPT ![r] = "completed"]
            /\ content' = [content EXCEPT ![r] = workers[w].attempt]
    /\ workers' = [workers EXCEPT ![w] = IdleWorker]
    /\ UNCHANGED <<deleted, attempts, progress, raced,
                   heard, pool, queue, requests, boundVars>>

(* _complete: status and sections by id.  sections_completed equals the    *)
(* copy's value, so it is not written.  The events go to the worker's own  *)
(* publisher, which publishes nothing (run_report_job passes none).        *)
Complete(w) ==
    LET r == workers[w].report IN
    /\ workers[w].pc = "completing"
    /\ workers[w].seen = "processing"
    /\ status' = [status EXCEPT ![r] = "completed"]
    /\ content' = [content EXCEPT ![r] = workers[w].attempt]
    /\ workers' = [workers EXCEPT ![w] = IdleWorker]
    /\ UNCHANGED <<deleted, attempts, progress, raced, heard, pool, queue, requests, boundVars>>

(* _fail: the status by id.  The copy's sections are empty already.        *)
Fail(w) ==
    /\ workers[w].pc = "failing"
    /\ workers[w].seen = "processing"
    /\ status' = [status EXCEPT ![workers[w].report] = "failed"]
    /\ workers' = [workers EXCEPT ![w] = IdleWorker]
    /\ UNCHANGED <<deleted, attempts, content, progress, raced,
                   heard, pool, queue, requests, boundVars>>

(* _transition raises on a stale copy; the queue logs the exception.       *)
Refuse(w) ==
    /\ workers[w].pc \in {"completing", "failing"}
    /\ workers[w].seen # "processing"
    /\ workers' = [workers EXCEPT ![w] = IdleWorker]
    /\ UNCHANGED <<rowVars, heard, pool, queue, requests, boundVars>>

(* A database error in the thread: _fail cannot write either, and the row  *)
(* keeps its status.                                                       *)
WorkerFault(w) ==
    /\ workers[w].pc # "idle"
    /\ crashes + faults < MaxMishaps
    /\ faults' = faults + 1
    /\ workers' = [workers EXCEPT ![w] = IdleWorker]
    /\ UNCHANGED <<rowVars, heard, pool, queue, requests, edits, crashes>>

-----------------------------------------------------------------------------
(* The process *)

Pending == {r \in Reports : status[r] = "pending"}

(* pending_reports: the oldest rows that are pending and not withdrawn.    *)
Requeued(rows, jobs) ==
    /\ Len(jobs) = IF Cardinality(rows) < RequeueLimit THEN Cardinality(rows) ELSE RequeueLimit
    /\ \A i, j \in DOMAIN jobs : i < j => jobs[i] < jobs[j]
    /\ \A i \in DOMAIN jobs : \A r \in rows :
         (\A j \in DOMAIN jobs : jobs[j] # r) => jobs[i] < r

JobLists(rows) == UNION {[1..n -> rows] : n \in 0..Cardinality(rows)}

StartWithDeleted ==
    /\ pool = "off"
    /\ pool' = "on"
    /\ \E jobs \in JobLists(Pending) : Requeued(Pending, jobs) /\ queue' = jobs
    /\ UNCHANGED <<rowVars, heard, requests, workers, boundVars>>

Start ==
    /\ pool = "off"
    /\ pool' = "on"
    /\ \E jobs \in JobLists(Pending \ deleted) :
         Requeued(Pending \ deleted, jobs) /\ queue' = jobs
    /\ UNCHANGED <<rowVars, heard, requests, workers, boundVars>>

(* requeue_pending fails, which is logged. *)
StartFault ==
    /\ pool = "off"
    /\ pool' = "on"
    /\ crashes + faults < MaxMishaps
    /\ faults' = faults + 1
    /\ UNCHANGED <<rowVars, heard, queue, requests, workers, edits, crashes>>

Stop ==
    /\ pool = "on"
    /\ \A q \in Requests : requests[q].pc = "idle"
    /\ pool' = "draining"
    /\ UNCHANGED <<rowVars, heard, queue, requests, workers, boundVars>>

Drained ==
    /\ pool = "draining"
    /\ queue = <<>>
    /\ \A w \in Workers : workers[w].pc = "idle"
    /\ pool' = "off"
    /\ UNCHANGED <<rowVars, heard, queue, requests, workers, boundVars>>

Crash ==
    /\ pool # "off"
    /\ crashes + faults < MaxMishaps
    /\ crashes' = crashes + 1
    /\ pool' = "off"
    /\ queue' = <<>>
    /\ requests' = [q \in Requests |-> IdleRequest]
    /\ workers' = [w \in Workers |-> IdleWorker]
    /\ UNCHANGED <<rowVars, heard, edits, faults>>

-----------------------------------------------------------------------------

RequestStep(q) == Create(q) \/ Regenerate(q) \/ Enqueue(q)

WorkerStep(w) ==
    \/ Take(w) \/ Claim(w) \/ Plan(w) \/ WriteSection(w) \/ GiveUp(w)
    \/ Validate(w) \/ Complete(w) \/ Fail(w) \/ Refuse(w)

Next ==
    \/ \E q \in Requests : Admit(q)
    \/ \E q \in Requests, r \in Reports : Load(q, r)
    \/ \E q \in Requests : RequestStep(q)
    \/ \E q \in Requests : RequestFault(q)
    \/ \E r \in Reports : Delete(r)
    \/ \E w \in Workers : WorkerStep(w)
    \/ \E w \in Workers : WorkerFault(w)
    \/ Start
    \/ StartFault
    \/ Stop
    \/ Drained
    \/ Crash

Spec == Init /\ [][Next]_vars

(* Accepted requests and threads go on, a process that is down is started. *)
Fairness ==
    /\ \A q \in Requests : WF_vars(RequestStep(q))
    /\ \A w \in Workers : WF_vars(WorkerStep(w))
    /\ WF_vars(Start)
    /\ WF_vars(Drained)

FairSpec == Spec /\ Fairness

-----------------------------------------------------------------------------
(* Properties *)

HasJob(r) ==
    \/ \E i \in DOMAIN queue : queue[i] = r
    \/ \E w \in Workers : workers[w].pc = "loaded" /\ workers[w].report = r
    \/ \E q \in Requests : requests[q].pc = "queueing" /\ requests[q].report = r

(* The limit on a user's active runs.  They are counted before the row is  *)
(* written, by requests that insert and by requests that regenerate, so    *)
(* requests that overlap may pass it together.  The active runs and the    *)
(* requests that may still add one exceed the limit by less than the       *)
(* number of requests that can overlap, however often that happens and     *)
(* whatever ends, is withdrawn or fails in between.                        *)
ActiveBounded ==
    Cardinality(Active) + Cardinality(Counted) < ActiveLimit + Cardinality(Requests)

(* What is read and exported belongs to the attempt the row describes: a   *)
(* completed report holds all the sections of its latest attempt, and a    *)
(* run in progress or failed shows none of an earlier one.                 *)
ContentOfLatestAttempt ==
    \A r \in Reports \ raced :
        /\ status[r] = "completed" => content[r] = attempts[r] /\ progress[r] = Sections
        /\ status[r] \in {"processing", "failed"} => content[r] = 0

(* A withdrawn report gets no new job, neither at startup nor from a       *)
(* request that had not read it before.                                    *)
WithdrawnIsFinal ==
    [][\A r \in deleted :
         /\ r \in deleted'
         /\ HasJob(r)' => HasJob(r) \/ \E q \in Requests : requests[q].report = r]_vars

(* Every run ends, whatever stage of it fails and whether or not it is     *)
(* withdrawn meanwhile: nothing stays active for good and takes its user's *)
(* place under the limit.                                                  *)
ReportsFinish ==
    \A r \in Reports :
        status[r] \in {"pending", "processing"} ~>
            \/ CanRegenerate(status[r])
            \/ r \in raced \/ crashes + faults > 0

(* "The streaming half, on the same envelope as every other event"         *)
(* (services/report.py 1038): a report that finishes is announced to the   *)
(* user who is watching it.                                                *)
OutcomeIsHeard ==
    \A r \in Reports : CanRegenerate(status[r]) ~> heard[r] = "finished"

=============================================================================
