--------------------------- MODULE EmailDelivery ---------------------------
(***************************************************************************)
(* Delivery of notifications by e-mail: the dispatch that writes a         *)
(* delivery row per notification, the pool that claims and sends it, the   *)
(* sweeper that re-queues what is due and reclaims what a dead thread left *)
(* behind, and the relay that may take a message without saying so         *)
(* (services/email_delivery.py, services/email_worker.py,                  *)
(* repositories/email.py).  The WhatsApp channel has the same handlers     *)
(* (services/whatsapp_delivery.py) with other rows and another provider.   *)
(*                                                                         *)
(* Time is abstract: a row whose next_attempt_at lies ahead is "waiting",  *)
(* one whose started_at is older than EMAIL_STALE_SENDING_SECONDS is       *)
(* "stale".  Every job has a fresh session, so what it reads is committed. *)
(***************************************************************************)
EXTENDS Naturals, Sequences, FiniteSets

CONSTANTS
    Mails,           \* notifications this channel accepts, one row each
    Workers,         \* threads of the pool (EMAIL_WORKER_CONCURRENCY)
    NoMail,          \* no delivery
    MaxAttempts,     \* EMAIL_MAX_ATTEMPTS
    BatchSize,       \* EMAIL_RETRY_BATCH_SIZE
    SlowSends,       \* may a send outlive EMAIL_STALE_SENDING_SECONDS?
    MaxJobs,         \* bound: a sweep begins only with fewer jobs queued
    MaxMishaps       \* bound: crashes, database errors and lost answers

ASSUME EmailConstants ==
    /\ IsFiniteSet(Mails)
    /\ NoMail \notin Mails
    /\ MaxAttempts \in Nat \ {0}
    /\ BatchSize \in Nat \ {0}
    /\ SlowSends \in BOOLEAN
    /\ MaxJobs \in Nat
    /\ MaxMishaps \in Nat

VARIABLES
    status,    \* email_deliveries.status, "none" before the row exists
    created,   \* created_at: equal for the rows of one batch
    attempts,  \* attempts
    waiting,   \* the rows whose next_attempt_at lies ahead
    stale,     \* the rows "sending" for longer than the threshold
    pool,      \* "off", "starting", "on", or "draining" at shutdown
    queue,     \* jobs accepted and not yet taken, oldest first
    handing,   \* rows committed by a dispatch whose job is still to queue
    workers,   \* what each thread is doing
    sweeper,   \* what the sweep in progress is about to do
    inbox,     \* how many copies the recipient has
    crashes, faults, lost   \* how often each mishap has happened

rowVars   == <<status, created, attempts, waiting, stale>>
mishapVars == <<crashes, faults, lost>>
vars      == <<rowVars, pool, queue, handing, workers, sweeper, inbox, mishapVars>>

Statuses == {"none", "pending", "sending", "sent", "failed"}
Outcomes == {"accepted", "transient", "permanent"}

IdleWorker  == [pc |-> "idle", mail |-> NoMail, attempt |-> 0, outcome |-> "permanent"]
IdleSweeper == [pc |-> "idle", due |-> <<>>]

WorkerStates ==
    {IdleWorker} \cup [pc : {"loaded", "claimed", "answered"}, mail : Mails,
                      attempt : Nat, outcome : Outcomes]

TypeOK ==
    /\ status \in [Mails -> Statuses]
    /\ created \in [Mails -> Nat]
    /\ attempts \in [Mails -> Nat]
    /\ waiting \subseteq Mails
    /\ stale \subseteq Mails
    /\ pool \in {"off", "starting", "on", "draining"}
    /\ queue \in Seq(Mails)
    /\ handing \subseteq Mails
    /\ workers \in [Workers -> WorkerStates]
    /\ sweeper \in [pc : {"idle", "reading", "queueing"}, due : Seq(Mails)]
    /\ inbox \in [Mails -> Nat]
    /\ crashes \in Nat
    /\ faults \in Nat
    /\ lost \in Nat

Init ==
    /\ status = [m \in Mails |-> "none"]
    /\ created = [m \in Mails |-> 0]
    /\ attempts = [m \in Mails |-> 0]
    /\ waiting = {}
    /\ stale = {}
    /\ pool = "off"
    /\ queue = <<>>
    /\ handing = {}
    /\ workers = [w \in Workers |-> IdleWorker]
    /\ sweeper = IdleSweeper
    /\ inbox = [m \in Mails |-> 0]
    /\ crashes = 0
    /\ faults = 0
    /\ lost = 0

Mishaps == crashes + faults + lost

Holds(w, m) == workers[w].mail = m /\ workers[w].pc \in {"claimed", "answered"}

-----------------------------------------------------------------------------
(* Dispatch, on the thread that created the notifications *)

RowsExist == {m \in Mails : status[m] # "none"}

(* _queue_batch: the rows of the batch that pass the filters are committed *)
(* together; a batch whose write fails leaves no row and is dropped.  A     *)
(* notification thread that outlives its stop dispatches while the pool    *)
(* drains.                                                                 *)
Dispatch(batch) ==
    /\ pool \in {"on", "draining"}
    /\ batch # {}
    /\ batch \cap RowsExist = {}
    /\ status' = [m \in Mails |-> IF m \in batch THEN "pending" ELSE status[m]]
    /\ created' = [m \in Mails |-> IF m \in batch THEN 1 + Cardinality(RowsExist)
                                                  ELSE created[m]]
    /\ handing' = handing \cup batch
    /\ UNCHANGED <<attempts, waiting, stale, pool, queue, workers, sweeper, inbox, mishapVars>>

(* ThreadPoolJobQueue.enqueue: a submit that meets the shutdown of its     *)
(* pool is rejected, and the row stays pending; a later one creates a new  *)
(* pool.                                                                   *)
HandOver(m) ==
    \/ queue' = Append(queue, m)
    \/ pool = "draining" /\ queue' = queue

(* The last loop of a dispatch: one job per row. *)
Enqueue(m) ==
    /\ m \in handing
    /\ handing' = handing \ {m}
    /\ HandOver(m)
    /\ UNCHANGED <<rowVars, pool, workers, sweeper, inbox, mishapVars>>

(* create_many fails after its commit, while it reads the rows back: they  *)
(* exist and no job is queued for them.                                    *)
DispatchFault(batch) ==
    /\ batch # {}
    /\ batch \subseteq handing
    /\ Mishaps < MaxMishaps
    /\ faults' = faults + 1
    /\ handing' = handing \ batch
    /\ UNCHANGED <<rowVars, pool, queue, workers, sweeper, inbox, crashes, lost>>

-----------------------------------------------------------------------------
(* Worker threads: EmailDeliveryService.process *)

Take(w) ==
    /\ pool # "off"
    /\ workers[w].pc = "idle"
    /\ queue # <<>>
    /\ queue' = Tail(queue)
    /\ workers' = [workers EXCEPT ![w] =
                     [IdleWorker EXCEPT !.pc = "loaded", !.mail = Head(queue)]]
    /\ UNCHANGED <<rowVars, pool, handing, sweeper, inbox, mishapVars>>

(* Variant: the UPDATE of the claim has no condition on the status.        *)
ClaimAny(w) ==
    LET m == workers[w].mail IN
    /\ workers[w].pc = "loaded"
    /\ status' = [status EXCEPT ![m] = "sending"]
    /\ attempts' = [attempts EXCEPT ![m] = @ + 1]
    /\ waiting' = waiting \ {m}
    /\ stale' = stale \ {m}
    /\ workers' = [workers EXCEPT ![w].pc = "claimed", ![w].attempt = attempts[m] + 1]
    /\ UNCHANGED <<created, pool, queue, handing, sweeper, inbox, mishapVars>>

(* claim: pending -> sending in one conditional UPDATE, which counts the   *)
(* attempt, clears next_attempt_at and stamps started_at; next_attempt_at  *)
(* is not part of its condition.  A lost claim ends the job.               *)
Claim(w) ==
    LET m == workers[w].mail IN
    /\ workers[w].pc = "loaded"
    /\ \/ /\ status[m] = "pending"
          /\ status' = [status EXCEPT ![m] = "sending"]
          /\ attempts' = [attempts EXCEPT ![m] = @ + 1]
          /\ waiting' = waiting \ {m}
          /\ stale' = stale \ {m}
          /\ workers' = [workers EXCEPT ![w].pc = "claimed", ![w].attempt = attempts[m] + 1]
       \/ /\ status[m] # "pending"
          /\ workers' = [workers EXCEPT ![w] = IdleWorker]
          /\ UNCHANGED <<status, attempts, waiting, stale>>
    /\ UNCHANGED <<created, pool, queue, handing, sweeper, inbox, mishapVars>>

(* _compose and provider.send: the relay takes the message, or refuses it  *)
(* for now or for good.  A message that cannot be composed is one of the   *)
(* refusals.                                                               *)
Send(w) ==
    /\ workers[w].pc = "claimed"
    /\ \E outcome \in Outcomes :
         /\ workers' = [workers EXCEPT ![w].pc = "answered", ![w].outcome = outcome]
         /\ inbox' = IF outcome = "accepted"
                       THEN [inbox EXCEPT ![workers[w].mail] = @ + 1] ELSE inbox
    /\ UNCHANGED <<rowVars, pool, queue, handing, sweeper, mishapVars>>

(* The relay takes the message and its answer never arrives: a timeout or  *)
(* a dropped connection, which _classify calls transient.                  *)
LoseAnswer(w) ==
    /\ workers[w].pc = "claimed"
    /\ Mishaps < MaxMishaps
    /\ lost' = lost + 1
    /\ inbox' = [inbox EXCEPT ![workers[w].mail] = @ + 1]
    /\ workers' = [workers EXCEPT ![w].pc = "answered", ![w].outcome = "transient"]
    /\ UNCHANGED <<rowVars, pool, queue, handing, sweeper, crashes, faults>>

(* mark_sent, mark_failed and reschedule: UPDATE ... WHERE status =        *)
(* 'sending', which changes nothing once the row was reclaimed.            *)
Record(w, newStatus) ==
    LET m == workers[w].mail IN
    /\ status' = [status EXCEPT ![m] = IF @ = "sending" THEN newStatus ELSE @]
    /\ stale' = stale \ {m}
    /\ workers' = [workers EXCEPT ![w] = IdleWorker]
    /\ UNCHANGED <<created, attempts, pool, queue, handing, sweeper, inbox, mishapVars>>

Exhausted(w) == workers[w].attempt >= MaxAttempts

MarkSent(w) ==
    /\ workers[w].pc = "answered"
    /\ workers[w].outcome = "accepted"
    /\ Record(w, "sent")
    /\ UNCHANGED waiting

(* _record_failure: a transient failure with attempts left goes back to    *)
(* the queue's table with a time in the future; any other is final.        *)
Reschedule(w) ==
    /\ workers[w].pc = "answered"
    /\ workers[w].outcome = "transient"
    /\ ~Exhausted(w)
    /\ Record(w, "pending")
    /\ waiting' = IF status[workers[w].mail] = "sending"
                    THEN waiting \cup {workers[w].mail} ELSE waiting

MarkFailed(w) ==
    /\ workers[w].pc = "answered"
    /\ \/ workers[w].outcome = "permanent"
       \/ workers[w].outcome = "transient" /\ Exhausted(w)
    /\ Record(w, "failed")
    /\ UNCHANGED waiting

(* The database refuses the claim, the read after it or the final UPDATE:  *)
(* the exception reaches the queue's _run and the row stays as it is.      *)
WorkerFault(w) ==
    /\ workers[w].pc # "idle"
    /\ Mishaps < MaxMishaps
    /\ faults' = faults + 1
    /\ workers' = [workers EXCEPT ![w] = IdleWorker]
    /\ UNCHANGED <<rowVars, pool, queue, handing, sweeper, inbox, crashes, lost>>

-----------------------------------------------------------------------------
(* Time *)

BackoffElapses(m) ==
    /\ m \in waiting
    /\ waiting' = waiting \ {m}
    /\ UNCHANGED <<status, created, attempts, stale, pool, queue, handing, workers,
                   sweeper, inbox, mishapVars>>

(* A row whose thread is alive does not get this old, unless SlowSends:    *)
(* the threshold of ten minutes is far above the timeouts of one send.     *)
GoesStale(m) ==
    /\ status[m] = "sending"
    /\ m \notin stale
    /\ SlowSends \/ ~\E w \in Workers : Holds(w, m)
    /\ stale' = stale \cup {m}
    /\ UNCHANGED <<status, created, attempts, waiting, pool, queue, handing, workers,
                   sweeper, inbox, mishapVars>>

-----------------------------------------------------------------------------
(* The sweeper: EmailDeliveryService.sweep, on its own thread *)

(* The first sweep comes before the process serves, the others at an       *)
(* interval.                                                               *)
SweepBegins ==
    /\ sweeper.pc = "idle"
    /\ \/ pool = "starting"
       \/ pool = "on" /\ Len(queue) < MaxJobs
    /\ sweeper' = [sweeper EXCEPT !.pc = "reading"]

SweepEnds ==
    /\ sweeper' = IdleSweeper
    /\ pool' = IF pool = "starting" THEN "on" ELSE pool

(* Variants: rows of any age are reclaimed; none is.                       *)
ReclaimAnyAge ==
    /\ SweepBegins
    /\ status' = [m \in Mails |-> IF status[m] = "sending" THEN "pending" ELSE status[m]]
    /\ stale' = {}
    /\ UNCHANGED <<created, attempts, waiting, pool, queue, handing, workers, inbox, mishapVars>>

ReclaimNothing ==
    /\ SweepBegins
    /\ UNCHANGED <<rowVars, pool, queue, handing, workers, inbox, mishapVars>>

(* reclaim_stale: sending -> pending for every row past the threshold, due *)
(* at once and however many attempts it has had.                           *)
ReclaimStale ==
    /\ SweepBegins
    /\ status' = [m \in Mails |-> IF m \in stale THEN "pending" ELSE status[m]]
    /\ waiting' = waiting \ stale
    /\ stale' = {}
    /\ UNCHANGED <<created, attempts, pool, queue, handing, workers, inbox, mishapVars>>

Due == {m \in Mails : status[m] = "pending" /\ m \notin waiting}

Smaller(m, n) == IF m < n THEN m ELSE n

(* The first BatchSize due rows, oldest first; rows of one age in any order. *)
OldestFirst(batch) ==
    /\ \A i, j \in DOMAIN batch : i < j =>
         batch[i] # batch[j] /\ created[batch[i]] <= created[batch[j]]
    /\ \A i \in DOMAIN batch : \A m \in Due :
         (\A j \in DOMAIN batch : batch[j] # m) => created[batch[i]] <= created[m]

(* due_deliveries, in a transaction of its own. *)
ReadDue ==
    /\ sweeper.pc = "reading"
    /\ \E batch \in [1..Smaller(BatchSize, Cardinality(Due)) -> Due] :
         OldestFirst(batch) /\ sweeper' = [pc |-> "queueing", due |-> batch]
    /\ UNCHANGED <<rowVars, pool, queue, handing, workers, inbox, mishapVars>>

(* A job for each, whether or not the row has one in the queue already. *)
QueueDue ==
    /\ sweeper.pc = "queueing"
    /\ \/ /\ sweeper.due # <<>>
          /\ HandOver(Head(sweeper.due))
          /\ sweeper' = [sweeper EXCEPT !.due = Tail(@)]
          /\ UNCHANGED pool
       \/ /\ sweeper.due = <<>>
          /\ SweepEnds
          /\ UNCHANGED queue
    /\ UNCHANGED <<rowVars, handing, workers, inbox, mishapVars>>

(* A statement of the sweep fails: the pass is given up, the next one      *)
(* repeats it.                                                             *)
SweepFault ==
    /\ \/ sweeper.pc = "reading"
       \/ sweeper.pc = "idle" /\ pool = "starting"
    /\ Mishaps < MaxMishaps
    /\ faults' = faults + 1
    /\ SweepEnds
    /\ UNCHANGED <<rowVars, queue, handing, workers, inbox, crashes, lost>>

-----------------------------------------------------------------------------
(* The process *)

(* start_email_workers: the pool; its first sweep is still to come. *)
Start ==
    /\ pool = "off"
    /\ pool' = "starting"
    /\ UNCHANGED <<rowVars, queue, handing, workers, sweeper, inbox, mishapVars>>

(* stop_email_workers.  A sweep in progress and a late dispatch may still  *)
(* queue jobs.                                                             *)
Stop ==
    /\ pool = "on"
    /\ pool' = "draining"
    /\ UNCHANGED <<rowVars, queue, handing, workers, sweeper, inbox, mishapVars>>

(* The process ends when no thread of a pool has work; the sweeper and the *)
(* notification threads are daemons and end with it.                       *)
Drained ==
    /\ pool = "draining"
    /\ queue = <<>>
    /\ \A w \in Workers : workers[w].pc = "idle"
    /\ pool' = "off"
    /\ handing' = {}
    /\ sweeper' = IdleSweeper
    /\ UNCHANGED <<rowVars, queue, workers, inbox, mishapVars>>

Crash ==
    /\ pool # "off"
    /\ Mishaps < MaxMishaps
    /\ crashes' = crashes + 1
    /\ pool' = "off"
    /\ queue' = <<>>
    /\ handing' = {}
    /\ workers' = [w \in Workers |-> IdleWorker]
    /\ sweeper' = IdleSweeper
    /\ UNCHANGED <<rowVars, inbox, faults, lost>>

-----------------------------------------------------------------------------

WorkerStep(w) ==
    Take(w) \/ Claim(w) \/ Send(w) \/ MarkSent(w) \/ Reschedule(w) \/ MarkFailed(w)

SweeperStep == ReclaimStale \/ ReadDue \/ QueueDue

TimePasses == \E m \in Mails : BackoffElapses(m) \/ GoesStale(m)

ProcessStep == Start \/ Drained

Next ==
    \/ \E batch \in SUBSET Mails : Dispatch(batch)
    \/ \E m \in Mails : Enqueue(m)
    \/ \E batch \in SUBSET Mails : DispatchFault(batch)
    \/ \E w \in Workers : Take(w)
    \/ \E w \in Workers : Claim(w)
    \/ \E w \in Workers : Send(w)
    \/ \E w \in Workers : LoseAnswer(w)
    \/ \E w \in Workers : MarkSent(w)
    \/ \E w \in Workers : Reschedule(w)
    \/ \E w \in Workers : MarkFailed(w)
    \/ \E w \in Workers : WorkerFault(w)
    \/ \E m \in Mails : BackoffElapses(m)
    \/ \E m \in Mails : GoesStale(m)
    \/ ReclaimStale
    \/ ReadDue
    \/ QueueDue
    \/ SweepFault
    \/ Start
    \/ Stop
    \/ Drained
    \/ Crash

Spec == Init /\ [][Next]_vars

(* Threads run, time passes, and a process that is down is started again.  *)
(* Nothing has to be dispatched, to fail or to stop.                       *)
Fairness ==
    /\ WF_vars(\E m \in Mails : Enqueue(m))
    /\ WF_vars(TimePasses)
    /\ \A w \in Workers : WF_vars(WorkerStep(w))
    /\ WF_vars(SweeperStep)
    /\ WF_vars(ProcessStep)

FairSpec == Spec /\ Fairness

-----------------------------------------------------------------------------
(* Properties *)

(* "Exactly one of them sends" (services/email_worker.py 111-113): no two  *)
(* threads are between the claim and the record of one delivery, whoever   *)
(* queued its jobs.                                                        *)
OneSender ==
    \A m \in Mails : \A v, w \in Workers : Holds(v, m) /\ Holds(w, m) => v = w

(* A recipient has more than one copy only as often as the process died,   *)
(* the database failed or an answer was lost; and a delivery reported as   *)
(* failed was received only if one of these hid it.                        *)
CopiesBounded ==
    \A m \in Mails :
        /\ inbox[m] <= 1 + Mishaps
        /\ status[m] = "failed" => inbox[m] <= Mishaps

(* A delivery reported as sent is in the recipient's inbox. *)
SentIsReceived ==
    \A m \in Mails : status[m] = "sent" => inbox[m] > 0

(* EMAIL_MAX_ATTEMPTS bounds the attempts, but for one more each time a    *)
(* send was abandoned: reclaim_stale does not look at the count.           *)
AttemptsBounded ==
    \A m \in Mails : attempts[m] <= MaxAttempts + crashes + faults

(* A queued delivery is sent or given up, whatever dies in between.        *)
EveryMailSettles ==
    \A m \in Mails : status[m] = "pending" ~> status[m] \in {"sent", "failed"}

=============================================================================
