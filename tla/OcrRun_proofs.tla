--------------------------- MODULE OcrRun_proofs ---------------------------
(***************************************************************************)
(* Proofs about OcrRun, for any number of documents, requests and threads. *)
(***************************************************************************)
EXTENDS OcrRun, TLAPS, FiniteSetTheorems

(* The status table as a relation: what the rest needs to know of it.      *)
LEMMA StatusTable ==
    /\ Lifecycle!Statuses = {"none", "pending", "processing", "completed", "failed"}
    /\ \A s : Lifecycle!CanRetry(s) <=> s \in {"completed", "failed"}
    /\ \A s, t : Lifecycle!CanTransition(s, t) <=>
          \/ s = "pending" /\ t \in {"processing", "failed"}
          \/ s = "processing" /\ t \in {"completed", "failed"}
          \/ s \in {"completed", "failed"} /\ t = "pending"
BY SMT DEF Lifecycle!Statuses, Lifecycle!LifecycleStatuses, Lifecycle!CanRetry,
       Lifecycle!RetryableStatuses, Lifecycle!StatusTransitions, Lifecycle!CanTransition

(* The cardinalities the model counts with are natural numbers.            *)
LEMMA CountsAreNat ==
    \A S \in SUBSET Docs : Cardinality(S) \in Nat
BY OcrConstants, FS_Subset, FS_CardinalityType DEF OcrConstants

-----------------------------------------------------------------------------
(* What a request or a thread holds while it is not idle.                  *)

(* A request or a thread without work is in its type.                      *)
LEMMA IdleStates == IdleRequest \in RequestStates /\ IdleWorker \in WorkerStates
BY DEF RequestStates, WorkerStates

(* A request in progress names a version, and moving on to queueing its    *)
(* job keeps it in its type (Schedule and CommitRetry).                    *)
LEMMA RequestFacts ==
    ASSUME NEW q \in RequestStates, q.pc # "idle"
    PROVE  /\ q.doc \in Docs
           /\ [q EXCEPT !.pc = "queueing"] \in RequestStates
BY DEF RequestStates, IdleRequest

(* The state an upload or a retry puts its request in is in its type.      *)
LEMMA NewRequestFacts ==
    ASSUME NEW d \in Docs, NEW pc \in {"scheduling", "retrying", "queueing"}
    PROVE  [pc |-> pc, doc |-> d] \in RequestStates
BY DEF RequestStates

(* A thread with a job names a version, has a copy of the row's status and *)
(* an outcome, and stays in its type as it claims, extracts and saves.     *)
LEMMA WorkerFacts ==
    ASSUME NEW q \in WorkerStates, q.pc # "idle"
    PROVE  /\ q.doc \in Docs
           /\ q.seen \in Lifecycle!Statuses
           /\ q.outcome \in Outcomes
           /\ [q EXCEPT !.pc = "saved"] \in WorkerStates
           /\ \A seen \in Lifecycle!Statuses :
                [q EXCEPT !.pc = "processing", !.seen = seen] \in WorkerStates
           /\ \A outcome \in Outcomes :
                [q EXCEPT !.pc = "saving", !.outcome = outcome] \in WorkerStates
<1>1. q \in [pc : {"loaded", "processing", "saving", "saved"}, doc : Docs,
             seen : Lifecycle!Statuses, outcome : Outcomes]
  BY DEF WorkerStates, IdleWorker
<1>2. [q EXCEPT !.pc = "saved"] \in WorkerStates
  BY <1>1 DEF WorkerStates
<1>3. ASSUME NEW seen \in Lifecycle!Statuses
      PROVE  [q EXCEPT !.pc = "processing", !.seen = seen] \in WorkerStates
  BY <1>1 DEF WorkerStates
<1>4. ASSUME NEW outcome \in Outcomes
      PROVE  [q EXCEPT !.pc = "saving", !.outcome = outcome] \in WorkerStates
  BY <1>1 DEF WorkerStates
<1> QED
  BY <1>1, <1>2, <1>3, <1>4

(* The state of a thread that has just loaded a row is in its type (Take). *)
LEMMA LoadedWorkerFacts ==
    ASSUME NEW d \in Docs, NEW s \in Lifecycle!Statuses
    PROVE  [IdleWorker EXCEPT !.pc = "loaded", !.doc = d, !.seen = s] \in WorkerStates
BY DEF WorkerStates, IdleWorker, Outcomes

(* Every request in progress and every busy thread names a version.        *)
LEMMA ActiveDocs ==
    ASSUME TypeOK
    PROVE  /\ \A r \in Requests : requests[r].pc # "idle" => requests[r].doc \in Docs
           /\ \A w \in Workers : workers[w].pc # "idle" => workers[w].doc \in Docs
<1>1. \A r \in Requests : requests[r].pc # "idle" => requests[r].doc \in Docs
  BY RequestFacts DEF TypeOK
<1>2. \A w \in Workers : workers[w].pc # "idle" => workers[w].doc \in Docs
  BY WorkerFacts DEF TypeOK
<1> QED
  BY <1>1, <1>2

(* What a thread takes off the queue is a version, and a queue remains.    *)
LEMMA HeadOfQueue ==
    ASSUME NEW s \in Seq(Docs), s # <<>>
    PROVE  Head(s) \in Docs /\ Tail(s) \in Seq(Docs)
OBVIOUS

-----------------------------------------------------------------------------
(* Type correctness *)

(* The part of TypeOK that speaks of the table. *)
RowsOK ==
    /\ stored \subseteq Docs
    /\ status \in [Docs -> Lifecycle!Statuses]
    /\ pages \in [Docs -> Outcomes]
    /\ created \in [Docs -> Nat]

(* The empty table of a process that is down is well typed.                *)
LEMMA InitTypeOK == Init => TypeOK
BY OcrConstants, StatusTable, IdleStates
DEF Init, TypeOK, OcrConstants, Outcomes

(* A step that leaves the four columns alone leaves them well typed.       *)
LEMMA RowsOKUnchanged == RowsOK /\ UNCHANGED rowVars => RowsOK'
BY DEF RowsOK, rowVars

(* The insert of a "pending" row keeps the columns well typed: created_at  *)
(* counts the rows, of which there are finitely many.                      *)
LEMMA InsertRowOK ==
    ASSUME RowsOK, NEW d \in Docs, InsertRow(d)
    PROVE  RowsOK'
<1>1. Cardinality(RowsExist) \in Nat
  BY CountsAreNat DEF RowsExist
<1> QED
  BY <1>1, StatusTable DEF InsertRow, RowsOK

(* Every handler, thread step and process event keeps the type.            *)
LEMMA StepTypeOK == TypeOK /\ [Next]_vars => TypeOK'
<1> SUFFICES ASSUME TypeOK, [Next]_vars PROVE TypeOK'
  OBVIOUS
<1> USE IdleStates
<1>r. RowsOK
  BY DEF TypeOK, RowsOK
<1>1. ASSUME NEW r \in Requests, NEW d \in Docs, Upload(r, d) PROVE TypeOK'
  <2>1. [pc |-> "scheduling", doc |-> d] \in RequestStates
    BY NewRequestFacts
  <2> QED
    BY <1>1, <2>1 DEF Upload, TypeOK, boundVars
<1>2. ASSUME NEW r \in Requests, NEW d \in Docs, StartRetry(r, d) PROVE TypeOK'
  <2>1. RowsOK'
    BY <1>2, <1>r, InsertRowOK, RowsOKUnchanged DEF StartRetry
  <2>2. /\ [pc |-> "queueing", doc |-> d] \in RequestStates
        /\ [pc |-> "retrying", doc |-> d] \in RequestStates
    BY NewRequestFacts
  <2>3. requests' \in [Requests -> RequestStates]
    BY <1>2, <2>2 DEF StartRetry, TypeOK
  <2> QED
    BY <1>2, <2>1, <2>3 DEF StartRetry, TypeOK, RowsOK
<1>3. ASSUME NEW r \in Requests, Schedule(r) PROVE TypeOK'
  <2>1. requests[r].doc \in Docs /\ [requests[r] EXCEPT !.pc = "queueing"] \in RequestStates
    BY <1>3, RequestFacts DEF Schedule, TypeOK
  <2>2. RowsOK'
    BY <1>3, <1>r, <2>1, InsertRowOK, RowsOKUnchanged DEF Schedule
  <2>3. requests' \in [Requests -> RequestStates]
    BY <1>3, <2>1 DEF Schedule, TypeOK
  <2> QED
    BY <1>3, <2>2, <2>3 DEF Schedule, TypeOK, RowsOK, boundVars
<1>4. ASSUME NEW r \in Requests, CommitRetry(r) PROVE TypeOK'
  <2>1. [requests[r] EXCEPT !.pc = "queueing"] \in RequestStates
    BY <1>4, RequestFacts DEF CommitRetry, TypeOK
  <2>2. "pending" \in Lifecycle!Statuses /\ NoReading \in Outcomes
    BY StatusTable DEF Outcomes
  <2> QED
    BY <1>4, <2>1, <2>2 DEF CommitRetry, TypeOK, boundVars
<1>5. ASSUME NEW r \in Requests, Enqueue(r) PROVE TypeOK'
  <2>1. requests[r].doc \in Docs
    BY <1>5, RequestFacts DEF Enqueue, TypeOK
  <2>2. queue' \in Seq(Docs) /\ requests' \in [Requests -> RequestStates]
    BY <1>5, <2>1 DEF Enqueue, TypeOK
  <2> QED
    BY <1>5, <2>2 DEF Enqueue, TypeOK, boundVars, rowVars
<1>6. ASSUME NEW w \in Workers, Take(w) PROVE TypeOK'
  <2>1. Head(queue) \in Docs /\ Tail(queue) \in Seq(Docs)
    BY <1>6, HeadOfQueue DEF Take, TypeOK
  <2>2. status[Head(queue)] \in Lifecycle!Statuses
    BY <2>1 DEF TypeOK
  <2>3. workers' \in [Workers -> WorkerStates]
    BY <1>6, <2>1, <2>2, LoadedWorkerFacts DEF Take, TypeOK
  <2> QED
    BY <1>6, <2>1, <2>3 DEF Take, TypeOK, boundVars, rowVars
<1>7. ASSUME NEW w \in Workers, Claim(w) PROVE TypeOK'
  <2>1. /\ workers[w].seen \in Lifecycle!Statuses
        /\ \A seen \in Lifecycle!Statuses :
             [workers[w] EXCEPT !.pc = "processing", !.seen = seen] \in WorkerStates
    BY <1>7, WorkerFacts DEF Claim, TypeOK
  <2>2. "processing" \in Lifecycle!Statuses
    BY StatusTable
  <2>3. workers' \in [Workers -> WorkerStates]
    BY <1>7, <2>1, <2>2 DEF Claim, TypeOK
  <2>4. status' \in [Docs -> Lifecycle!Statuses]
    BY <1>7, <2>2 DEF Claim, TypeOK
  <2> QED
    BY <1>7, <2>3, <2>4 DEF Claim, TypeOK, boundVars
<1>8. ASSUME NEW w \in Workers, Extract(w) PROVE TypeOK'
  <2>1. \A outcome \in Outcomes :
          [workers[w] EXCEPT !.pc = "saving", !.outcome = outcome] \in WorkerStates
    BY <1>8, WorkerFacts DEF Extract, TypeOK
  <2>2. workers' \in [Workers -> WorkerStates]
    BY <1>8, <2>1 DEF Extract, TypeOK
  <2> QED
    BY <1>8, <2>2 DEF Extract, TypeOK, boundVars, rowVars
<1>9. ASSUME NEW w \in Workers, Complete(w) PROVE TypeOK'
  <2>1. /\ [workers[w] EXCEPT !.pc = "saved"] \in WorkerStates
        /\ workers[w].outcome \in Outcomes
    BY <1>9, WorkerFacts DEF Complete, TypeOK
  <2>2. "completed" \in Lifecycle!Statuses
    BY StatusTable
  <2> QED
    BY <1>9, <2>1, <2>2 DEF Complete, TypeOK, boundVars
<1>10. ASSUME NEW w \in Workers, Fail(w) PROVE TypeOK'
  <2>1. "failed" \in Lifecycle!Statuses
    BY StatusTable
  <2> QED
    BY <1>10, <2>1 DEF Fail, TypeOK, boundVars
<1>11. ASSUME NEW w \in Workers, Refuse(w) \/ HandOn(w) \/ WorkerFault(w) PROVE TypeOK'
  BY <1>11 DEF Refuse, HandOn, WorkerFault, TypeOK, boundVars, rowVars
<1>f. ASSUME NEW r \in Requests, RequestFault(r) PROVE TypeOK'
  BY <1>f DEF RequestFault, TypeOK, rowVars
<1>12. CASE Start
  <2> DEFINE n == Smaller(RequeueLimit, Cardinality(Pending))
  <2>1. n \in Nat
    BY CountsAreNat, OcrConstants DEF Pending, Smaller, OcrConstants
  <2>2. PICK jobs \in [1..n -> Pending] : queue' = jobs
    BY <1>12 DEF Start
  <2>3. jobs \in [1..n -> Docs]
    BY DEF Pending
  <2>4. jobs \in Seq(Docs)
    BY <2>1, <2>3
  <2> HIDE DEF n
  <2> QED
    BY <1>12, <2>2, <2>4 DEF Start, TypeOK, rowVars, boundVars
<1>13. CASE StartFault \/ Stop \/ Drained
  BY <1>13 DEF StartFault, Stop, Drained, TypeOK, rowVars, boundVars
<1>14. CASE Crash
  BY <1>14 DEF Crash, TypeOK, rowVars
<1>15. CASE UNCHANGED vars
  BY <1>15 DEF vars, TypeOK, rowVars, boundVars
<1> QED
  BY <1>1, <1>2, <1>3, <1>4, <1>5, <1>6, <1>7, <1>8, <1>9, <1>10, <1>11, <1>12,
     <1>13, <1>14, <1>15, <1>f
  DEF Next

(* Every variable keeps its type, for any number of versions, requests and  *)
(* threads: no request or thread ever names a version that does not exist, *)
(* and the bounds of the requeue at startup yield a queue of versions.     *)
THEOREM TypeCorrect == Spec => []TypeOK
<1>1. Init => TypeOK
  BY InitTypeOK
<1>2. TypeOK /\ [Next]_vars => TypeOK'
  BY StepTypeOK
<1> QED
  BY <1>1, <1>2, PTL DEF Spec

-----------------------------------------------------------------------------
(* Serial retries: what the claim guarantees                               *)

(* The inductive invariant: each of the four properties is needed to keep  *)
(* the others, and the type to look into the records.                      *)
SerialInv ==
    /\ TypeOK
    /\ ExclusiveRun
    /\ HeldRunIsProcessing
    /\ RetryOwnsRun
    /\ PagesIffCompleted

(* No thread holds a run and no page is stored at the start.               *)
LEMMA InitSerialInv == Init => SerialInv
BY InitTypeOK, OcrConstants
DEF Init, SerialInv, ExclusiveRun, HeldRunIsProcessing, RetryOwnsRun,
    PagesIffCompleted, Holds, IdleRequest, IdleWorker, OcrConstants, Serial

(* A request about to write the row of a version, as a record. *)
LEMMA SameRetry ==
    ASSUME NEW q \in RequestStates, q.pc = "retrying"
    PROVE  q = [pc |-> "retrying", doc |-> q.doc]
BY DEF RequestStates, IdleRequest

(* A thread that lets go of its job disturbs nothing. *)
LEMMA ReleaseSerialInv ==
    ASSUME SerialInv, TypeOK', NEW w \in Workers,
           workers' = [workers EXCEPT ![w] = IdleWorker],
           UNCHANGED <<status, pages, requests>>
    PROVE  SerialInv'
<1>1. \A v \in Workers, d \in Docs : Holds(v, d)' => Holds(v, d)
  BY DEF SerialInv, TypeOK, Holds, IdleWorker
<1>2. ExclusiveRun' /\ HeldRunIsProcessing'
  BY <1>1 DEF SerialInv, ExclusiveRun, HeldRunIsProcessing, Serial
<1>3. RetryOwnsRun' /\ PagesIffCompleted'
  BY DEF SerialInv, RetryOwnsRun, PagesIffCompleted
<1> QED
  BY <1>2, <1>3 DEF SerialInv

(* Every step keeps the inductive invariant for the versions with serial   *)
(* retries. The two steps that need all of it are CommitRetry, where       *)
(* RetryOwnsRun says that no thread holds the run being rewritten, and     *)
(* Claim, where HeldRunIsProcessing says that a pending run has no holder  *)
(* yet.                                                                    *)
LEMMA StepSerialInv ==
    ASSUME SerialInv, [Next]_vars
    PROVE  SerialInv'
<1>t. TypeOK /\ TypeOK'
  BY StepTypeOK DEF SerialInv
<1> USE <1>t, StatusTable DEF SerialInv, Serial
<1>1. ASSUME NEW r \in Requests, NEW d \in Docs, Upload(r, d) PROVE SerialInv'
  <2>1. UNCHANGED <<status, pages, workers>>
    BY <1>1 DEF Upload
  <2>2. RetryOwnsRun'
    BY <1>1 DEF Upload, RetryOwnsRun, TypeOK
  <2> QED
    BY <2>1, <2>2 DEF ExclusiveRun, HeldRunIsProcessing, PagesIffCompleted, Holds
<1>2. ASSUME NEW r \in Requests, NEW d \in Docs, Admitted(d), StartRetry(r, d)
      PROVE  SerialInv'
  <2>1. CASE InsertRow(d) /\ requests' = [requests EXCEPT ![r] = [pc |-> "queueing", doc |-> d]]
    BY <1>2, <2>1
    DEF StartRetry, InsertRow, RetryOwnsRun, ExclusiveRun, HeldRunIsProcessing,
        PagesIffCompleted, Holds, TypeOK
  <2>2. CASE /\ Lifecycle!CanRetry(status[d])
             /\ requests' = [requests EXCEPT ![r] = [pc |-> "retrying", doc |-> d]]
             /\ UNCHANGED rowVars
    <3>1. ExclusiveRun' /\ HeldRunIsProcessing' /\ PagesIffCompleted'
      BY <1>2, <2>2 DEF StartRetry, ExclusiveRun, HeldRunIsProcessing,
                        PagesIffCompleted, Holds, rowVars
    <3>2. d \in Serial =>
            \A q \in Requests : requests[q].pc = "retrying" => requests[q].doc # d
      BY <1>2, SameRetry DEF Admitted, TypeOK
    <3>3. RetryOwnsRun'
      BY <2>2, <3>2 DEF RetryOwnsRun, TypeOK, rowVars
    <3> QED
      BY <3>1, <3>3
  <2> QED
    BY <1>2, <2>1, <2>2 DEF StartRetry
<1>3. ASSUME NEW r \in Requests, Schedule(r) PROVE SerialInv'
  <2>1. CASE InsertRow(requests[r].doc) /\ requests' = [requests EXCEPT ![r].pc = "queueing"]
    <3>1. requests[r].doc \in Docs /\ UNCHANGED <<pages, workers>>
      BY <1>3, <2>1, RequestFacts DEF Schedule, InsertRow, TypeOK
    <3>2. ExclusiveRun'
      BY <3>1 DEF ExclusiveRun, Holds
    <3>3. HeldRunIsProcessing'
      BY <2>1, <3>1 DEF InsertRow, HeldRunIsProcessing, Holds, TypeOK
    <3>4. PagesIffCompleted'
      BY <2>1, <3>1 DEF InsertRow, PagesIffCompleted, TypeOK
    <3>5. \A q \in Requests : requests'[q].pc = "retrying" =>
            q # r /\ requests'[q] = requests[q] /\ requests[q].doc \in Docs
      BY <2>1, ActiveDocs DEF TypeOK
    <3>6. \A e \in Docs : Lifecycle!CanRetry(status[e]) => status'[e] = status[e]
      BY <2>1, <3>1 DEF InsertRow, TypeOK
    <3>7. RetryOwnsRun'
      BY <3>5, <3>6 DEF RetryOwnsRun
    <3> QED
      BY <3>2, <3>3, <3>4, <3>7
  <2>2. CASE requests' = [requests EXCEPT ![r] = IdleRequest] /\ UNCHANGED rowVars
    BY <1>3, <2>2 DEF Schedule, RetryOwnsRun, ExclusiveRun, HeldRunIsProcessing,
                      PagesIffCompleted, Holds, TypeOK, rowVars, IdleRequest
  <2> QED
    BY <1>3, <2>1, <2>2 DEF Schedule
<1>4. ASSUME NEW r \in Requests, CommitRetry(r) PROVE SerialInv'
  <2> DEFINE d == requests[r].doc
  <2>1. /\ d \in Docs /\ UNCHANGED workers
        /\ d \in Serial => status[d] \in {"completed", "failed"}
    BY <1>4, RequestFacts DEF CommitRetry, RetryOwnsRun, TypeOK
  <2>2. d \in Serial => \A w \in Workers : ~Holds(w, d)
    BY <2>1 DEF HeldRunIsProcessing
  <2>3. ExclusiveRun'
    BY <2>1 DEF ExclusiveRun, Holds
  <2>4. HeldRunIsProcessing'
    BY <1>4, <2>1, <2>2 DEF CommitRetry, HeldRunIsProcessing, Holds, TypeOK
  <2>5. PagesIffCompleted'
    BY <1>4, <2>1 DEF CommitRetry, PagesIffCompleted, TypeOK
  <2>6. RetryOwnsRun'
    <3> SUFFICES ASSUME NEW q \in Requests, requests'[q].pc = "retrying",
                        requests'[q].doc \in Serial
                 PROVE  /\ Lifecycle!CanRetry(status'[requests'[q].doc])
                        /\ \A p \in Requests :
                             /\ requests'[p].pc = "retrying"
                             /\ requests'[p].doc = requests'[q].doc
                             => p = q
      BY DEF RetryOwnsRun
    <3>1. \A p \in Requests : requests'[p].pc = "retrying" =>
            p # r /\ requests'[p] = requests[p] /\ requests[p].doc \in Docs
      BY <1>4, ActiveDocs DEF CommitRetry, TypeOK
    <3>2. requests[q].doc # d
      BY <1>4, <3>1 DEF CommitRetry, RetryOwnsRun, TypeOK
    <3> QED
      BY <1>4, <3>1, <3>2 DEF CommitRetry, RetryOwnsRun, TypeOK
  <2> QED
    BY <2>3, <2>4, <2>5, <2>6
<1>5. ASSUME NEW r \in Requests, Enqueue(r) PROVE SerialInv'
  BY <1>5
  DEF Enqueue, RetryOwnsRun, ExclusiveRun, HeldRunIsProcessing,
      PagesIffCompleted, Holds, TypeOK, rowVars, IdleRequest
<1>6. ASSUME NEW w \in Workers, Take(w) PROVE SerialInv'
  BY <1>6
  DEF Take, RetryOwnsRun, ExclusiveRun, HeldRunIsProcessing, PagesIffCompleted,
      Holds, TypeOK, rowVars, IdleWorker
<1>7. ASSUME NEW w \in Workers, Claim(w) PROVE SerialInv'
  <2> DEFINE d == workers[w].doc
  <2>1. CASE /\ status[d] = "pending"
             /\ status' = [status EXCEPT ![d] = "processing"]
             /\ UNCHANGED <<pages, requests>>
             /\ workers' = [workers EXCEPT
                              ![w].pc = "processing",
                              ![w].seen = IF @ = "pending" THEN "processing" ELSE @]
    <3>1. d \in Serial => \A v \in Workers : ~Holds(v, d)
      BY <2>1, WorkerFacts, <1>7 DEF Claim, HeldRunIsProcessing, TypeOK
    <3>2. \A v \in Workers, e \in Docs :
            Holds(v, e)' <=> Holds(v, e) \/ (v = w /\ e = d)
      BY <2>1, <1>7 DEF Claim, Holds, TypeOK
    <3>3. ExclusiveRun'
      BY <3>1, <3>2 DEF ExclusiveRun
    <3>4. HeldRunIsProcessing'
      BY <2>1, <3>2 DEF HeldRunIsProcessing, TypeOK
    <3>5. PagesIffCompleted'
      BY <2>1 DEF PagesIffCompleted, TypeOK
    <3>6. RetryOwnsRun'
      <4>1. \A q \in Requests : requests[q].pc = "retrying" => requests[q].doc \in Docs
        BY ActiveDocs DEF TypeOK
      <4>2. \A q \in Requests : requests[q].pc = "retrying" /\ requests[q].doc \in Serial
              => status[requests[q].doc] \in {"completed", "failed"}
        BY DEF RetryOwnsRun
      <4>3. \A q \in Requests : requests[q].pc = "retrying" /\ requests[q].doc \in Serial
              => status'[requests[q].doc] = status[requests[q].doc]
        <5>1. status \in [Docs -> Lifecycle!Statuses]
          BY DEF TypeOK
        <5>2. \A e \in Docs : status[e] \in {"completed", "failed"} => status'[e] = status[e]
          BY <2>1, <5>1
        <5> QED
          BY <4>1, <4>2, <5>2
      <4> QED
        BY <2>1, <4>3 DEF RetryOwnsRun
    <3> QED
      BY <3>3, <3>4, <3>5, <3>6
  <2>2. CASE /\ UNCHANGED <<status, pages, requests>>
             /\ workers' = [workers EXCEPT ![w] = IdleWorker]
    BY <2>2, ReleaseSerialInv
  <2> QED
    BY <1>7, <2>1, <2>2 DEF Claim
<1>8. ASSUME NEW w \in Workers, Extract(w) PROVE SerialInv'
  BY <1>8
  DEF Extract, RetryOwnsRun, ExclusiveRun, HeldRunIsProcessing,
      PagesIffCompleted, Holds, TypeOK, rowVars
<1>9. ASSUME NEW w \in Workers, Complete(w) PROVE SerialInv'
  BY <1>9
  DEF Complete, Target, RetryOwnsRun, ExclusiveRun, HeldRunIsProcessing,
      PagesIffCompleted, Holds, TypeOK
<1>10. ASSUME NEW w \in Workers, Fail(w) PROVE SerialInv'
  BY <1>10
  DEF Fail, Target, RetryOwnsRun, ExclusiveRun, HeldRunIsProcessing,
      PagesIffCompleted, Holds, TypeOK, IdleWorker
<1>11. ASSUME NEW w \in Workers, Refuse(w) \/ HandOn(w) \/ WorkerFault(w) PROVE SerialInv'
  BY <1>11, ReleaseSerialInv DEF Refuse, HandOn, WorkerFault, rowVars
<1>f. ASSUME NEW r \in Requests, RequestFault(r) PROVE SerialInv'
  BY <1>f
  DEF RequestFault, RetryOwnsRun, ExclusiveRun, HeldRunIsProcessing,
      PagesIffCompleted, Holds, TypeOK, rowVars, IdleRequest
<1>12. CASE Start \/ StartFault \/ Stop \/ Drained \/ UNCHANGED vars
  BY <1>12
  DEF Start, StartFault, Stop, Drained, RetryOwnsRun, ExclusiveRun, HeldRunIsProcessing,
      PagesIffCompleted, Holds, rowVars, vars
<1>13. CASE Crash
  BY <1>13
  DEF Crash, RetryOwnsRun, ExclusiveRun, HeldRunIsProcessing,
      PagesIffCompleted, Holds, rowVars, IdleWorker, IdleRequest
<1> QED
  BY <1>1, <1>2, <1>3, <1>4, <1>5, <1>6, <1>7, <1>8, <1>9, <1>10, <1>11, <1>12,
     <1>13, <1>f
  DEF Next

(* For a version whose retries are serial, whatever happens to the others, *)
(* the conditional UPDATE of claim is enough for one thread per run, no    *)
(* retry rewrites a run at work or the row of another retry, and the pages *)
(* are those of the run as it stands.                                      *)
THEOREM SerialSafety ==
    Spec => [](ExclusiveRun /\ HeldRunIsProcessing /\ RetryOwnsRun /\ PagesIffCompleted)
<1>1. Init => SerialInv
  BY InitSerialInv
<1>2. SerialInv /\ [Next]_vars => SerialInv'
  BY StepSerialInv
<1>3. SerialInv => ExclusiveRun /\ HeldRunIsProcessing /\ RetryOwnsRun /\ PagesIffCompleted
  BY DEF SerialInv
<1> QED
  BY <1>1, <1>2, <1>3, PTL DEF Spec

(* What get_text shows is the text of the run as it stands: pages are      *)
(* there when the run completed, and never those of an earlier attempt     *)
(* (retry, _complete).                                                     *)
THEOREM PagesFollowStatus == Spec => []PagesIffCompleted
<1>1. ExclusiveRun /\ HeldRunIsProcessing /\ RetryOwnsRun /\ PagesIffCompleted
         => PagesIffCompleted
  OBVIOUS
<1> QED
  BY <1>1, SerialSafety, PTL

-----------------------------------------------------------------------------
(* Serial retries: the rows follow the status table                        *)

(* The moves of the table the handlers make.                               *)
LEMMA Targets ==
    /\ "pending" \in Lifecycle!StatusTransitions["none"]
    /\ "processing" \in Lifecycle!StatusTransitions["pending"]
    /\ "completed" \in Lifecycle!StatusTransitions["processing"]
    /\ "failed" \in Lifecycle!StatusTransitions["processing"]
    /\ "pending" \in Lifecycle!StatusTransitions["completed"]
    /\ "pending" \in Lifecycle!StatusTransitions["failed"]
BY DEF Lifecycle!StatusTransitions

(* The row of a version moves along the table or does not move.            *)
LEMMA StepFollowsTable ==
    ASSUME SerialInv, [Next]_vars
    PROVE  [Lifecycle!Next]_SerialRows
<1> USE DEF SerialInv
<1>m. ASSUME NEW d \in Docs, NEW target,
             d \in Serial => target \in Lifecycle!StatusTransitions[status[d]],
             status' = [status EXCEPT ![d] = target]
      PROVE  [Lifecycle!Next]_SerialRows
  <2>1. status \in [Docs -> Lifecycle!Statuses]
    BY DEF TypeOK
  <2>2. CASE d \in Serial
    <3>1. SerialRows' = [SerialRows EXCEPT ![d] = target] /\ SerialRows[d] = status[d]
      BY <1>m, <2>1, <2>2 DEF SerialRows, Serial
    <3> QED
      BY <1>m, <2>2, <3>1 DEF Lifecycle!Next, Lifecycle!Move
  <2>3. CASE d \notin Serial
    BY <1>m, <2>1, <2>3 DEF SerialRows, Serial
  <2> QED
    BY <2>2, <2>3
<1>u. UNCHANGED status => UNCHANGED SerialRows
  BY DEF SerialRows
<1>i. ASSUME NEW d \in Docs, InsertRow(d) PROVE [Lifecycle!Next]_SerialRows
  BY <1>i, <1>m, Targets DEF InsertRow
<1>1. ASSUME NEW r \in Requests, NEW d \in Docs, StartRetry(r, d)
      PROVE  [Lifecycle!Next]_SerialRows
  BY <1>1, <1>i, <1>u DEF StartRetry, rowVars
<1>2. ASSUME NEW r \in Requests, Schedule(r) PROVE [Lifecycle!Next]_SerialRows
  BY <1>2, <1>i, <1>u, ActiveDocs DEF Schedule, rowVars
<1>3. ASSUME NEW r \in Requests, CommitRetry(r) PROVE [Lifecycle!Next]_SerialRows
  <2>1. /\ requests[r].doc \in Docs
        /\ requests[r].doc \in Serial
              => status[requests[r].doc] \in {"completed", "failed"}
    BY <1>3, ActiveDocs, StatusTable DEF CommitRetry, RetryOwnsRun
  <2> QED
    BY <1>3, <1>m, <2>1, Targets DEF CommitRetry
<1>4. ASSUME NEW w \in Workers, Claim(w) PROVE [Lifecycle!Next]_SerialRows
  BY <1>4, <1>m, <1>u, ActiveDocs, Targets DEF Claim
<1>5. ASSUME NEW w \in Workers, Complete(w) \/ Fail(w) PROVE [Lifecycle!Next]_SerialRows
  <2>1. /\ workers[w].doc \in Docs
        /\ workers[w].doc \in Serial => status[workers[w].doc] = "processing"
    BY <1>5, ActiveDocs DEF Complete, Fail, HeldRunIsProcessing, Holds
  <2> QED
    BY <1>5, <1>m, <2>1, Targets DEF Complete, Fail
<1>6. CASE /\ ~\E r \in Requests, d \in Docs : StartRetry(r, d)
           /\ ~\E r \in Requests : Schedule(r) \/ CommitRetry(r)
           /\ ~\E w \in Workers : Claim(w) \/ Complete(w) \/ Fail(w)
  BY <1>6, <1>u
  DEF Next, Upload, Enqueue, RequestFault, Take, Extract, Refuse, HandOn, WorkerFault,
      Start, StartFault, Stop, Drained, Crash, rowVars, vars
<1> QED
  BY <1>1, <1>2, <1>3, <1>4, <1>5, <1>6

(* The handlers and the threads together implement the abstract lifecycle: *)
(* no row ever leaves STATUS_TRANSITIONS, although both writes of a run's  *)
(* end are by id alone.                                                    *)
THEOREM SerialLifecycle ==
    Spec => ImplementsLifecycle
<1>1. Init => SerialInv
  BY InitSerialInv
<1>2. SerialInv /\ [Next]_vars => SerialInv'
  BY StepSerialInv
<1>3. Init => Lifecycle!Init
  BY DEF Init, Lifecycle!Init, SerialRows, Serial
<1>4. SerialInv /\ [Next]_vars => [Lifecycle!Next]_SerialRows
  BY StepFollowsTable
<1> QED
  BY <1>1, <1>2, <1>3, <1>4, PTL DEF Spec, ImplementsLifecycle, Lifecycle!Spec

-----------------------------------------------------------------------------
(* A pending row of a live process has a job, serial retries or not        *)

(* The requeue at startup finds every pending row if the limit allows.     *)
LEMMA StartRequeuesAll ==
    ASSUME TypeOK, Start, RequeueLimit >= Cardinality(Docs)
    PROVE  \A d \in Pending : \E i \in DOMAIN queue' : queue'[i] = d
<1> DEFINE n == Cardinality(Pending)
<1>1. /\ IsFiniteSet(Pending)
      /\ n \in Nat
      /\ n <= Cardinality(Docs)
  BY OcrConstants, FS_Subset, FS_CardinalityType DEF OcrConstants, Pending
<1>2. Smaller(RequeueLimit, n) = n
  BY <1>1, CountsAreNat, OcrConstants DEF Smaller, OcrConstants
<1>3. PICK jobs \in [1..n -> Pending] : RequeuedJobs(jobs) /\ queue' = jobs
  BY <1>2 DEF Start
<1> HIDE DEF n
<1>4. \A i, j \in 1..n : jobs[i] = jobs[j] => i = j
  <2> SUFFICES ASSUME NEW i \in 1..n, NEW j \in 1..n, i # j PROVE jobs[i] # jobs[j]
    OBVIOUS
  <2>1. i < j \/ j < i
    BY <1>1
  <2>2. created[jobs[i]] \in Nat /\ created[jobs[j]] \in Nat
    BY DEF TypeOK, Pending
  <2> QED
    BY <1>3, <2>1, <2>2 DEF RequeuedJobs
<1>5. jobs \in Injection(1..n, Pending)
  BY <1>3, <1>4 DEF Injection, IsInjective
<1>6. Cardinality(1..n) = n
  BY <1>1, FS_Interval
<1>7. jobs \in Surjection(1..n, Pending)
  BY <1>1, <1>5, <1>6, FS_Injection DEF n
<1> QED
  BY <1>3, <1>7 DEF Surjection

(* Whatever a step does to the queue, the threads and the requests, a row  *)
(* that is pending after it has a job after it.                            *)
LEMMA StepNoPendingRunLost ==
    ASSUME TypeOK, NoPendingRunLost, [Next]_vars
    PROVE  NoPendingRunLost'
<1> SUFFICES ASSUME pool' # "off", faults' = 0, RequeueLimit >= Cardinality(Docs),
                    NEW d \in Pending'
             PROVE  HasJob(d)'
  BY DEF NoPendingRunLost
<1>d. d \in Docs /\ status'[d] = "pending"
  BY DEF Pending
<1>h. ASSUME pool # "off", faults = 0, status[d] = "pending" PROVE HasJob(d)
  BY <1>d, <1>h DEF NoPendingRunLost, Pending
<1>1. ASSUME NEW r \in Requests, NEW e \in Docs, Upload(r, e) PROVE HasJob(d)'
  BY <1>d, <1>h, <1>1 DEF Upload, HasJob, TypeOK, boundVars
<1>2. ASSUME NEW r \in Requests, NEW e \in Docs, StartRetry(r, e) PROVE HasJob(d)'
  <2>1. CASE InsertRow(e) /\ requests' = [requests EXCEPT ![r] = [pc |-> "queueing", doc |-> e]]
    BY <1>d, <1>h, <1>2, <2>1 DEF StartRetry, InsertRow, HasJob, TypeOK
  <2>2. CASE UNCHANGED rowVars /\ requests' = [requests EXCEPT ![r] = [pc |-> "retrying", doc |-> e]]
    BY <1>d, <1>h, <1>2, <2>2 DEF StartRetry, HasJob, TypeOK, rowVars
  <2> QED
    BY <1>2, <2>1, <2>2 DEF StartRetry
<1>3. ASSUME NEW r \in Requests, Schedule(r) PROVE HasJob(d)'
  <2>1. CASE /\ InsertRow(requests[r].doc)
             /\ requests' = [requests EXCEPT ![r].pc = "queueing"]
    BY <1>d, <1>h, <1>3, <2>1 DEF Schedule, InsertRow, HasJob, TypeOK, boundVars
  <2>2. CASE UNCHANGED rowVars /\ requests' = [requests EXCEPT ![r] = IdleRequest]
    BY <1>d, <1>h, <1>3, <2>2 DEF Schedule, HasJob, TypeOK, rowVars, boundVars
  <2> QED
    BY <1>3, <2>1, <2>2 DEF Schedule
<1>4. ASSUME NEW r \in Requests, CommitRetry(r) PROVE HasJob(d)'
  BY <1>d, <1>h, <1>4 DEF CommitRetry, HasJob, TypeOK, boundVars
<1>5. ASSUME NEW r \in Requests, Enqueue(r) PROVE HasJob(d)'
  <2>1. HasJob(d)
    BY <1>d, <1>h, <1>5 DEF Enqueue, rowVars, boundVars
  <2>2. queue \in Seq(Docs) /\ queue' = Append(queue, requests[r].doc) /\ UNCHANGED workers
    BY <1>5 DEF Enqueue, TypeOK
  <2>3. CASE \E i \in DOMAIN queue : queue[i] = d
    BY <2>2, <2>3 DEF HasJob
  <2>4. CASE \E w \in Workers : workers[w].pc = "loaded" /\ workers[w].doc = d
    BY <2>2, <2>4 DEF HasJob
  <2>5. CASE requests[r].doc = d
    <3>1. Len(queue) + 1 \in DOMAIN queue' /\ queue'[Len(queue) + 1] = d
      BY <2>2, <2>5
    <3> QED
      BY <3>1 DEF HasJob
  <2>6. ASSUME NEW q \in Requests, q # r, requests[q].pc = "queueing", requests[q].doc = d
        PROVE  HasJob(d)'
    BY <1>5, <2>6 DEF Enqueue, HasJob, TypeOK
  <2> QED
    BY <2>1, <2>3, <2>4, <2>5, <2>6 DEF HasJob
<1>6. ASSUME NEW w \in Workers, Take(w) PROVE HasJob(d)'
  <2>1. HasJob(d)
    BY <1>d, <1>h, <1>6 DEF Take, rowVars, boundVars
  <2>2. /\ queue \in Seq(Docs) /\ queue # <<>> /\ queue' = Tail(queue)
        /\ workers[w].pc = "idle" /\ UNCHANGED requests
        /\ workers'[w].pc = "loaded" /\ workers'[w].doc = Head(queue)
        /\ \A v \in Workers : v # w => workers'[v] = workers[v]
    BY <1>6 DEF Take, TypeOK, IdleWorker
  <2>3. CASE Head(queue) = d
    BY <2>2, <2>3 DEF HasJob
  <2>4. ASSUME NEW i \in DOMAIN queue, queue[i] = d, Head(queue) # d PROVE HasJob(d)'
    <3>1. i - 1 \in DOMAIN queue' /\ queue'[i - 1] = d
      BY <2>2, <2>4
    <3> QED
      BY <3>1 DEF HasJob
  <2>5. CASE \E v \in Workers : workers[v].pc = "loaded" /\ workers[v].doc = d
    BY <2>2, <2>5 DEF HasJob
  <2>6. CASE \E r \in Requests : requests[r].pc = "queueing" /\ requests[r].doc = d
    BY <2>2, <2>6 DEF HasJob
  <2> QED
    BY <2>1, <2>3, <2>4, <2>5, <2>6 DEF HasJob
<1>7. ASSUME NEW w \in Workers, Claim(w) PROVE HasJob(d)'
  BY <1>d, <1>h, <1>7 DEF Claim, HasJob, TypeOK, IdleWorker, boundVars
<1>8. ASSUME NEW w \in Workers, Complete(w) \/ Fail(w) PROVE HasJob(d)'
  BY <1>d, <1>h, <1>8 DEF Complete, Fail, HasJob, TypeOK, IdleWorker, boundVars
<1>9. ASSUME NEW w \in Workers, Extract(w) \/ Refuse(w) \/ HandOn(w) PROVE HasJob(d)'
  BY <1>d, <1>h, <1>9
  DEF Extract, Refuse, HandOn, HasJob, TypeOK, rowVars, IdleWorker, boundVars
<1>10. ASSUME NEW w \in Workers, WorkerFault(w) PROVE HasJob(d)'
  BY <1>10 DEF WorkerFault, TypeOK
<1>f. ASSUME NEW r \in Requests, RequestFault(r) PROVE HasJob(d)'
  BY <1>f DEF RequestFault, TypeOK
<1>11. CASE Start
  BY <1>d, <1>11, StartRequeuesAll DEF HasJob, Start, rowVars, Pending
<1>s. CASE StartFault
  BY <1>s DEF StartFault, TypeOK
<1>12. CASE Stop \/ Drained \/ Crash \/ UNCHANGED vars
  BY <1>d, <1>h, <1>12 DEF Stop, Drained, Crash, HasJob, rowVars, boundVars, vars
<1> QED
  BY <1>1, <1>2, <1>3, <1>4, <1>5, <1>6, <1>7, <1>8, <1>9, <1>10, <1>11, <1>12,
     <1>f, <1>s
  DEF Next

(* No pending run is lost, whatever overlaps: as long as no database error *)
(* has swallowed a job, a pending row of a live process is queued, just    *)
(* taken by a thread, or about to be queued by the request that wrote it.  *)
THEOREM PendingHasJob == Spec => []NoPendingRunLost
<1>1. Init => NoPendingRunLost
  BY DEF Init, NoPendingRunLost
<1>2. TypeOK /\ NoPendingRunLost /\ [Next]_vars => NoPendingRunLost'
  BY StepNoPendingRunLost
<1> QED
  BY <1>1, <1>2, TypeCorrect, PTL DEF Spec

=============================================================================
