-------------------------- MODULE ReportRun_proofs --------------------------
(***************************************************************************)
(* Proofs about ReportRun, for any number of reports, requests, threads    *)
(* and sections.                                                           *)
(***************************************************************************)
EXTENDS ReportRun, TLAPS, FiniteSetTheorems

(* The statuses, and the table under its names.                            *)
LEMMA StatusTable ==
    /\ Statuses = {"none", "pending", "processing", "completed", "failed"}
    /\ "pending" \in StatusTransitions["none"]
    /\ StatusTransitions["pending"] = {"processing", "failed"}
    /\ "completed" \in StatusTransitions["processing"]
    /\ "failed" \in StatusTransitions["processing"]
    /\ "pending" \in StatusTransitions["completed"]
    /\ "pending" \in StatusTransitions["failed"]
BY DEF Statuses, StatusTransitions

(* There are finitely many reports and requests.                           *)
LEMMA FiniteSets ==
    /\ IsFiniteSet(Reports) /\ IsFiniteSet(Requests)
    /\ \A S \in SUBSET Reports : IsFiniteSet(S) /\ Cardinality(S) \in Nat
    /\ \A S \in SUBSET Requests : IsFiniteSet(S) /\ Cardinality(S) \in Nat
                                  /\ Cardinality(S) <= Cardinality(Requests)
<1>1. IsFiniteSet(Reports)
  BY ReportConstants, FS_Interval DEF ReportConstants, Reports
<1> QED
  BY <1>1, ReportConstants, FS_Subset, FS_CardinalityType DEF ReportConstants

-----------------------------------------------------------------------------
(* What a request or a thread holds while it is not idle *)

(* A request that has read or created a report names it.                   *)
LEMMA RequestFacts ==
    ASSUME NEW q \in RequestStates
    PROVE  /\ q.pc \in {"loaded", "queueing"} =>
                /\ q.report \in Reports
                /\ q.seen \in 0..Sections
                /\ [q EXCEPT !.pc = "queueing", !.seen = 0] \in RequestStates
                /\ [q EXCEPT !.pc = "queueing", !.seen = 0].pc = "queueing"
                /\ [q EXCEPT !.pc = "queueing", !.seen = 0].report = q.report
           /\ q.pc \in {"idle", "admitted"} => q.report = NoReport
<1>1. CASE q \in {IdleRequest, [IdleRequest EXCEPT !.pc = "admitted"]}
  BY <1>1 DEF IdleRequest
<1>2. CASE q \in [pc : {"loaded", "queueing"}, report : Reports, seen : 0..Sections]
  <2>1. 0 \in 0..Sections
    BY ReportConstants DEF ReportConstants
  <2>2. [q EXCEPT !.pc = "queueing", !.seen = 0]
          \in [pc : {"loaded", "queueing"}, report : Reports, seen : 0..Sections]
    BY <1>2, <2>1
  <2> QED
    BY <1>2, <2>2 DEF RequestStates
<1> QED
  BY <1>1, <1>2 DEF RequestStates

(* The states that requests are put in are in their type.                  *)
LEMMA NewRequestFacts ==
    /\ IdleRequest \in RequestStates
    /\ [IdleRequest EXCEPT !.pc = "admitted"] \in RequestStates
    /\ [IdleRequest EXCEPT !.pc = "admitted"].pc = "admitted"
    /\ IdleRequest.pc = "idle"
    /\ \A r \in Reports, n \in 0..Sections, pc \in {"loaded", "queueing"} :
         [pc |-> pc, report |-> r, seen |-> n] \in RequestStates
<1>1. \A r \in Reports, n \in 0..Sections, pc \in {"loaded", "queueing"} :
         [pc |-> pc, report |-> r, seen |-> n] \in RequestStates
  BY DEF RequestStates
<1> QED
  BY <1>1 DEF RequestStates, IdleRequest

(* A thread with a job names a report, and what it knows has its type.     *)
LEMMA WorkerFacts ==
    ASSUME NEW q \in WorkerStates, q.pc # "idle"
    PROVE  /\ q.report \in Reports /\ q.seen \in Statuses /\ q.attempt \in Nat
           /\ q.written \in 0..Sections /\ q.grounded \in BOOLEAN
           /\ \A pc \in {"writing", "completing", "failing"} :
                [q EXCEPT !.pc = pc] \in WorkerStates
           /\ \A n \in Nat, seen \in Statuses :
                [q EXCEPT !.pc = "claimed", !.attempt = n, !.seen = seen] \in WorkerStates
           /\ \A n \in 0..Sections, grounded \in BOOLEAN :
                [q EXCEPT !.written = n, !.grounded = grounded] \in WorkerStates
<1>1. q \in [pc : {"loaded", "claimed", "writing", "completing", "failing"},
             report : Reports, seen : Statuses, attempt : Nat,
             written : 0..Sections, grounded : BOOLEAN]
  BY DEF WorkerStates, IdleWorker
<1>2. ASSUME NEW pc \in {"writing", "completing", "failing"}
      PROVE  [q EXCEPT !.pc = pc] \in WorkerStates
  BY <1>1 DEF WorkerStates
<1>3. ASSUME NEW n \in Nat, NEW seen \in Statuses
      PROVE  [q EXCEPT !.pc = "claimed", !.attempt = n, !.seen = seen] \in WorkerStates
  BY <1>1 DEF WorkerStates
<1>4. ASSUME NEW n \in 0..Sections, NEW grounded \in BOOLEAN
      PROVE  [q EXCEPT !.written = n, !.grounded = grounded] \in WorkerStates
  BY <1>1 DEF WorkerStates
<1> QED
  BY <1>1, <1>2, <1>3, <1>4

(* The fields of a thread's record after a step that changes some of them. *)
LEMMA WorkerFields ==
    ASSUME NEW q \in WorkerStates
    PROVE  /\ \A pc : /\ [q EXCEPT !.pc = pc].pc = pc
                      /\ [q EXCEPT !.pc = pc].report = q.report
                      /\ [q EXCEPT !.pc = pc].attempt = q.attempt
                      /\ [q EXCEPT !.pc = pc].written = q.written
           /\ \A n, seen :
                LET p == [q EXCEPT !.pc = "claimed", !.attempt = n, !.seen = seen] IN
                p.pc = "claimed" /\ p.report = q.report /\ p.attempt = n /\ p.written = q.written
           /\ \A n, grounded :
                LET p == [q EXCEPT !.written = n, !.grounded = grounded] IN
                p.pc = q.pc /\ p.report = q.report /\ p.attempt = q.attempt /\ p.written = n
BY DEF WorkerStates, IdleWorker

(* A thread without work and one that has just loaded a row.               *)
LEMMA NewWorkerFacts ==
    /\ IdleWorker \in WorkerStates /\ IdleWorker.pc = "idle"
    /\ \A r \in Reports, s \in Statuses :
         LET q == [IdleWorker EXCEPT !.pc = "loaded", !.report = r, !.seen = s] IN
         q \in WorkerStates /\ q.pc = "loaded" /\ q.written = 0
<1>1. 0 \in 0..Sections
  BY ReportConstants DEF ReportConstants
<1>2. ASSUME NEW r \in Reports, NEW s \in Statuses
      PROVE  LET q == [IdleWorker EXCEPT !.pc = "loaded", !.report = r, !.seen = s] IN
             q \in WorkerStates /\ q.pc = "loaded" /\ q.written = 0
  BY <1>1 DEF WorkerStates, IdleWorker
<1> QED
  BY <1>2 DEF WorkerStates, IdleWorker

(* A list of jobs made of rows is a sequence of rows.                      *)
LEMMA JobListsAreSeqs ==
    ASSUME NEW rows \in SUBSET Reports, NEW jobs \in JobLists(rows)
    PROVE  jobs \in Seq(rows) /\ jobs \in Seq(Reports)
<1>1. PICK n \in 0..Cardinality(rows) : jobs \in [1..n -> rows]
  BY DEF JobLists
<1>2. n \in Nat
  BY FiniteSets
<1>3. jobs \in [1..n -> Reports]
  BY <1>1
<1> QED
  BY <1>1, <1>2, <1>3

-----------------------------------------------------------------------------
(* What a thread's step does to the threads *)

(* A thread that plans, gives up or validates only changes its stage.      *)
LEMMA MoveFields ==
    ASSUME TypeOK, NEW w \in Workers, Plan(w) \/ GiveUp(w) \/ Validate(w)
    PROVE  /\ workers'[w].pc = IF Plan(w) THEN "writing"
                               ELSE IF Validate(w) /\ workers[w].grounded THEN "completing"
                                                                        ELSE "failing"
           /\ workers'[w].report = workers[w].report
           /\ workers'[w].attempt = workers[w].attempt
           /\ workers'[w].written = workers[w].written
           /\ \A v \in Workers : v # w => workers'[v] = workers[v]
<1>0. workers \in [Workers -> WorkerStates] /\ workers[w] \in WorkerStates
  BY DEF TypeOK
<1>1. CASE Plan(w)
  <2>1. workers' = [workers EXCEPT ![w] = [workers[w] EXCEPT !.pc = "writing"]]
    BY <1>1, <1>0 DEF Plan
  <2> QED
    BY <1>0, <1>1, <2>1, WorkerFields
<1>2. CASE Validate(w) /\ ~Plan(w)
  <2>1. PICK pc : pc = IF workers[w].grounded THEN "completing" ELSE "failing"
    OBVIOUS
  <2>2. workers' = [workers EXCEPT ![w] = [workers[w] EXCEPT !.pc = pc]]
    BY <1>0, <1>2, <2>1 DEF Validate
  <2> QED
    BY <1>0, <1>2, <2>1, <2>2, WorkerFields
<1>3. CASE GiveUp(w) /\ ~Plan(w) /\ ~Validate(w)
  <2>1. workers' = [workers EXCEPT ![w] = [workers[w] EXCEPT !.pc = "failing"]]
    BY <1>3, <1>0 DEF GiveUp
  <2> QED
    BY <1>0, <1>3, <2>1, WorkerFields
<1> QED
  BY <1>1, <1>2, <1>3

(* A thread that writes a section counts it.                               *)
LEMMA WriteFields ==
    ASSUME TypeOK, NEW w \in Workers, WriteSection(w)
    PROVE  /\ workers'[w].pc = "writing"
           /\ workers'[w].report = workers[w].report
           /\ workers'[w].attempt = workers[w].attempt
           /\ workers'[w].written = workers[w].written + 1
           /\ \A v \in Workers : v # w => workers'[v] = workers[v]
<1>0. workers \in [Workers -> WorkerStates] /\ workers[w] \in WorkerStates
  BY DEF TypeOK
<1>1. PICK n, g : /\ n = workers[w].written + 1
                  /\ workers' = [workers EXCEPT ![w] = [workers[w] EXCEPT !.written = n, !.grounded = g]]
  <2>1. PICK grounded \in BOOLEAN :
          workers' = [workers EXCEPT ![w].written = @ + 1, ![w].grounded = @ \/ grounded]
    BY DEF WriteSection
  <2>2. workers' = [workers EXCEPT ![w] = [workers[w] EXCEPT !.written = workers[w].written + 1,
                                             !.grounded = workers[w].grounded \/ grounded]]
    BY <1>0, <2>1
  <2> QED
    BY <2>2
<1> QED
  BY <1>0, <1>1, WorkerFields DEF WriteSection

(* A claim either skips the row, or takes one that is pending and clears   *)
(* what its last attempt left.                                             *)
LEMMA ClaimFields ==
    ASSUME TypeOK, NEW w \in Workers, NEW r \in Reports, r = workers[w].report, Claim(w)
    PROVE  /\ \A v \in Workers : v # w => workers'[v] = workers[v]
           /\ \/ workers'[w].pc = "idle" /\ UNCHANGED <<status, attempts, content, progress>>
              \/ /\ status[r] = "pending"
                 /\ status' = [status EXCEPT ![r] = "processing"]
                 /\ attempts' = [attempts EXCEPT ![r] = @ + 1]
                 /\ content' = [content EXCEPT ![r] = 0]
                 /\ progress' = [progress EXCEPT ![r] = 0]
                 /\ workers'[w].pc = "claimed"
                 /\ workers'[w].report = r
                 /\ workers'[w].attempt = attempts'[r]
                 /\ workers'[w].written = workers[w].written
<1>0. workers \in [Workers -> WorkerStates] /\ workers[w] \in WorkerStates
  BY DEF TypeOK
<1>1. CASE workers' = [workers EXCEPT ![w] = IdleWorker] /\ UNCHANGED <<status, attempts, content, progress>>
  BY <1>0, <1>1, NewWorkerFacts
<1>2. CASE /\ status[workers[w].report] = "pending"
           /\ status' = [status EXCEPT ![workers[w].report] = "processing"]
           /\ attempts' = [attempts EXCEPT ![workers[w].report] = @ + 1]
           /\ content' = [content EXCEPT ![workers[w].report] = 0]
           /\ progress' = [progress EXCEPT ![workers[w].report] = 0]
           /\ workers' = [workers EXCEPT
                            ![w].pc = "claimed", ![w].attempt = attempts'[workers[w].report],
                            ![w].seen = IF @ = "pending" THEN "processing" ELSE @]
  <2>1. PICK n, seen :
          /\ n = attempts'[r]
          /\ workers' = [workers EXCEPT ![w] =
                        [workers[w] EXCEPT !.pc = "claimed", !.attempt = n, !.seen = seen]]
    <3>1. PICK seen : seen = IF workers[w].seen = "pending" THEN "processing" ELSE workers[w].seen
      OBVIOUS
    <3>2. PICK n : n = attempts'[r]
      OBVIOUS
    <3>3. workers' = [workers EXCEPT ![w].pc = "claimed", ![w].attempt = n, ![w].seen = seen]
      BY <1>2, <3>1, <3>2
    <3> QED
      BY <1>0, <3>2, <3>3
  <2>2. PICK p : p = [workers[w] EXCEPT !.pc = "claimed", !.attempt = n, !.seen = seen]
    OBVIOUS
  <2>3. p.pc = "claimed" /\ p.report = workers[w].report /\ p.attempt = n /\ p.written = workers[w].written
    BY <1>0, <2>2, WorkerFields
  <2>4. workers'[w] = p /\ \A v \in Workers : v # w => workers'[v] = workers[v]
    BY <1>0, <2>1, <2>2
  <2> QED
    BY <1>2, <2>1, <2>3, <2>4
<1> QED
  BY <1>1, <1>2, Zenon DEF Claim

-----------------------------------------------------------------------------
(* Type correctness *)

(* The empty table of a process that is down is well typed.                *)
LEMMA InitTypeOK == Init => TypeOK
<1>1. 0 \in 0..Sections /\ <<>> \in Seq(Reports)
  BY ReportConstants DEF ReportConstants
<1>2. IdleRequest \in RequestStates /\ IdleWorker \in WorkerStates
  BY NewRequestFacts, NewWorkerFacts
<1>3. "none" \in Statuses
  BY StatusTable
<1> SUFFICES ASSUME Init PROVE TypeOK
  OBVIOUS
<1>4. status \in [Reports -> Statuses] /\ progress \in [Reports -> 0..Sections]
  BY <1>1, <1>3 DEF Init
<1>5. requests \in [Requests -> RequestStates] /\ workers \in [Workers -> WorkerStates]
  BY <1>2 DEF Init
<1> QED
  BY <1>1, <1>4, <1>5 DEF Init, TypeOK

(* Every handler, thread step and process event keeps the type.            *)
LEMMA StepTypeOK == TypeOK /\ [Next]_vars => TypeOK'
<1> SUFFICES ASSUME TypeOK, [Next]_vars PROVE TypeOK'
  OBVIOUS
<1>i. /\ IdleRequest \in RequestStates /\ IdleWorker \in WorkerStates
      /\ [IdleRequest EXCEPT !.pc = "admitted"] \in RequestStates
  BY NewRequestFacts, NewWorkerFacts
<1>s. "pending" \in Statuses /\ "processing" \in Statuses
      /\ "completed" \in Statuses /\ "failed" \in Statuses
  BY StatusTable
<1>0. 0 \in 0..Sections
  BY ReportConstants DEF ReportConstants
<1>1. ASSUME NEW q \in Requests, Admit(q) PROVE TypeOK'
  BY <1>1, <1>i DEF Admit, TypeOK, rowVars, boundVars
<1>2. ASSUME NEW q \in Requests, NEW r \in Reports, Load(q, r) PROVE TypeOK'
  <2>1. [pc |-> "loaded", report |-> r, seen |-> progress[r]] \in RequestStates
    BY NewRequestFacts DEF TypeOK
  <2>2. requests' \in [Requests -> RequestStates]
    BY <1>2, <2>1 DEF Load, TypeOK
  <2> QED
    BY <1>2, <2>2 DEF Load, TypeOK
<1>3. ASSUME NEW q \in Requests, Create(q) PROVE TypeOK'
  <2>1. PICK r \in Reports :
          /\ status' = [status EXCEPT ![r] = "pending"]
          /\ requests' = [requests EXCEPT ![q] = [pc |-> "queueing", report |-> r, seen |-> 0]]
    BY <1>3 DEF Create
  <2>2. requests' \in [Requests -> RequestStates]
    BY <1>0, <2>1, NewRequestFacts DEF TypeOK
  <2> QED
    BY <1>3, <1>s, <2>1, <2>2 DEF Create, TypeOK, boundVars
<1>4. ASSUME NEW q \in Requests, Regenerate(q) PROVE TypeOK'
  <2>1. [requests[q] EXCEPT !.pc = "queueing", !.seen = 0] \in RequestStates
    BY <1>4, RequestFacts DEF Regenerate, TypeOK
  <2>2. requests' \in [Requests -> RequestStates]
    BY <1>4, <2>1 DEF Regenerate, TypeOK
  <2> QED
    BY <1>4, <1>0, <1>s, <2>2 DEF Regenerate, TypeOK, boundVars
<1>5. ASSUME NEW q \in Requests, Enqueue(q) PROVE TypeOK'
  <2>1. requests[q].report \in Reports
    BY <1>5, RequestFacts DEF Enqueue, TypeOK
  <2>2. queue' \in Seq(Reports) /\ requests' \in [Requests -> RequestStates]
    BY <1>5, <1>i, <2>1 DEF Enqueue, TypeOK
  <2> QED
    BY <1>5, <2>1, <2>2 DEF Enqueue, TypeOK, rowVars, boundVars
<1>6. ASSUME NEW r \in Reports, Delete(r) PROVE TypeOK'
  BY <1>6 DEF Delete, TypeOK
<1>7. ASSUME NEW q \in Requests, RequestFault(q) PROVE TypeOK'
  BY <1>7, <1>i DEF RequestFault, TypeOK, rowVars
<1>8. ASSUME NEW w \in Workers, Take(w) PROVE TypeOK'
  <2>1. Head(queue) \in Reports /\ Tail(queue) \in Seq(Reports)
    BY <1>8 DEF Take, TypeOK
  <2>2. status[Head(queue)] \in Statuses
    BY <2>1 DEF TypeOK
  <2>3. workers' \in [Workers -> WorkerStates]
    BY <1>8, <2>1, <2>2, NewWorkerFacts DEF Take, TypeOK
  <2> QED
    BY <1>8, <2>1, <2>3 DEF Take, TypeOK, rowVars, boundVars
<1>9. ASSUME NEW w \in Workers, Claim(w) PROVE TypeOK'
  <2>1. CASE workers' = [workers EXCEPT ![w] = IdleWorker] /\ UNCHANGED <<status, attempts, content, progress>>
    BY <1>9, <1>i, <2>1 DEF Claim, TypeOK, boundVars
  <2>2. CASE /\ status' = [status EXCEPT ![workers[w].report] = "processing"]
             /\ attempts' = [attempts EXCEPT ![workers[w].report] = @ + 1]
             /\ content' = [content EXCEPT ![workers[w].report] = 0]
             /\ progress' = [progress EXCEPT ![workers[w].report] = 0]
             /\ workers' = [workers EXCEPT
                             ![w].pc = "claimed", ![w].attempt = attempts'[workers[w].report],
                             ![w].seen = IF @ = "pending" THEN "processing" ELSE @]
    <3>1. /\ workers[w].report \in Reports /\ workers[w].seen \in Statuses
          /\ \A k \in Nat, s \in Statuses :
               [workers[w] EXCEPT !.pc = "claimed", !.attempt = k, !.seen = s] \in WorkerStates
      BY <1>9, WorkerFacts DEF Claim, TypeOK
    <3>2. attempts' \in [Reports -> Nat]
      <4>1. attempts \in [Reports -> Nat]
        BY DEF TypeOK
      <4>2. PICK r \in Reports : r = workers[w].report
        BY <3>1
      <4>3. attempts' = [attempts EXCEPT ![r] = @ + 1]
        BY <2>2, <4>2
      <4> QED
        BY <4>1, <4>3
    <3>3. PICK n \in Nat, seen \in Statuses :
            workers' = [workers EXCEPT ![w] =
                          [workers[w] EXCEPT !.pc = "claimed", !.attempt = n, !.seen = seen]]
      <4>1. PICK n \in Nat : n = attempts'[workers[w].report]
        BY <3>1, <3>2
      <4>2. PICK seen \in Statuses :
              seen = IF workers[w].seen = "pending" THEN "processing" ELSE workers[w].seen
        BY <1>s, <3>1
      <4>3. workers' = [workers EXCEPT ![w].pc = "claimed", ![w].attempt = n, ![w].seen = seen]
        BY <2>2, <4>1, <4>2
      <4>4. workers \in [Workers -> WorkerStates]
        BY DEF TypeOK
      <4> QED
        BY <4>3, <4>4
    <3>4. workers' \in [Workers -> WorkerStates]
      BY <3>1, <3>3 DEF TypeOK
    <3> QED
      BY <1>9, <1>0, <1>s, <2>2, <3>1, <3>2, <3>4 DEF Claim, TypeOK, boundVars
  <2> QED
    BY <1>9, <2>1, <2>2, Zenon DEF Claim
<1>10. ASSUME NEW w \in Workers, Plan(w) \/ GiveUp(w) \/ Validate(w) PROVE TypeOK'
  <2>1. PICK pc \in {"writing", "completing", "failing"} :
          workers' = [workers EXCEPT ![w].pc = pc]
    BY <1>10 DEF Plan, GiveUp, Validate
  <2>2. [workers[w] EXCEPT !.pc = pc] \in WorkerStates
    BY <1>10, WorkerFacts DEF Plan, GiveUp, Validate, TypeOK
  <2>3. workers' \in [Workers -> WorkerStates]
    BY <2>1, <2>2 DEF TypeOK
  <2>4. progress' \in [Reports -> 0..Sections]
    BY <1>10, <1>0 DEF Plan, GiveUp, Validate, TypeOK, rowVars
  <2> QED
    BY <1>10, <2>3, <2>4 DEF Plan, GiveUp, Validate, TypeOK, rowVars, boundVars
<1>11. ASSUME NEW w \in Workers, WriteSection(w) PROVE TypeOK'
  <2>1. PICK grounded \in BOOLEAN :
          workers' = [workers EXCEPT ![w].written = @ + 1, ![w].grounded = @ \/ grounded]
    BY <1>11 DEF WriteSection
  <2> DEFINE n == workers[w].written + 1
             g == workers[w].grounded \/ grounded
  <2>2. /\ workers[w].written \in 0..Sections
        /\ \A m \in 0..Sections, b \in BOOLEAN :
             [workers[w] EXCEPT !.written = m, !.grounded = b] \in WorkerStates
    BY <1>11, WorkerFacts DEF WriteSection, TypeOK
  <2>3. n \in 0..Sections /\ g \in BOOLEAN
    <3>1. workers[w].written \in 0..Sections /\ workers[w].written < Sections
      BY <1>11, <2>2 DEF WriteSection
    <3> QED
      BY <3>1, ReportConstants DEF ReportConstants
  <2>4. workers' = [workers EXCEPT ![w] = [workers[w] EXCEPT !.written = n, !.grounded = g]]
    BY <2>1 DEF TypeOK
  <2>5. workers' \in [Workers -> WorkerStates]
    <3> HIDE DEF n, g
    <3> QED
      BY <2>2, <2>3, <2>4 DEF TypeOK
  <2>6. progress' \in [Reports -> 0..Sections]
    BY <1>11, <2>3 DEF WriteSection, TypeOK
  <2> QED
    BY <1>11, <2>5, <2>6 DEF WriteSection, TypeOK, boundVars
<1>12. ASSUME NEW w \in Workers, Complete(w) PROVE TypeOK'
  <2>1. workers[w].attempt \in Nat
    BY <1>12, WorkerFacts DEF Complete, TypeOK
  <2> QED
    BY <1>12, <1>i, <1>s, <2>1 DEF Complete, TypeOK, boundVars
<1>13. ASSUME NEW w \in Workers, Fail(w) \/ Refuse(w) \/ WorkerFault(w) PROVE TypeOK'
  <2>1. CASE Fail(w)
    BY <2>1, <1>i, <1>s DEF Fail, TypeOK, boundVars
  <2>2. CASE Refuse(w)
    BY <2>2, <1>i DEF Refuse, TypeOK, rowVars, boundVars
  <2>3. CASE WorkerFault(w)
    BY <2>3, <1>i DEF WorkerFault, TypeOK, rowVars
  <2> QED
    BY <1>13, <2>1, <2>2, <2>3
<1>14. CASE Start
  <2>1. PICK jobs \in JobLists(Pending \ deleted) : queue' = jobs
    BY <1>14 DEF Start
  <2>2. Pending \ deleted \in SUBSET Reports
    BY DEF Pending
  <2>3. queue' \in Seq(Reports)
    BY <2>1, <2>2, JobListsAreSeqs
  <2> QED
    BY <1>14, <2>3 DEF Start, TypeOK, rowVars, boundVars
<1>15. CASE Stop \/ Drained \/ UNCHANGED vars \/ StartFault
  BY <1>15 DEF StartFault, Stop, Drained, TypeOK, rowVars, boundVars, vars
<1>16. CASE Crash
  BY <1>16, <1>i DEF Crash, TypeOK, rowVars
<1> QED
  BY <1>1, <1>2, <1>3, <1>4, <1>5, <1>6, <1>7, <1>8, <1>9, <1>10, <1>11, <1>12,
     <1>13, <1>14, <1>15, <1>16
  DEF Next, RequestStep, WorkerStep

(* Every variable keeps its type: a thread's copy of a row, the sections   *)
(* it counts and the column they are written to stay in their ranges,      *)
(* whatever is created, withdrawn or regenerated meanwhile.                *)
THEOREM TypeCorrect == Spec => []TypeOK
<1> QED
  BY InitTypeOK, StepTypeOK, PTL DEF Spec

-----------------------------------------------------------------------------
(* The limit on active runs *)

(* A run takes its place under the limit when a request has counted the    *)
(* active ones; the write turns the claim into a row.                      *)

(* Claims are counted in numbers. *)
LEMMA ClaimFacts ==
    /\ IsFiniteSet(Active) /\ IsFiniteSet(Counted)
    /\ Cardinality(Active) \in Nat /\ Cardinality(Counted) \in Nat
    /\ IsFiniteSet(Active') /\ IsFiniteSet(Counted')
    /\ Cardinality(Active)' \in Nat /\ Cardinality(Counted)' \in Nat
    /\ Cardinality(Counted)' <= Cardinality(Requests)
    /\ Cardinality(Requests) \in Nat /\ ActiveLimit \in Nat \ {0}
<1>1. Active \subseteq Reports /\ Active' \subseteq Reports
  BY DEF Active
<1>2. Counted \subseteq Requests /\ Counted' \subseteq Requests
  BY DEF Counted
<1>3. Cardinality(Requests) \in Nat
  BY FiniteSets
<1> QED
  BY <1>1, <1>2, <1>3, FiniteSets, ReportConstants DEF ReportConstants

(* A step that adds neither an active run nor a counted request.           *)
LEMMA NoNewClaim ==
    ASSUME ActiveBounded,
           Active' \subseteq Active, Counted' \subseteq Counted
    PROVE  ActiveBounded'
<1>1. Cardinality(Active)' <= Cardinality(Active) /\ Cardinality(Counted)' <= Cardinality(Counted)
  BY ClaimFacts, FS_Subset
<1> QED
  BY <1>1, ClaimFacts DEF ActiveBounded

(* A request that writes spends its claim on at most one active run.       *)
LEMMA ClaimSpent ==
    ASSUME ActiveBounded,
           NEW r, NEW q \in Counted,
           Active' \subseteq Active \cup {r}, Counted' \subseteq Counted \ {q}
    PROVE  ActiveBounded'
<1>1. Cardinality(Active)' <= Cardinality(Active) + 1
  <2>1. /\ IsFiniteSet(Active \cup {r})
        /\ Cardinality(Active \cup {r}) <= Cardinality(Active) + 1
    <3>1. IsFiniteSet(Active)
      BY ClaimFacts
    <3>2. /\ IsFiniteSet(Active \cup {r})
          /\ Cardinality(Active \cup {r}) =
               IF r \in Active THEN Cardinality(Active) ELSE Cardinality(Active) + 1
      BY <3>1, FS_AddElement
    <3>3. Cardinality(Active) \in Nat
      BY ClaimFacts
    <3> QED
      BY <3>2, <3>3
  <2> QED
    BY <2>1, ClaimFacts, FS_Subset, FS_CardinalityType
<1>2. Cardinality(Counted)' <= Cardinality(Counted) - 1
  <2>1. /\ IsFiniteSet(Counted \ {q})
        /\ Cardinality(Counted \ {q}) = Cardinality(Counted) - 1
    BY ClaimFacts, FS_RemoveElement
  <2> QED
    BY <2>1, ClaimFacts, FS_Subset
<1> QED
  BY <1>1, <1>2, ClaimFacts DEF ActiveBounded

(* A request that is admitted found the active runs below the limit.       *)
LEMMA ClaimMade ==
    ASSUME ActiveBounded, NEW q \in Requests, Cardinality(Active) < ActiveLimit,
           UNCHANGED <<status, deleted>>,
           Counted' = Counted \cup {q}
    PROVE  ActiveBounded'
<1>1. Active' = Active
  BY DEF Active
<1> QED
  BY <1>1, ClaimFacts DEF ActiveBounded

(* Every step keeps claims within the number of requests above the limit.  *)
LEMMA StepActiveBounded ==
    ASSUME TypeOK, ActiveBounded, [Next]_vars
    PROVE  ActiveBounded'
<1>i. IdleRequest.pc = "idle" /\ [IdleRequest EXCEPT !.pc = "admitted"].pc = "admitted"
  BY NewRequestFacts
<1>1. ASSUME NEW q \in Requests, Admit(q) PROVE ActiveBounded'
  <2>1. requests' = [requests EXCEPT ![q] = [IdleRequest EXCEPT !.pc = "admitted"]]
    BY <1>1 DEF Admit, TypeOK
  <2>2. Counted' = Counted \cup {q}
    BY <1>i, <2>1 DEF Counted, TypeOK
  <2> QED
    BY <1>1, <2>2, ClaimMade DEF Admit, rowVars
<1>2. ASSUME NEW q \in Requests, NEW r \in Reports, Load(q, r) PROVE ActiveBounded'
  <2>1. Counted' = Counted \cup {q}
    BY <1>2 DEF Load, Counted, TypeOK
  <2> QED
    BY <1>2, <2>1, ClaimMade DEF Load
<1>3. ASSUME NEW q \in Requests, Create(q) PROVE ActiveBounded'
  <2>1. PICK r \in Reports :
          /\ status' = [status EXCEPT ![r] = "pending"]
          /\ requests' = [requests EXCEPT ![q] = [pc |-> "queueing", report |-> r, seen |-> 0]]
    BY <1>3 DEF Create
  <2>2. q \in Counted /\ Counted' \subseteq Counted \ {q}
    BY <1>3, <2>1 DEF Create, Counted, TypeOK
  <2>3. Active' \subseteq Active \cup {r}
    BY <1>3, <2>1 DEF Create, Active, TypeOK
  <2> QED
    BY <1>3, <2>2, <2>3, ClaimSpent DEF Create
<1>4. ASSUME NEW q \in Requests, Regenerate(q) PROVE ActiveBounded'
  <2>1. [requests[q] EXCEPT !.pc = "queueing", !.seen = 0].pc = "queueing"
    BY <1>4, RequestFacts DEF Regenerate, TypeOK
  <2>2. \A p \in Requests : requests'[p].pc = IF p = q THEN "queueing" ELSE requests[p].pc
    BY <1>4, <2>1 DEF Regenerate, TypeOK
  <2>3. q \in Counted /\ Counted' \subseteq Counted \ {q}
    <3>1. requests[q].pc = "loaded"
      BY <1>4 DEF Regenerate
    <3> QED
      BY <2>2, <3>1 DEF Counted
  <2>4. Active' \subseteq Active \cup {requests[q].report}
    BY <1>4 DEF Regenerate, Active, TypeOK
  <2> QED
    BY <1>4, <2>3, <2>4, ClaimSpent DEF Regenerate
<1>5. ASSUME NEW q \in Requests, Enqueue(q) \/ RequestFault(q) PROVE ActiveBounded'
  <2>1. Counted' \subseteq Counted
    BY <1>5, <1>i DEF Enqueue, RequestFault, Counted, TypeOK
  <2> QED
    BY <1>5, <2>1, NoNewClaim DEF Enqueue, RequestFault, Active, rowVars
<1>6. ASSUME NEW r \in Reports, Delete(r) PROVE ActiveBounded'
  BY <1>6, NoNewClaim DEF Delete, Active, Counted
<1>7. ASSUME NEW w \in Workers, Claim(w) PROVE ActiveBounded'
  <2>1. Active' \subseteq Active
    <3>1. CASE UNCHANGED status
      BY <1>7, <3>1 DEF Claim, Active
    <3>2. CASE /\ status[workers[w].report] = "pending"
               /\ status' = [status EXCEPT ![workers[w].report] = "processing"]
      BY <1>7, <3>2 DEF Claim, Active, TypeOK
    <3> QED
      BY <1>7, <3>1, <3>2 DEF Claim
  <2> QED
    BY <1>7, <2>1, NoNewClaim DEF Claim, Counted
<1>8. ASSUME NEW w \in Workers, Complete(w) \/ Fail(w) PROVE ActiveBounded'
  <2>1. Active' \subseteq Active
    BY <1>8 DEF Complete, Fail, Active, TypeOK
  <2> QED
    BY <1>8, <2>1, NoNewClaim DEF Complete, Fail, Counted
<1>9. ASSUME NEW w \in Workers,
             Take(w) \/ Plan(w) \/ WriteSection(w) \/ GiveUp(w) \/ Validate(w) \/ Refuse(w)
               \/ WorkerFault(w)
      PROVE  ActiveBounded'
  BY <1>9, NoNewClaim
  DEF Take, Plan, WriteSection, GiveUp, Validate, Refuse, WorkerFault, Active, Counted, rowVars
<1>10. CASE Start \/ StartFault \/ Stop \/ Drained \/ UNCHANGED vars
  BY <1>10, NoNewClaim DEF Start, StartFault, Stop, Drained, Active, Counted, rowVars, vars
<1>11. CASE Crash
  <2>1. Counted' = {}
    BY <1>11, <1>i DEF Crash, Counted
  <2> QED
    BY <1>11, <2>1, NoNewClaim DEF Crash, Active, rowVars
<1> QED
  BY <1>1, <1>2, <1>3, <1>4, <1>5, <1>6, <1>7, <1>8, <1>9, <1>10, <1>11
  DEF Next, RequestStep, WorkerStep

(* The runs a user has queued and running, with the requests that have     *)
(* counted them and not yet written, never pass the limit by as much as    *)
(* the number of requests that can overlap, hence never if there is one at *)
(* a time (request_report, regenerate, count_active).                      *)
THEOREM WorkStaysBounded == Spec => []ActiveBounded
<1>1. Init => ActiveBounded
  <2> SUFFICES ASSUME Init PROVE ActiveBounded
    OBVIOUS
  <2>1. Active = {} /\ Counted = {}
    BY NewRequestFacts DEF Init, Active, Counted
  <2>2. Cardinality(Active) = 0 /\ Cardinality(Counted) = 0
    BY <2>1, FS_EmptySet
  <2> QED
    BY <2>2, ClaimFacts DEF ActiveBounded
<1>2. TypeOK /\ ActiveBounded /\ [Next]_vars => ActiveBounded'
  BY StepActiveBounded
<1> QED
  BY <1>1, <1>2, TypeCorrect, PTL DEF Spec

-----------------------------------------------------------------------------
(* Withdrawn reports *)

(* A row that is withdrawn exists, and a row never ceases to exist.        *)
DeletedExist == \A r \in deleted : status[r] # "none"

(* No step takes a row away, and only existing rows are withdrawn.         *)
LEMMA StepDeletedExist ==
    ASSUME TypeOK, DeletedExist, [Next]_vars
    PROVE  DeletedExist'
<1>1. \A r \in Reports : status[r] # "none" => status'[r] # "none"
  BY DEF Next, RequestStep, WorkerStep, Admit, Load, Create, Regenerate, Enqueue, RequestFault,
         Delete, Take, Claim, Plan, WriteSection, GiveUp, Validate, Complete, Fail, Refuse,
         WorkerFault, Start, StartFault, Stop, Drained, Crash, rowVars, vars, TypeOK
<1>2. \A r \in deleted' : r \in deleted \/ status[r] # "none"
  BY DEF Next, RequestStep, WorkerStep, Admit, Load, Create, Regenerate, Enqueue, RequestFault,
         Delete, Take, Claim, Plan, WriteSection, GiveUp, Validate, Complete, Fail, Refuse,
         WorkerFault, Start, StartFault, Stop, Drained, Crash, rowVars, vars, TypeOK
<1>3. deleted \subseteq Reports /\ deleted' \subseteq Reports
  BY StepTypeOK DEF TypeOK
<1> QED
  BY <1>1, <1>2, <1>3 DEF DeletedExist

(* No step gives a withdrawn report a job: requeue_pending leaves it out,  *)
(* a new row is not a withdrawn one, and a job that is queued, taken or    *)
(* finished was one before.                                                *)
LEMMA StepWithdrawn ==
    ASSUME TypeOK, DeletedExist, [Next]_vars, NEW r \in deleted
    PROVE  /\ r \in deleted'
           /\ HasJob(r)' => HasJob(r) \/ \E q \in Requests : requests[q].report = r
<1> DEFINE Had  == HasJob(r) \/ \E q \in Requests : requests[q].report = r
           Goal == r \in deleted' /\ (HasJob(r)' => Had)
<1>r. r \in Reports
  BY DEF TypeOK
<1>k. ASSUME deleted' = deleted, UNCHANGED queue,
             \A w \in Workers : workers'[w].pc = "loaded" => workers'[w] = workers[w],
             \A q \in Requests : requests'[q].pc = "queueing" => requests'[q] = requests[q]
      PROVE  Goal
  BY <1>k DEF HasJob
<1>i. IdleRequest.pc = "idle" /\ IdleWorker.pc = "idle"
      /\ [IdleRequest EXCEPT !.pc = "admitted"].pc = "admitted"
  BY NewRequestFacts, NewWorkerFacts
<1>1. ASSUME NEW q \in Requests, Admit(q) PROVE Goal
  <2>1. requests' = [requests EXCEPT ![q] = [IdleRequest EXCEPT !.pc = "admitted"]]
    BY <1>1 DEF Admit, TypeOK
  <2> QED
    BY <1>1, <1>i, <1>k, <2>1 DEF Admit, TypeOK, rowVars
<1>2. ASSUME NEW q \in Requests, NEW s \in Reports, Load(q, s) PROVE Goal
  BY <1>2, <1>k DEF Load, TypeOK
<1>3. ASSUME NEW q \in Requests, Create(q) PROVE Goal
  <2>1. PICK s \in Reports :
          /\ status[s] = "none"
          /\ requests' = [requests EXCEPT ![q] = [pc |-> "queueing", report |-> s, seen |-> 0]]
    BY <1>3 DEF Create
  <2>2. s # r /\ UNCHANGED <<deleted, queue, workers>>
    BY <1>3, <2>1 DEF Create, DeletedExist
  <2>3. \A p \in Requests : requests'[p].report = r => p # q /\ requests'[p] = requests[p]
    BY <2>1, <2>2 DEF TypeOK
  <2> QED
    BY <2>2, <2>3 DEF HasJob
<1>4. ASSUME NEW q \in Requests, Regenerate(q) PROVE Goal
  <2>1. [requests[q] EXCEPT !.pc = "queueing", !.seen = 0].report = requests[q].report
    BY <1>4, RequestFacts DEF Regenerate, TypeOK
  <2>2. \A p \in Requests : requests'[p].report = requests[p].report
    BY <1>4, <2>1 DEF Regenerate, TypeOK
  <2>3. UNCHANGED <<deleted, queue, workers>>
    BY <1>4 DEF Regenerate
  <2> QED
    BY <2>2, <2>3 DEF HasJob
<1>5. ASSUME NEW q \in Requests, Enqueue(q) PROVE Goal
  <2>1. /\ queue \in Seq(Reports) /\ queue' = Append(queue, requests[q].report)
        /\ UNCHANGED <<deleted, workers>>
        /\ \A p \in Requests : requests'[p].pc = "queueing" => requests'[p] = requests[p]
    BY <1>5, <1>i DEF Enqueue, TypeOK, rowVars
  <2>2. ASSUME NEW i \in DOMAIN queue', queue'[i] = r PROVE Had
    <3>1. CASE i = Len(queue) + 1
      BY <2>1, <2>2, <3>1
    <3>2. CASE i # Len(queue) + 1
      <4>1. i \in DOMAIN queue /\ queue[i] = r
        BY <2>1, <2>2, <3>2
      <4> QED
        BY <4>1 DEF HasJob
    <3> QED
      BY <3>1, <3>2
  <2> QED
    BY <2>1, <2>2 DEF HasJob
<1>6. ASSUME NEW s \in Reports, Delete(s) PROVE Goal
  BY <1>6 DEF Delete, HasJob
<1>7. ASSUME NEW q \in Requests, RequestFault(q) PROVE Goal
  BY <1>7, <1>i, <1>k DEF RequestFault, TypeOK, rowVars
<1>8. ASSUME NEW w \in Workers, Take(w) PROVE Goal
  <2>1. /\ queue \in Seq(Reports) /\ queue # <<>> /\ queue' = Tail(queue)
        /\ UNCHANGED <<deleted, requests>>
        /\ workers'[w].report = Head(queue)
        /\ \A v \in Workers : v # w => workers'[v] = workers[v]
    BY <1>8 DEF Take, TypeOK, rowVars, IdleWorker
  <2>2. ASSUME NEW i \in DOMAIN queue', queue'[i] = r PROVE HasJob(r)
    <3>1. i + 1 \in DOMAIN queue /\ queue[i + 1] = r
      BY <2>1, <2>2
    <3> QED
      BY <3>1 DEF HasJob
  <2>3. ASSUME Head(queue) = r PROVE HasJob(r)
    <3>1. 1 \in DOMAIN queue /\ queue[1] = r
      BY <2>1, <2>3
    <3> QED
      BY <3>1 DEF HasJob
  <2> QED
    BY <2>1, <2>2, <2>3 DEF HasJob
<1>9. ASSUME NEW w \in Workers, Claim(w) PROVE Goal
  <2>1. PICK s \in Reports : s = workers[w].report
    BY <1>9, WorkerFacts DEF Claim, TypeOK
  <2>2. workers'[w].pc # "loaded" /\ \A v \in Workers : v # w => workers'[v] = workers[v]
    BY <1>9, <2>1, ClaimFields
  <2> QED
    BY <1>9, <1>k, <2>2 DEF Claim
<1>10. ASSUME NEW w \in Workers,
              Plan(w) \/ WriteSection(w) \/ GiveUp(w) \/ Validate(w)
       PROVE  Goal
  <2>1. workers[w] \in WorkerStates /\ workers[w].pc \notin {"idle", "loaded"}
    BY <1>10 DEF Plan, WriteSection, GiveUp, Validate, TypeOK
  <2>2. workers'[w].pc # "loaded" /\ \A v \in Workers : v # w => workers'[v] = workers[v]
    BY <1>10, <2>1, MoveFields, WriteFields
  <2> QED
    BY <1>10, <1>k, <2>2 DEF Plan, WriteSection, GiveUp, Validate, rowVars
<1>11. ASSUME NEW w \in Workers, Complete(w) \/ Fail(w) \/ Refuse(w) \/ WorkerFault(w)
       PROVE  Goal
  <2>1. \A v \in Workers : workers'[v].pc = "loaded" => workers'[v] = workers[v]
    BY <1>11, <1>i DEF Complete, Fail, Refuse, WorkerFault, TypeOK
  <2> QED
    BY <1>11, <1>k, <2>1 DEF Complete, Fail, Refuse, WorkerFault, rowVars
<1>12. CASE Start
  <2>1. PICK jobs \in JobLists(Pending \ deleted) : queue' = jobs
    BY <1>12 DEF Start
  <2>2. jobs \in Seq(Pending \ deleted)
    BY <2>1, JobListsAreSeqs DEF Pending
  <2>3. \A i \in DOMAIN queue' : queue'[i] # r
    BY <2>1, <2>2
  <2> QED
    BY <1>12, <2>3 DEF Start, HasJob, rowVars
<1>13. CASE StartFault \/ Stop \/ Drained \/ UNCHANGED vars
  BY <1>13, <1>k DEF StartFault, Stop, Drained, rowVars, vars
<1>14. CASE Crash
  <2>1. queue' = <<>> /\ UNCHANGED deleted
    BY <1>14 DEF Crash, rowVars
  <2> QED
    BY <1>14, <1>i, <2>1 DEF Crash, HasJob
<1> QED
  BY <1>1, <1>2, <1>3, <1>4, <1>5, <1>6, <1>7, <1>8, <1>9, <1>10, <1>11, <1>12,
     <1>13, <1>14
  DEF Next, RequestStep, WorkerStep

(* A withdrawn report gets no new job, neither at startup nor from a       *)
(* request that had not read it before it was withdrawn (delete_report,    *)
(* pending_reports, regenerate).                                           *)
THEOREM WithdrawnGetsNoJob == Spec => WithdrawnIsFinal
<1> DEFINE A == \A r \in deleted :
                  /\ r \in deleted'
                  /\ HasJob(r)' => HasJob(r) \/ \E q \in Requests : requests[q].report = r
<1>1. Init => DeletedExist
  BY DEF Init, DeletedExist
<1>2. TypeOK /\ DeletedExist /\ [Next]_vars => DeletedExist'
  BY StepDeletedExist
<1>3. TypeOK /\ DeletedExist /\ [Next]_vars => [A]_vars
  BY StepWithdrawn
<1> QED
  BY <1>1, <1>2, <1>3, TypeCorrect, PTL DEF Spec, WithdrawnIsFinal

-----------------------------------------------------------------------------
(* The content of a report *)

(* A request that has read a row and not written it yet; a thread that has *)
(* claimed a row and is not done with it.                                  *)
Loads(q, r) == requests[q].pc = "loaded" /\ requests[q].report = r
Works(w, r) == workers[w].report = r /\ workers[w].pc \notin {"idle", "loaded"}

(* The row is finished as long as a regeneration is about to write it.     *)
LoadOwnsRow(r) ==
    /\ \A q \in Requests : Loads(q, r) => CanRegenerate(status[r])
    /\ \A p, q \in Requests : Loads(p, r) /\ Loads(q, r) => p = q

(* One thread at a time writes a report, the row is being processed while  *)
(* it does, and the counters of the row are those of the thread.           *)
OneThread(r) ==
    /\ \A v, w \in Workers : Works(v, r) /\ Works(w, r) => v = w
    /\ \A w \in Workers : Works(w, r) =>
         /\ status[r] = "processing"
         /\ workers[w].attempt = attempts[r]
         /\ workers[w].pc \in {"writing", "completing"} => progress[r] = workers[w].written
         /\ workers[w].pc = "completing" => workers[w].written = Sections

ContentOf(r) ==
    /\ status[r] = "completed" => content[r] = attempts[r] /\ progress[r] = Sections
    /\ status[r] \in {"processing", "failed"} => content[r] = 0

RowInv(r) == LoadOwnsRow(r) /\ OneThread(r) /\ ContentOf(r)

(* No section is written before the plan.                                  *)
NothingWritten == \A w \in Workers : workers[w].pc \in {"loaded", "claimed"} => workers[w].written = 0

ContentInv == NothingWritten /\ \A r \in Reports \ raced : RowInv(r)

(* A step that leaves the row alone, starts no work on it and reads it for *)
(* no new request keeps what holds of it.                                  *)
LEMMA RowUntouched ==
    ASSUME NEW r \in Reports, RowInv(r),
           status'[r] = status[r], attempts'[r] = attempts[r],
           content'[r] = content[r], progress'[r] = progress[r],
           \A q \in Requests : Loads(q, r)' => Loads(q, r),
           \A w \in Workers : Works(w, r)' =>
              /\ Works(w, r)
              /\ workers'[w].attempt = workers[w].attempt
              /\ workers'[w].written = workers[w].written
              /\ workers'[w].pc = workers[w].pc \/ workers'[w].pc = "failing"
    PROVE  RowInv(r)'
<1>1. LoadOwnsRow(r)'
  BY DEF RowInv, LoadOwnsRow, CanRegenerate
<1>2. OneThread(r)'
  BY DEF RowInv, OneThread
<1>3. ContentOf(r)'
  BY DEF RowInv, ContentOf
<1> QED
  BY <1>1, <1>2, <1>3 DEF RowInv

(* No thread that has yet to plan holds a section.                         *)
LEMMA StepNothingWritten ==
    ASSUME TypeOK, NothingWritten, [Next]_vars
    PROVE  NothingWritten'
<1>i. IdleWorker.pc = "idle"
  BY NewWorkerFacts
<1>k. ASSUME UNCHANGED workers PROVE NothingWritten'
  BY <1>k DEF NothingWritten
<1>1. ASSUME NEW w \in Workers, Take(w) PROVE NothingWritten'
  <2>1. Head(queue) \in Reports
    BY <1>1 DEF Take, TypeOK
  <2>2. status[Head(queue)] \in Statuses
    BY <2>1 DEF TypeOK
  <2>3. workers'[w].written = 0 /\ \A v \in Workers : v # w => workers'[v] = workers[v]
    BY <1>1, <2>1, <2>2, NewWorkerFacts DEF Take, TypeOK
  <2> QED
    BY <2>3 DEF NothingWritten
<1>2. ASSUME NEW w \in Workers, Claim(w) PROVE NothingWritten'
  <2>1. PICK r \in Reports : r = workers[w].report
    BY <1>2, WorkerFacts DEF Claim, TypeOK
  <2>2. workers[w].pc = "loaded"
    BY <1>2 DEF Claim
  <2> QED
    BY <1>2, <2>1, <2>2, ClaimFields DEF NothingWritten
<1>3. ASSUME NEW w \in Workers, Plan(w) \/ GiveUp(w) \/ Validate(w) PROVE NothingWritten'
  BY <1>3, MoveFields DEF NothingWritten
<1>4. ASSUME NEW w \in Workers, WriteSection(w) PROVE NothingWritten'
  BY <1>4, WriteFields DEF NothingWritten
<1>5. ASSUME NEW w \in Workers, Complete(w) \/ Fail(w) \/ Refuse(w) \/ WorkerFault(w)
      PROVE  NothingWritten'
  BY <1>5, <1>i DEF Complete, Fail, Refuse, WorkerFault, NothingWritten, TypeOK
<1>6. CASE Crash
  BY <1>6, <1>i DEF Crash, NothingWritten
<1> QED
  BY <1>1, <1>2, <1>3, <1>4, <1>5, <1>6, <1>k
  DEF Next, RequestStep, WorkerStep, Admit, Load, Create, Regenerate, Enqueue, RequestFault,
      Delete, Start, StartFault, Stop, Drained, vars

(* Requests: what they read and write of a row that is not raced.          *)
LEMMA RequestKeepsRow ==
    ASSUME TypeOK, NEW r \in Reports, r \notin raced', RowInv(r), NEW q \in Requests,
           \/ Admit(q) \/ (\E s \in Reports : Load(q, s)) \/ RequestStep(q) \/ RequestFault(q)
    PROVE  RowInv(r)'
<1>i. IdleRequest.pc = "idle" /\ [IdleRequest EXCEPT !.pc = "admitted"].pc = "admitted"
  BY NewRequestFacts
<1>1. CASE Admit(q)
  <2>1. requests' = [requests EXCEPT ![q] = [IdleRequest EXCEPT !.pc = "admitted"]]
    BY <1>1 DEF Admit, TypeOK
  <2>2. \A p \in Requests : Loads(p, r)' => Loads(p, r)
    BY <1>i, <2>1 DEF Loads, TypeOK
  <2> QED
    BY <1>1, <2>2, RowUntouched DEF Admit, Works, rowVars
<1>2. ASSUME NEW s \in Reports, Load(q, s) PROVE RowInv(r)'
  <2>1. CASE s # r
    <3>1. \A p \in Requests : Loads(p, r)' => Loads(p, r)
      BY <1>2, <2>1 DEF Load, Loads, TypeOK
    <3> QED
      BY <1>2, <3>1, RowUntouched DEF Load, Works
  <2>2. CASE s = r
    <3>1. \A p \in Requests : ~Loads(p, r)
      BY <1>2, <2>2 DEF Load, Overlaps, Loads
    <3>2. \A p \in Requests : Loads(p, r)' => p = q
      BY <1>2, <3>1 DEF Load, Loads, TypeOK
    <3>3. UNCHANGED <<status, attempts, content, progress, workers>> /\ CanRegenerate(status[r])
      BY <1>2, <2>2 DEF Load
    <3>4. LoadOwnsRow(r)'
      BY <3>2, <3>3 DEF LoadOwnsRow, CanRegenerate
    <3>5. OneThread(r)' /\ ContentOf(r)'
      BY <3>3 DEF RowInv, OneThread, ContentOf, Works
    <3> QED
      BY <3>4, <3>5 DEF RowInv
  <2> QED
    BY <2>1, <2>2
<1>3. CASE Create(q)
  <2>1. PICK s \in Reports :
          /\ status[s] = "none"
          /\ status' = [status EXCEPT ![s] = "pending"]
          /\ requests' = [requests EXCEPT ![q] = [pc |-> "queueing", report |-> s, seen |-> 0]]
    BY <1>3 DEF Create
  <2>2. \A p \in Requests : Loads(p, r)' => Loads(p, r)
    BY <2>1 DEF Loads, TypeOK
  <2>3. UNCHANGED <<attempts, content, progress, workers>>
    BY <1>3 DEF Create
  <2>4. CASE s # r
    BY <2>1, <2>2, <2>3, <2>4, RowUntouched DEF Works, TypeOK
  <2>5. CASE s = r
    <3>1. status[r] = "none" /\ status'[r] = "pending"
      BY <2>1, <2>5 DEF TypeOK
    <3>2. \A p \in Requests : ~Loads(p, r)
      BY <3>1 DEF RowInv, LoadOwnsRow, CanRegenerate
    <3>3. \A w \in Workers : ~Works(w, r)'
      BY <3>1, <2>3 DEF RowInv, OneThread, Works
    <3> QED
      BY <2>2, <3>1, <3>2, <3>3 DEF RowInv, LoadOwnsRow, OneThread, ContentOf
  <2> QED
    BY <2>4, <2>5
<1>4. CASE Regenerate(q)
  <2>1. PICK s \in Reports : s = requests[q].report
    BY <1>4, RequestFacts DEF Regenerate, TypeOK
  <2>2. /\ [requests[q] EXCEPT !.pc = "queueing", !.seen = 0].pc = "queueing"
        /\ requests[q].pc = "loaded"
        /\ UNCHANGED <<attempts, content, workers>>
        /\ status' = [status EXCEPT ![s] = "pending"]
        /\ progress' = progress \/ progress' = [progress EXCEPT ![s] = 0]
    BY <1>4, <2>1, RequestFacts DEF Regenerate, TypeOK
  <2>3. \A p \in Requests : Loads(p, r)' => Loads(p, r) /\ p # q
    BY <1>4, <2>2 DEF Regenerate, Loads, TypeOK
  <2>4. CASE s # r
    <3>1. status'[r] = status[r] /\ progress'[r] = progress[r]
      BY <2>2, <2>4 DEF TypeOK
    <3> QED
      BY <2>2, <2>3, <3>1, RowUntouched DEF Works
  <2>5. CASE s = r
    <3>1. Loads(q, r) /\ status'[r] = "pending"
      BY <2>1, <2>2, <2>5 DEF Loads, TypeOK
    <3>2. \A p \in Requests : ~Loads(p, r)'
      BY <2>3, <3>1 DEF RowInv, LoadOwnsRow
    <3>3. \A w \in Workers : ~Works(w, r)'
      BY <2>2, <3>1 DEF RowInv, LoadOwnsRow, CanRegenerate, OneThread, Works
    <3> QED
      BY <3>1, <3>2, <3>3 DEF RowInv, LoadOwnsRow, OneThread, ContentOf
  <2> QED
    BY <2>4, <2>5
<1>5. CASE Enqueue(q) \/ RequestFault(q)
  <2>1. \A p \in Requests : Loads(p, r)' => Loads(p, r)
    BY <1>5, <1>i DEF Enqueue, RequestFault, Loads, TypeOK
  <2> QED
    BY <1>5, <2>1, RowUntouched DEF Enqueue, RequestFault, Works, rowVars
<1> QED
  BY <1>1, <1>2, <1>3, <1>4, <1>5 DEF RequestStep

(* Threads: what they read and write of a row that is not raced.           *)
LEMMA ThreadKeepsRow ==
    ASSUME TypeOK, NEW r \in Reports, RowInv(r), NothingWritten, NEW w \in Workers,
           WorkerStep(w) \/ WorkerFault(w)
    PROVE  RowInv(r)'
<1>i. IdleWorker.pc = "idle"
  BY NewWorkerFacts
<1>w. workers \in [Workers -> WorkerStates]
  BY DEF TypeOK
<1>1. CASE Take(w)
  <2>1. Head(queue) \in Reports
    BY <1>1 DEF Take, TypeOK
  <2>2. status[Head(queue)] \in Statuses
    BY <2>1 DEF TypeOK
  <2>3. workers'[w].pc = "loaded" /\ \A v \in Workers : v # w => workers'[v] = workers[v]
    BY <1>1, <1>w, <2>1, <2>2, NewWorkerFacts DEF Take
  <2> QED
    BY <1>1, <2>3, RowUntouched DEF Take, Loads, Works, rowVars
<1>2. CASE Claim(w)
  <2>1. PICK s \in Reports : s = workers[w].report
    BY <1>2, WorkerFacts DEF Claim, TypeOK
  <2>2. workers[w].pc = "loaded" /\ UNCHANGED requests /\ workers[w].written = 0
    BY <1>2 DEF Claim, NothingWritten
  <2>3. \A v \in Workers : v # w => workers'[v] = workers[v]
    BY <1>2, <2>1, ClaimFields
  <2>4. CASE workers'[w].pc = "idle" /\ UNCHANGED <<status, attempts, content, progress>>
    BY <2>2, <2>3, <2>4, RowUntouched DEF Loads, Works
  <2>5. CASE /\ status[s] = "pending"
             /\ status' = [status EXCEPT ![s] = "processing"]
             /\ attempts' = [attempts EXCEPT ![s] = @ + 1]
             /\ content' = [content EXCEPT ![s] = 0]
             /\ progress' = [progress EXCEPT ![s] = 0]
             /\ workers'[w].pc = "claimed"
             /\ workers'[w].report = s
             /\ workers'[w].attempt = attempts'[s]
             /\ workers'[w].written = workers[w].written
    <3>1. CASE s # r
      <4>1. /\ status'[r] = status[r] /\ attempts'[r] = attempts[r]
            /\ content'[r] = content[r] /\ progress'[r] = progress[r]
        BY <2>5, <3>1 DEF TypeOK
      <4>2. \A v \in Workers : Works(v, r)' => Works(v, r) /\ workers'[v] = workers[v]
        BY <2>3, <2>5, <3>1 DEF Works
      <4>3. \A q \in Requests : Loads(q, r)' => Loads(q, r)
        BY <2>2 DEF Loads
      <4> QED
        BY <4>1, <4>2, <4>3, RowUntouched
    <3>2. CASE s = r
      <4>1. status[r] = "pending" /\ status'[r] = "processing" /\ content'[r] = 0
        BY <2>5, <3>2 DEF TypeOK
      <4>2. \A q \in Requests : ~Loads(q, r)'
        BY <2>2, <4>1 DEF RowInv, LoadOwnsRow, CanRegenerate, Loads
      <4>3. \A v \in Workers : Works(v, r)' => v = w
        BY <2>3, <4>1 DEF RowInv, OneThread, Works
      <4>4. OneThread(r)'
        BY <2>5, <3>2, <4>1, <4>3 DEF OneThread
      <4> QED
        BY <4>1, <4>2, <4>4 DEF RowInv, LoadOwnsRow, ContentOf
    <3> QED
      BY <3>1, <3>2
  <2> QED
    BY <1>2, <2>1, <2>4, <2>5, ClaimFields
<1>3. CASE Plan(w)
  <2>1. PICK s \in Reports : s = workers[w].report
    BY <1>3, WorkerFacts DEF Plan, TypeOK
  <2>2. /\ workers[w].pc = "claimed" /\ workers[w].written = 0
        /\ progress' = [progress EXCEPT ![s] = 0]
        /\ UNCHANGED <<status, attempts, content, requests>>
    BY <1>3, <2>1 DEF Plan, NothingWritten
  <2>3. /\ workers'[w].pc = "writing" /\ workers'[w].report = s
        /\ workers'[w].attempt = workers[w].attempt /\ workers'[w].written = 0
        /\ \A v \in Workers : v # w => workers'[v] = workers[v]
    BY <1>3, <2>1, <2>2, MoveFields
  <2>4. CASE s # r
    <3>1. progress'[r] = progress[r]
      BY <2>2, <2>4 DEF TypeOK
    <3> QED
      BY <2>1, <2>2, <2>3, <2>4, <3>1, RowUntouched DEF Loads, Works
  <2>5. CASE s = r
    <3>1. Works(w, r) /\ progress'[r] = 0
      BY <2>1, <2>2, <2>5 DEF Works, TypeOK
    <3>2. status[r] = "processing" /\ workers[w].attempt = attempts[r]
      BY <3>1 DEF RowInv, OneThread
    <3>3. \A v \in Workers : Works(v, r)' => v = w
      BY <2>3, <3>1 DEF RowInv, OneThread, Works
    <3>4. OneThread(r)'
      BY <2>2, <2>3, <3>1, <3>2, <3>3 DEF OneThread
    <3> QED
      BY <2>2, <3>2, <3>4 DEF RowInv, LoadOwnsRow, ContentOf, Loads, CanRegenerate
  <2> QED
    BY <2>4, <2>5
<1>4. CASE WriteSection(w)
  <2>1. PICK s \in Reports : s = workers[w].report
    BY <1>4, WorkerFacts DEF WriteSection, TypeOK
  <2>2. /\ workers[w].pc = "writing"
        /\ progress' = [progress EXCEPT ![s] = workers[w].written + 1]
        /\ UNCHANGED <<status, attempts, content, requests>>
    BY <1>4, <2>1 DEF WriteSection
  <2>3. /\ workers'[w].pc = "writing" /\ workers'[w].report = s
        /\ workers'[w].attempt = workers[w].attempt
        /\ workers'[w].written = workers[w].written + 1
        /\ \A v \in Workers : v # w => workers'[v] = workers[v]
    BY <1>4, <2>1, WriteFields
  <2>4. CASE s # r
    <3>1. progress'[r] = progress[r]
      BY <2>2, <2>4 DEF TypeOK
    <3>2. \A v \in Workers : Works(v, r)' => Works(v, r) /\ workers'[v] = workers[v]
      BY <2>3, <2>4 DEF Works
    <3>3. \A q \in Requests : Loads(q, r)' => Loads(q, r)
      BY <2>2 DEF Loads
    <3> QED
      BY <2>2, <3>1, <3>2, <3>3, RowUntouched
  <2>5. CASE s = r
    <3>1. Works(w, r) /\ progress'[r] = workers[w].written + 1
      BY <2>1, <2>2, <2>5 DEF Works, TypeOK
    <3>2. status[r] = "processing" /\ workers[w].attempt = attempts[r]
      BY <3>1 DEF RowInv, OneThread
    <3>3. \A v \in Workers : Works(v, r)' => v = w
      BY <2>3, <3>1 DEF RowInv, OneThread, Works
    <3>4. OneThread(r)'
      BY <2>2, <2>3, <3>1, <3>2, <3>3 DEF OneThread
    <3> QED
      BY <2>2, <3>2, <3>4 DEF RowInv, LoadOwnsRow, ContentOf, Loads, CanRegenerate
  <2> QED
    BY <2>4, <2>5
<1>5. CASE GiveUp(w)
  <2>1. /\ workers'[w].report = workers[w].report
        /\ workers'[w].attempt = workers[w].attempt /\ workers'[w].written = workers[w].written
        /\ \A v \in Workers : v # w => workers'[v] = workers[v]
    BY <1>5, MoveFields
  <2>2. workers'[w].pc = "failing" /\ workers[w].pc \in {"claimed", "writing"}
    <3>1. workers[w] \in WorkerStates /\ workers[w].pc \in {"claimed", "writing"}
      BY <1>5, <1>w DEF GiveUp
    <3>2. workers' = [workers EXCEPT ![w] = [workers[w] EXCEPT !.pc = "failing"]]
      BY <1>5, <1>w DEF GiveUp
    <3> QED
      BY <1>w, <3>1, <3>2, WorkerFields
  <2> QED
    BY <1>5, <2>1, <2>2, RowUntouched DEF GiveUp, Loads, Works, rowVars
<1>6. CASE Validate(w)
  <2>1. /\ workers[w].pc = "writing" /\ workers[w].written = Sections
        /\ UNCHANGED <<status, attempts, content, progress, requests>>
    BY <1>6 DEF Validate, rowVars
  <2>2. /\ workers'[w].pc \in {"completing", "failing"}
        /\ workers'[w].report = workers[w].report
        /\ workers'[w].attempt = workers[w].attempt /\ workers'[w].written = workers[w].written
        /\ \A v \in Workers : v # w => workers'[v] = workers[v]
    BY <1>6, <2>1, MoveFields DEF Plan
  <2>3. \A v \in Workers : Works(v, r)' <=> Works(v, r)
    BY <2>1, <2>2 DEF Works
  <2>4. OneThread(r)'
    BY <2>1, <2>2, <2>3 DEF RowInv, OneThread
  <2> QED
    BY <2>1, <2>4 DEF RowInv, LoadOwnsRow, ContentOf, Loads, CanRegenerate
<1>7. CASE Complete(w)
  <2>1. PICK s \in Reports : s = workers[w].report
    BY <1>7, WorkerFacts DEF Complete, TypeOK
  <2>2. /\ workers[w].pc = "completing" /\ workers'[w].pc = "idle"
        /\ status' = [status EXCEPT ![s] = "completed"]
        /\ content' = [content EXCEPT ![s] = workers[w].attempt]
        /\ UNCHANGED <<attempts, progress, requests>>
        /\ \A v \in Workers : v # w => workers'[v] = workers[v]
    BY <1>7, <1>i, <1>w, <2>1 DEF Complete
  <2>3. CASE s # r
    <3>1. status'[r] = status[r] /\ content'[r] = content[r]
      BY <2>2, <2>3 DEF TypeOK
    <3> QED
      BY <2>2, <3>1, RowUntouched DEF Loads, Works
  <2>4. CASE s = r
    <3>1. Works(w, r) /\ status'[r] = "completed" /\ content'[r] = workers[w].attempt
      BY <2>1, <2>2, <2>4 DEF Works, TypeOK
    <3>2. content'[r] = attempts'[r] /\ progress'[r] = Sections /\ status[r] = "processing"
      BY <2>2, <3>1 DEF RowInv, OneThread
    <3>3. \A v \in Workers : ~Works(v, r)'
      BY <2>2, <3>1 DEF RowInv, OneThread, Works
    <3>4. \A q \in Requests : ~Loads(q, r)'
      BY <2>2, <3>2 DEF RowInv, LoadOwnsRow, CanRegenerate, Loads
    <3> QED
      BY <3>1, <3>2, <3>3, <3>4 DEF RowInv, LoadOwnsRow, OneThread, ContentOf
  <2> QED
    BY <2>3, <2>4
<1>8. CASE Fail(w)
  <2>1. PICK s \in Reports : s = workers[w].report
    BY <1>8, WorkerFacts DEF Fail, TypeOK
  <2>2. /\ workers[w].pc = "failing" /\ workers'[w].pc = "idle"
        /\ status' = [status EXCEPT ![s] = "failed"]
        /\ UNCHANGED <<attempts, content, progress, requests>>
        /\ \A v \in Workers : v # w => workers'[v] = workers[v]
    BY <1>8, <1>i, <1>w, <2>1 DEF Fail
  <2>3. CASE s # r
    <3>1. status'[r] = status[r]
      BY <2>2, <2>3 DEF TypeOK
    <3> QED
      BY <2>2, <3>1, RowUntouched DEF Loads, Works
  <2>4. CASE s = r
    <3>1. Works(w, r) /\ status'[r] = "failed"
      BY <2>1, <2>2, <2>4 DEF Works, TypeOK
    <3>2. status[r] = "processing" /\ content'[r] = 0
      BY <2>2, <3>1 DEF RowInv, OneThread, ContentOf
    <3>3. \A v \in Workers : ~Works(v, r)'
      BY <2>2, <3>1 DEF RowInv, OneThread, Works
    <3>4. \A q \in Requests : ~Loads(q, r)'
      BY <2>2, <3>2 DEF RowInv, LoadOwnsRow, CanRegenerate, Loads
    <3> QED
      BY <3>1, <3>2, <3>3, <3>4 DEF RowInv, LoadOwnsRow, OneThread, ContentOf
  <2> QED
    BY <2>3, <2>4
<1>9. CASE Refuse(w) \/ WorkerFault(w)
  <2>1. workers'[w].pc = "idle" /\ \A v \in Workers : v # w => workers'[v] = workers[v]
    BY <1>9, <1>i, <1>w DEF Refuse, WorkerFault
  <2> QED
    BY <1>9, <2>1, RowUntouched DEF Refuse, WorkerFault, Loads, Works, rowVars
<1> QED
  BY <1>1, <1>2, <1>3, <1>4, <1>5, <1>6, <1>7, <1>8, <1>9 DEF WorkerStep

(* Every step keeps what holds of the rows that are not raced.             *)
LEMMA StepContentInv == TypeOK /\ ContentInv /\ [Next]_vars => ContentInv'
<1> SUFFICES ASSUME TypeOK, ContentInv, [Next]_vars, NEW r \in Reports, r \notin raced'
             PROVE  RowInv(r)'
  BY StepNothingWritten DEF ContentInv
<1>0. RowInv(r) /\ NothingWritten
  <2>1. raced \subseteq raced'
    BY DEF Next, RequestStep, WorkerStep, Admit, Load, Create, Regenerate, Enqueue, RequestFault,
           Delete, Take, Claim, Plan, WriteSection, GiveUp, Validate, Complete, Fail, Refuse,
           WorkerFault, Start, StartFault, Stop, Drained, Crash, rowVars, vars
  <2> QED
    BY <2>1 DEF ContentInv
<1>1. ASSUME NEW q \in Requests,
             \/ Admit(q) \/ (\E s \in Reports : Load(q, s)) \/ RequestStep(q) \/ RequestFault(q)
      PROVE  RowInv(r)'
  BY <1>0, <1>1, RequestKeepsRow
<1>2. ASSUME NEW w \in Workers, WorkerStep(w) \/ WorkerFault(w) PROVE RowInv(r)'
  BY <1>0, <1>2, ThreadKeepsRow
<1>3. CASE (\E s \in Reports : Delete(s)) \/ Start \/ StartFault \/ Stop \/ Drained
            \/ UNCHANGED vars
  BY <1>0, <1>3, RowUntouched DEF Delete, Start, StartFault, Stop, Drained, Loads, Works, rowVars, vars
<1>4. CASE Crash
  <2>1. \A q \in Requests : ~Loads(q, r)'
    BY <1>4, NewRequestFacts DEF Crash, Loads
  <2>2. \A w \in Workers : ~Works(w, r)'
    BY <1>4, NewWorkerFacts DEF Crash, Works
  <2> QED
    BY <1>0, <1>4, <2>1, <2>2, RowUntouched DEF Crash, rowVars
<1> QED
  BY <1>1, <1>2, <1>3, <1>4 DEF Next

(* A row that does not exist yet is neither read, worked on nor finished.  *)
LEMMA InitContentInv == Init => ContentInv
<1> SUFFICES ASSUME Init PROVE ContentInv
  OBVIOUS
<1>1. \A q \in Requests, r \in Reports : ~Loads(q, r)
  BY NewRequestFacts DEF Init, Loads
<1>2. \A w \in Workers : workers[w].pc = "idle"
  BY NewWorkerFacts DEF Init
<1>3. \A r \in Reports : status[r] = "none"
  BY DEF Init
<1> QED
  BY <1>1, <1>2, <1>3
  DEF ContentInv, NothingWritten, RowInv, LoadOwnsRow, OneThread, ContentOf, Works

(* What is read and exported belongs to the attempt the row describes,     *)
(* unless two regenerations read the row together: the claim clears what   *)
(* an earlier attempt left, and only the thread that claimed a row writes  *)
(* its content (regenerate, claim, _complete, _fail).                      *)
THEOREM ContentIsLatest == Spec => []ContentOfLatestAttempt
<1>1. ContentInv => ContentOfLatestAttempt
  BY DEF ContentInv, RowInv, ContentOf, ContentOfLatestAttempt
<1> QED
  BY <1>1, InitContentInv, StepContentInv, TypeCorrect, PTL DEF Spec

-----------------------------------------------------------------------------
(* The lifecycle of a report *)

(* The statuses change as core/reports.py allows, one edge at a time.      *)
FollowsTable(r) == status'[r] = status[r] \/ status'[r] \in StatusTransitions[status[r]]

(* A request and a thread move the row they hold along the table.          *)
LEMMA StepFollowsTable ==
    ASSUME TypeOK, ContentInv, [Next]_vars, NEW r \in Reports \ raced
    PROVE  FollowsTable(r)
<1>0. RowInv(r)
  BY DEF ContentInv
<1>1. ASSUME NEW q \in Requests, Create(q) PROVE FollowsTable(r)
  BY <1>1, StatusTable DEF Create, FollowsTable, TypeOK
<1>2. ASSUME NEW q \in Requests, Regenerate(q) PROVE FollowsTable(r)
  <2>1. CASE requests[q].report = r
    <3>1. CanRegenerate(status[r])
      BY <1>0, <1>2, <2>1 DEF Regenerate, RowInv, LoadOwnsRow, Loads
    <3> QED
      BY <1>2, <2>1, <3>1, StatusTable DEF Regenerate, FollowsTable, CanRegenerate, TypeOK
  <2>2. CASE requests[q].report # r
    BY <1>2, <2>2 DEF Regenerate, FollowsTable, TypeOK
  <2> QED
    BY <2>1, <2>2
<1>3. ASSUME NEW w \in Workers, Claim(w) PROVE FollowsTable(r)
  <2>1. PICK s \in Reports : s = workers[w].report
    BY <1>3, WorkerFacts DEF Claim, TypeOK
  <2>2. \/ UNCHANGED status
        \/ status[s] = "pending" /\ status' = [status EXCEPT ![s] = "processing"]
    BY <1>3, <2>1, ClaimFields
  <2> QED
    BY <2>1, <2>2, StatusTable DEF FollowsTable, TypeOK
<1>4. ASSUME NEW w \in Workers, Complete(w) \/ Fail(w) PROVE FollowsTable(r)
  <2>1. CASE workers[w].report = r
    <3>1. status[r] = "processing"
      BY <1>0, <1>4, <2>1 DEF Complete, Fail, RowInv, OneThread, Works
    <3> QED
      BY <1>4, <2>1, <3>1, StatusTable DEF Complete, Fail, FollowsTable, TypeOK
  <2>2. CASE workers[w].report # r
    BY <1>4, <2>2 DEF Complete, Fail, FollowsTable, TypeOK
  <2> QED
    BY <2>1, <2>2
<1> QED
  BY <1>1, <1>2, <1>3, <1>4
  DEF Next, RequestStep, WorkerStep, Admit, Load, Enqueue, RequestFault, Delete, Take, Plan,
      WriteSection, GiveUp, Validate, Refuse, WorkerFault, Start, StartFault, Stop, Drained, Crash,
      FollowsTable, rowVars, vars

(* The writes by id, which check no status, still follow the transition    *)
(* table of core/reports.py: a regeneration finds the row finished and a   *)
(* thread finds it processing, as long as no two regenerations have read   *)
(* the row together.                                                       *)
THEOREM WritesFollowTable == Spec => [][\A r \in Reports \ raced : FollowsTable(r)]_vars
<1>1. TypeOK /\ ContentInv /\ [Next]_vars => [\A r \in Reports \ raced : FollowsTable(r)]_vars
  BY StepFollowsTable
<1> QED
  BY <1>1, InitContentInv, StepContentInv, TypeCorrect, PTL DEF Spec

=============================================================================
