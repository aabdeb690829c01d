------------------------ MODULE EmailDelivery_proofs ------------------------
(***************************************************************************)
(* Proofs about EmailDelivery, for any number of deliveries and threads,   *)
(* any number of attempts and any number of mishaps.                       *)
(***************************************************************************)
EXTENDS EmailDelivery, TLAPS, FiniteSetTheorems

(* The cardinalities the model counts with are natural numbers.            *)
LEMMA CountsAreNat ==
    \A S \in SUBSET Mails : Cardinality(S) \in Nat
BY EmailConstants, FS_Subset, FS_CardinalityType DEF EmailConstants

(* A thread without work is in its type.                                   *)
LEMMA IdleFacts ==
    /\ IdleWorker \in WorkerStates
    /\ IdleWorker.pc = "idle"
BY DEF WorkerStates, IdleWorker

(* A thread with a job names a delivery, and stays in its type as it       *)
(* claims and sends it (Claim, Send, LoseAnswer).                          *)
LEMMA WorkerFacts ==
    ASSUME NEW q \in WorkerStates, q.pc # "idle"
    PROVE  /\ q.mail \in Mails
           /\ q.attempt \in Nat
           /\ q.outcome \in Outcomes
           /\ \A n \in Nat : [q EXCEPT !.pc = "claimed", !.attempt = n] \in WorkerStates
           /\ \A o \in Outcomes : [q EXCEPT !.pc = "answered", !.outcome = o] \in WorkerStates
<1>1. q \in [pc : {"loaded", "claimed", "answered"}, mail : Mails,
             attempt : Nat, outcome : Outcomes]
  BY DEF WorkerStates, IdleWorker
<1>2. ASSUME NEW n \in Nat
      PROVE  [q EXCEPT !.pc = "claimed", !.attempt = n] \in WorkerStates
  BY <1>1 DEF WorkerStates
<1>3. ASSUME NEW o \in Outcomes
      PROVE  [q EXCEPT !.pc = "answered", !.outcome = o] \in WorkerStates
  BY <1>1 DEF WorkerStates
<1> QED
  BY <1>1, <1>2, <1>3

(* The state of a thread that has just taken a job (Take).                 *)
LEMMA LoadedFacts ==
    ASSUME NEW m \in Mails
    PROVE  [IdleWorker EXCEPT !.pc = "loaded", !.mail = m] \in WorkerStates
BY DEF WorkerStates, IdleWorker, Outcomes

(* What a thread takes off the queue is a delivery, and a queue remains.   *)
LEMMA HeadOfQueue ==
    ASSUME NEW s \in Seq(Mails), s # <<>>
    PROVE  Head(s) \in Mails /\ Tail(s) \in Seq(Mails)
OBVIOUS

(* A job handed over, or rejected, leaves a queue of deliveries.           *)
LEMMA HandOverFacts ==
    ASSUME NEW m \in Mails, queue \in Seq(Mails), HandOver(m)
    PROVE  queue' \in Seq(Mails)
<1>1. CASE queue' = Append(queue, m)
  BY <1>1
<1>2. CASE queue' = queue
  BY <1>2
<1> QED
  BY <1>1, <1>2, Zenon DEF HandOver

-----------------------------------------------------------------------------
(* Type correctness *)

(* The empty table of a process that is down is well typed.                *)
LEMMA InitTypeOK == Init => TypeOK
BY EmailConstants, IdleFacts
DEF Init, TypeOK, EmailConstants, Statuses, IdleSweeper

(* Every step of a dispatch, a thread, the sweeper and the process keeps   *)
(* the type.                                                               *)
LEMMA StepTypeOK == TypeOK /\ [Next]_vars => TypeOK'
<1> SUFFICES ASSUME TypeOK, [Next]_vars PROVE TypeOK'
  OBVIOUS
<1> USE IdleFacts
<1>1. ASSUME NEW batch \in SUBSET Mails, Dispatch(batch) PROVE TypeOK'
  <2>1. Cardinality(RowsExist) \in Nat
    BY CountsAreNat DEF RowsExist
  <2> QED
    BY <1>1, <2>1 DEF Dispatch, TypeOK, Statuses, mishapVars
<1>2. ASSUME NEW m \in Mails, Enqueue(m) PROVE TypeOK'
  <2>1. queue' \in Seq(Mails)
    BY <1>2, HandOverFacts DEF Enqueue, TypeOK
  <2> QED
    BY <1>2, <2>1 DEF Enqueue, TypeOK, rowVars, mishapVars
<1>3. ASSUME NEW batch \in SUBSET Mails, DispatchFault(batch) PROVE TypeOK'
  BY <1>3 DEF DispatchFault, TypeOK, rowVars
<1>4. ASSUME NEW w \in Workers, Take(w) PROVE TypeOK'
  <2>1. Head(queue) \in Mails /\ Tail(queue) \in Seq(Mails)
    BY <1>4, HeadOfQueue DEF Take, TypeOK
  <2> QED
    BY <1>4, <2>1, LoadedFacts DEF Take, TypeOK, rowVars, mishapVars
<1>5. ASSUME NEW w \in Workers, Claim(w) PROVE TypeOK'
  <2>1. workers[w].mail \in Mails
    BY <1>5, WorkerFacts DEF Claim, TypeOK
  <2>2. \A n \in Nat :
          [workers[w] EXCEPT !.pc = "claimed", !.attempt = n] \in WorkerStates
    BY <1>5, WorkerFacts DEF Claim, TypeOK
  <2>3. attempts[workers[w].mail] + 1 \in Nat
    BY <2>1 DEF TypeOK
  <2>4. workers' \in [Workers -> WorkerStates]
    BY <1>5, <2>2, <2>3 DEF Claim, TypeOK
  <2>5. PICK m \in Mails :
          \/ /\ attempts' = [attempts EXCEPT ![m] = attempts[m] + 1]
             /\ status' = [status EXCEPT ![m] = "sending"]
          \/ UNCHANGED <<attempts, status>>
    BY <1>5, <2>1, Zenon DEF Claim
  <2>6. attempts' \in [Mails -> Nat] /\ status' \in [Mails -> Statuses]
    <3>1. attempts \in [Mails -> Nat] /\ status \in [Mails -> Statuses]
      BY DEF TypeOK
    <3> QED
      BY <2>5, <3>1 DEF Statuses
  <2> QED
    BY <1>5, <2>4, <2>6 DEF Claim, TypeOK, mishapVars
<1>6. ASSUME NEW w \in Workers, Send(w) \/ LoseAnswer(w) PROVE TypeOK'
  <2>0. workers[w].mail \in Mails
    BY <1>6, WorkerFacts DEF Send, LoseAnswer, TypeOK
  <2>1. \A o \in Outcomes :
          [workers[w] EXCEPT !.pc = "answered", !.outcome = o] \in WorkerStates
    BY <1>6, WorkerFacts DEF Send, LoseAnswer, TypeOK
  <2>2. \E o \in Outcomes : workers' =
          [workers EXCEPT ![w] = [workers[w] EXCEPT !.pc = "answered", !.outcome = o]]
    BY <1>6 DEF Send, LoseAnswer, Outcomes
  <2>3. workers' \in [Workers -> WorkerStates]
    BY <2>1, <2>2 DEF TypeOK
  <2>4. PICK m \in Mails : inbox' = inbox \/ inbox' = [inbox EXCEPT ![m] = inbox[m] + 1]
    BY <1>6, <2>0, Zenon DEF Send, LoseAnswer
  <2>6. inbox' \in [Mails -> Nat]
    <3>1. inbox \in [Mails -> Nat]
      BY DEF TypeOK
    <3> QED
      BY <2>4, <3>1
  <2>5. lost' \in Nat
    BY <1>6 DEF Send, LoseAnswer, TypeOK, mishapVars
  <2> QED
    BY <1>6, <2>3, <2>5, <2>6 DEF Send, LoseAnswer, TypeOK, rowVars, mishapVars
<1>7. ASSUME NEW w \in Workers, MarkSent(w) \/ Reschedule(w) \/ MarkFailed(w) PROVE TypeOK'
  <2>1. workers[w].mail \in Mails
    BY <1>7, WorkerFacts DEF MarkSent, Reschedule, MarkFailed, TypeOK
  <2>2. \E s \in {"sent", "pending", "failed"} : Record(w, s)
    BY <1>7 DEF MarkSent, Reschedule, MarkFailed
  <2>3. waiting' \subseteq Mails
    BY <1>7, <2>1 DEF MarkSent, Reschedule, MarkFailed, TypeOK
  <2> QED
    BY <2>1, <2>2, <2>3 DEF Record, TypeOK, Statuses, mishapVars
<1>8. ASSUME NEW w \in Workers, WorkerFault(w) PROVE TypeOK'
  BY <1>8 DEF WorkerFault, TypeOK, rowVars
<1>9. ASSUME NEW m \in Mails, BackoffElapses(m) \/ GoesStale(m) PROVE TypeOK'
  BY <1>9 DEF BackoffElapses, GoesStale, TypeOK, mishapVars
<1>10. CASE ReclaimStale
  BY <1>10 DEF ReclaimStale, SweepBegins, TypeOK, Statuses, mishapVars
<1>11. CASE ReadDue
  <2>1. PICK batch \in [1..Smaller(BatchSize, Cardinality(Due)) -> Due] :
          sweeper' = [pc |-> "queueing", due |-> batch]
    BY <1>11 DEF ReadDue
  <2>2. Smaller(BatchSize, Cardinality(Due)) \in Nat
    BY CountsAreNat, EmailConstants DEF Smaller, Due, EmailConstants
  <2>3. batch \in [1..Smaller(BatchSize, Cardinality(Due)) -> Mails]
    BY <2>1 DEF Due
  <2>4. batch \in Seq(Mails)
    BY <2>2, <2>3
  <2> QED
    BY <1>11, <2>1, <2>4 DEF ReadDue, TypeOK, rowVars, mishapVars
<1>12. CASE QueueDue
  <2>1. CASE sweeper.due = <<>>
    BY <1>12, <2>1 DEF QueueDue, SweepEnds, IdleSweeper, TypeOK, rowVars, mishapVars
  <2>2. CASE sweeper.due # <<>>
    <3>1. Head(sweeper.due) \in Mails /\ Tail(sweeper.due) \in Seq(Mails)
      BY <2>2, HeadOfQueue DEF TypeOK
    <3>2. queue' \in Seq(Mails)
      BY <1>12, <2>2, <3>1, HandOverFacts DEF QueueDue, TypeOK
    <3>3. sweeper' \in [pc : {"idle", "reading", "queueing"}, due : Seq(Mails)]
      BY <1>12, <2>2, <3>1 DEF QueueDue, TypeOK
    <3> QED
      BY <1>12, <2>2, <3>2, <3>3 DEF QueueDue, TypeOK, rowVars, mishapVars
  <2> QED
    BY <2>1, <2>2
<1>13. CASE SweepFault
  BY <1>13 DEF SweepFault, SweepEnds, IdleSweeper, TypeOK, rowVars
<1>14. CASE Start \/ Stop
  BY <1>14 DEF Start, Stop, TypeOK, rowVars, mishapVars
<1>15. CASE Drained
  BY <1>15 DEF Drained, IdleSweeper, TypeOK, rowVars, mishapVars
<1>16. CASE Crash
  BY <1>16 DEF Crash, IdleSweeper, TypeOK, rowVars
<1>17. CASE UNCHANGED vars
  BY <1>17 DEF vars, TypeOK, rowVars, mishapVars
<1> QED
  BY <1>1, <1>2, <1>3, <1>4, <1>5, <1>6, <1>7, <1>8, <1>9, <1>10, <1>11, <1>12, <1>13,
     <1>14, <1>15, <1>16, <1>17 DEF Next

(* The columns, the queue, the threads and the sweeper always hold values  *)
(* of their types.                                                         *)
THEOREM TypeCorrect == Spec => []TypeOK
BY InitTypeOK, StepTypeOK, PTL DEF Spec

-----------------------------------------------------------------------------
(* Who sends, how often, and what the recipient has: the invariant behind  *)
(* the safety properties, for sends that do not outlive the threshold.     *)

(* A delivery that some thread may still claim: its row is queued, or it   *)
(* is "sending" and nobody is.                                             *)
Claimable(m) ==
    \/ status[m] \in {"none", "pending"}
    \/ status[m] = "sending" /\ \A w \in Workers : ~Holds(w, m)

(* The platform knows that the relay took the message. *)
Confirmed(m) ==
    \/ status[m] = "sent"
    \/ \E w \in Workers :
         Holds(w, m) /\ workers[w].pc = "answered" /\ workers[w].outcome = "accepted"

(* The row of a delivery is the sending thread's own. *)
HolderOwnsRow ==
    \A w \in Workers : \A m \in Mails : Holds(w, m) =>
        /\ status[m] = "sending"
        /\ m \notin stale
        /\ workers[w].attempt = attempts[m]

StaleIsSending == \A m \in stale : status[m] = "sending"

(* An attempt is left for a claim, since every attempt above the maximum   *)
(* was paid for by an abandoned one.                                       *)
AttemptLeft ==
    \A m \in Mails :
        /\ attempts[m] <= MaxAttempts + crashes + faults
        /\ Claimable(m) => attempts[m] < MaxAttempts + crashes + faults

(* Every copy but a confirmed one was paid for by a mishap. *)
CopiesPaidFor ==
    \A m \in Mails :
        /\ inbox[m] <= 1 + Mishaps
        /\ Confirmed(m) => inbox[m] > 0
        /\ ~Confirmed(m) => inbox[m] <= Mishaps

DeliveryInv ==
    OneSender /\ HolderOwnsRow /\ StaleIsSending /\ AttemptLeft /\ CopiesPaidFor

(* Nobody sends in the initial state and nobody has a copy.                *)
LEMMA InitDelivery == Init => DeliveryInv
<1> SUFFICES ASSUME Init PROVE DeliveryInv
  OBVIOUS
<1>1. \A w \in Workers : workers[w].pc = "idle"
  BY IdleFacts DEF Init
<1>2. \A w \in Workers : \A m \in Mails : ~Holds(w, m)
  BY <1>1 DEF Holds
<1> QED
  BY <1>2, EmailConstants DEF Init, DeliveryInv, OneSender, HolderOwnsRow, StaleIsSending,
     AttemptLeft, CopiesPaidFor, Claimable, Confirmed, Mishaps, EmailConstants

(* The numbers the invariant speaks of.                                    *)
LEMMA Numbers ==
    ASSUME TypeOK
    PROVE  /\ MaxAttempts \in Nat \ {0}
           /\ crashes \in Nat /\ faults \in Nat /\ lost \in Nat
           /\ \A m \in Mails : attempts[m] \in Nat /\ inbox[m] \in Nat
BY EmailConstants DEF TypeOK, EmailConstants

(* A step that leaves the rows and the inbox, and every thread that sends, *)
(* as they are keeps the invariant, also if it counts a mishap.            *)
LEMMA SameHolders ==
    ASSUME TypeOK, TypeOK', DeliveryInv,
           UNCHANGED <<status, attempts, stale, inbox>>,
           \A v \in Workers : \A m \in Mails : Holds(v, m)' <=> Holds(v, m),
           \A v \in Workers : \A m \in Mails : Holds(v, m) => workers'[v] = workers[v],
           crashes' >= crashes, faults' >= faults, lost' >= lost
    PROVE  DeliveryInv'
<1>1. \A m \in Mails : Claimable(m)' <=> Claimable(m)
  BY DEF Claimable
<1>2. \A m \in Mails : Confirmed(m)' <=> Confirmed(m)
  BY DEF Confirmed
<1>3. (OneSender /\ HolderOwnsRow /\ StaleIsSending)'
  BY DEF DeliveryInv, OneSender, HolderOwnsRow, StaleIsSending
<1>n. /\ MaxAttempts \in Nat
      /\ crashes \in Nat /\ faults \in Nat /\ lost \in Nat
      /\ crashes' \in Nat /\ faults' \in Nat /\ lost' \in Nat
      /\ \A m \in Mails : attempts[m] \in Nat /\ inbox[m] \in Nat
  BY Numbers DEF TypeOK
<1>4. AttemptLeft'
  BY <1>1, <1>n DEF DeliveryInv, AttemptLeft
<1>5. CopiesPaidFor'
  BY <1>2, <1>n DEF DeliveryInv, CopiesPaidFor, Mishaps
<1> QED
  BY <1>3, <1>4, <1>5 DEF DeliveryInv

(* A step that changes neither rows nor threads nor the inbox is one.      *)
LEMMA RowsUntouched ==
    ASSUME TypeOK, TypeOK', DeliveryInv,
           UNCHANGED <<status, attempts, stale, workers, inbox>>,
           crashes' >= crashes, faults' >= faults, lost' >= lost
    PROVE  DeliveryInv'
<1>1. \A w \in Workers : \A m \in Mails : Holds(w, m)' <=> Holds(w, m)
  BY DEF Holds
<1> QED
  BY <1>1, SameHolders

(* What the invariant says of one delivery and of the only thread that may *)
(* send it.                                                                *)
Attempts(m) ==
    /\ attempts[m] <= MaxAttempts + crashes + faults
    /\ Claimable(m) => attempts[m] < MaxAttempts + crashes + faults

Copies(m) ==
    /\ inbox[m] <= 1 + Mishaps
    /\ Confirmed(m) => inbox[m] > 0
    /\ ~Confirmed(m) => inbox[m] <= Mishaps

Owns(w, m) ==
    Holds(w, m) => /\ status[m] = "sending"
                   /\ m \notin stale
                   /\ workers[w].attempt = attempts[m]

(* A step of one thread about one delivery keeps the invariant if it keeps *)
(* it for these two.                                                       *)
LEMMA OneThread ==
    ASSUME TypeOK, TypeOK', DeliveryInv, NEW w \in Workers, NEW m \in Mails,
           \A v \in Workers : v # w => workers'[v] = workers[v] /\ ~Holds(v, m),
           workers[w].mail = m, workers'[w].mail = m \/ workers'[w].pc = "idle",
           \A n \in Mails : n # m =>
               status'[n] = status[n] /\ attempts'[n] = attempts[n] /\ inbox'[n] = inbox[n],
           stale' = stale \/ stale' = stale \ {m},
           crashes' >= crashes, faults' >= faults, lost' >= lost,
           m \in stale' => status'[m] = "sending",
           Owns(w, m)', Attempts(m)', Copies(m)'
    PROVE  DeliveryInv'
<1>1. \A v \in Workers : \A n \in Mails : v # w \/ n # m => (Holds(v, n)' <=> Holds(v, n))
  BY DEF Holds
<1>2. \A v \in Workers : v # w => ~Holds(v, m)'
  BY DEF Holds
<1>3. \A n \in Mails : n # m => ~Holds(w, n) /\ ~Holds(w, n)'
  BY DEF Holds
<1>4. OneSender'
  BY <1>1, <1>2, <1>3 DEF DeliveryInv, OneSender
<1>5. HolderOwnsRow'
  BY <1>1, <1>2, <1>3 DEF DeliveryInv, HolderOwnsRow, Owns
<1>6. StaleIsSending'
  <2>1. stale \subseteq Mails /\ stale' \subseteq stale
    BY DEF TypeOK
  <2> QED
    BY <2>1 DEF DeliveryInv, StaleIsSending
<1>7. \A n \in Mails : n # m => (Claimable(n)' <=> Claimable(n))
  BY <1>1 DEF Claimable
<1>8. \A n \in Mails : n # m => (Confirmed(n)' <=> Confirmed(n))
  BY <1>1, <1>3 DEF Confirmed
<1>n. /\ MaxAttempts \in Nat
      /\ crashes \in Nat /\ faults \in Nat /\ lost \in Nat
      /\ crashes' \in Nat /\ faults' \in Nat /\ lost' \in Nat
      /\ \A n \in Mails : attempts[n] \in Nat /\ inbox[n] \in Nat
  BY Numbers DEF TypeOK
<1>9. \A n \in Mails : n # m => Attempts(n)'
  BY <1>7, <1>n DEF DeliveryInv, AttemptLeft, Attempts
<1>10. \A n \in Mails : n # m => Copies(n)'
  BY <1>8, <1>n DEF DeliveryInv, CopiesPaidFor, Copies, Mishaps
<1>11. (AttemptLeft /\ CopiesPaidFor)'
  BY <1>9, <1>10 DEF AttemptLeft, CopiesPaidFor, Attempts, Copies
<1> QED
  BY <1>4, <1>5, <1>6, <1>11 DEF DeliveryInv

(* What the invariant says of a thread that sends: it is the only one, and *)
(* its answer is all the platform knows.                                   *)
LEMMA Holder ==
    ASSUME DeliveryInv, NEW w \in Workers, NEW m \in Mails, Holds(w, m)
    PROVE  /\ \A v \in Workers : v # w => ~Holds(v, m)
           /\ status[m] = "sending"
           /\ m \notin stale
           /\ workers[w].attempt = attempts[m]
           /\ attempts[m] <= MaxAttempts + crashes + faults
           /\ inbox[m] <= 1 + Mishaps
           /\ Confirmed(m) <=> workers[w].pc = "answered" /\ workers[w].outcome = "accepted"
           /\ Confirmed(m) => inbox[m] > 0
           /\ ~Confirmed(m) => inbox[m] <= Mishaps
<1>1. /\ \A v \in Workers : v # w => ~Holds(v, m)
      /\ status[m] = "sending"
      /\ m \notin stale
      /\ workers[w].attempt = attempts[m]
  BY DEF DeliveryInv, OneSender, HolderOwnsRow
<1>2. Confirmed(m) <=> workers[w].pc = "answered" /\ workers[w].outcome = "accepted"
  BY <1>1 DEF Confirmed
<1> QED
  BY <1>1, <1>2 DEF DeliveryInv, AttemptLeft, CopiesPaidFor

(* A thread that takes a job, loses a claim or fails to make one holds     *)
(* nothing before and nothing after.                                       *)
LEMMA StepTake ==
    ASSUME TypeOK, TypeOK', DeliveryInv, NEW w \in Workers, Take(w)
    PROVE  DeliveryInv'
<1>1. UNCHANGED <<status, attempts, stale, inbox, crashes, faults, lost>>
  BY DEF Take, rowVars, mishapVars
<1>2. /\ workers[w].pc = "idle" /\ workers'[w].pc = "loaded"
      /\ \A v \in Workers : v # w => workers'[v] = workers[v]
  BY DEF Take, TypeOK, IdleWorker
<1>3. crashes \in Nat /\ faults \in Nat /\ lost \in Nat
  BY DEF TypeOK
<1> QED
  BY <1>1, <1>2, <1>3, SameHolders DEF Holds

(* A claim is won for a row that nobody holds, with an attempt left.       *)
LEMMA StepClaim ==
    ASSUME TypeOK, TypeOK', DeliveryInv, NEW w \in Workers, Claim(w)
    PROVE  DeliveryInv'
<1>0. workers[w] \in WorkerStates /\ workers[w].pc = "loaded"
  BY DEF Claim, TypeOK
<1>1. PICK m \in Mails : m = workers[w].mail
  BY <1>0, WorkerFacts
<1>2. UNCHANGED <<inbox, crashes, faults, lost>>
  BY DEF Claim, mishapVars
<1>3. \A v \in Workers : v # w => workers'[v] = workers[v]
  BY DEF Claim, TypeOK
<1>n. /\ MaxAttempts \in Nat
      /\ crashes \in Nat /\ faults \in Nat /\ lost \in Nat
      /\ attempts[m] \in Nat /\ inbox[m] \in Nat
  BY <1>1, Numbers
<1>4. CASE status[m] # "pending"
  <2>1. UNCHANGED <<status, attempts, stale>> /\ workers'[w] = IdleWorker
    BY <1>1, <1>4 DEF Claim, TypeOK
  <2> QED
    BY <1>0, <1>2, <1>3, <1>n, <2>1, IdleFacts, SameHolders DEF Holds
<1>5. CASE status[m] = "pending"
  <2>1. /\ status' = [status EXCEPT ![m] = "sending"]
        /\ attempts' = [attempts EXCEPT ![m] = @ + 1]
        /\ stale' = stale \ {m}
    BY <1>1, <1>5, Zenon DEF Claim
  <2>2. /\ \A n \in Mails : n # m => status'[n] = status[n] /\ attempts'[n] = attempts[n]
        /\ status'[m] = "sending" /\ attempts'[m] = attempts[m] + 1
    BY <1>1, <2>1 DEF TypeOK
  <2>3. workers' = [workers EXCEPT ![w] =
                      [workers[w] EXCEPT !.pc = "claimed", !.attempt = attempts[m] + 1]]
    BY <1>1, <1>5, Zenon DEF Claim
  <2>4. /\ workers'[w].pc = "claimed" /\ workers'[w].mail = m
        /\ workers'[w].attempt = attempts[m] + 1
    <3>1. workers[w] \in [pc : {"loaded", "claimed", "answered"}, mail : Mails,
                          attempt : Nat, outcome : Outcomes]
      BY <1>0 DEF WorkerStates, IdleWorker
    <3>2. workers'[w] = [workers[w] EXCEPT !.pc = "claimed", !.attempt = attempts[m] + 1]
      BY <2>3 DEF TypeOK
    <3> QED
      BY <1>1, <3>1, <3>2
  <2>5. \A v \in Workers : ~Holds(v, m)
    BY <1>1, <1>5 DEF DeliveryInv, HolderOwnsRow
  <2>6. Claimable(m) /\ ~Confirmed(m)
    BY <1>5, <2>5 DEF Claimable, Confirmed
  <2>7. attempts[m] < MaxAttempts + crashes + faults /\ inbox[m] <= Mishaps
    BY <1>1, <2>6 DEF DeliveryInv, AttemptLeft, CopiesPaidFor
  <2>8. Holds(w, m)' /\ ~Claimable(m)'
    BY <2>2, <2>4 DEF Holds, Claimable
  <2>9. ~Confirmed(m)'
    BY <1>3, <2>2, <2>4, <2>5 DEF Confirmed, Holds
  <2>10. Owns(w, m)'
    BY <2>1, <2>2, <2>4 DEF Owns
  <2>11. Attempts(m)'
    BY <1>2, <1>n, <2>2, <2>7, <2>8 DEF Attempts
  <2>12. Copies(m)'
    BY <1>2, <1>n, <2>7, <2>9 DEF Copies, Mishaps
  <2> QED
    BY <1>1, <1>2, <1>3, <1>n, <2>1, <2>2, <2>4, <2>5, <2>10, <2>11, <2>12, OneThread
<1> QED
  BY <1>4, <1>5

(* A send adds at most one copy, and one that is not confirmed is a lost   *)
(* answer.                                                                 *)
LEMMA StepSend ==
    ASSUME TypeOK, TypeOK', DeliveryInv, NEW w \in Workers, Send(w) \/ LoseAnswer(w)
    PROVE  DeliveryInv'
<1>0. workers[w] \in WorkerStates /\ workers[w].pc = "claimed"
  BY DEF Send, LoseAnswer, TypeOK
<1>1. PICK m \in Mails : m = workers[w].mail
  BY <1>0, WorkerFacts
<1>2. UNCHANGED <<status, attempts, stale, crashes, faults>>
  BY DEF Send, LoseAnswer, rowVars, mishapVars
<1>n. /\ MaxAttempts \in Nat
      /\ crashes \in Nat /\ faults \in Nat /\ lost \in Nat
      /\ attempts[m] \in Nat /\ inbox[m] \in Nat
  BY <1>1, Numbers
<1>3. Holds(w, m)
  BY <1>0, <1>1 DEF Holds
<1>4. PICK o \in Outcomes :
        /\ workers' = [workers EXCEPT ![w] = [workers[w] EXCEPT !.pc = "answered", !.outcome = o]]
        /\ \/ o = "accepted" /\ inbox' = [inbox EXCEPT ![m] = @ + 1] /\ lost' = lost
           \/ o # "accepted" /\ inbox' = inbox /\ lost' = lost
           \/ o # "accepted" /\ inbox' = [inbox EXCEPT ![m] = @ + 1] /\ lost' = lost + 1
  <2>1. CASE Send(w)
    <3>1. PICK o \in Outcomes :
            /\ workers' = [workers EXCEPT ![w].pc = "answered", ![w].outcome = o]
            /\ inbox' = IF o = "accepted" THEN [inbox EXCEPT ![m] = @ + 1] ELSE inbox
      BY <1>1, <2>1, Zenon DEF Send
    <3>2. lost' = lost
      BY <2>1 DEF Send, mishapVars
    <3> QED
      BY <3>1, <3>2
  <2>2. CASE LoseAnswer(w)
    <3>1. /\ workers' = [workers EXCEPT ![w].pc = "answered", ![w].outcome = "transient"]
          /\ inbox' = [inbox EXCEPT ![m] = @ + 1] /\ lost' = lost + 1
      BY <1>1, <2>2, Zenon DEF LoseAnswer
    <3>2. "transient" \in Outcomes /\ "transient" # "accepted"
      BY DEF Outcomes
    <3> QED
      BY <3>1, <3>2
  <2> QED
    BY <2>1, <2>2
<1>5. /\ \A v \in Workers : v # w => workers'[v] = workers[v]
      /\ workers'[w].pc = "answered" /\ workers'[w].outcome = o
      /\ workers'[w].mail = m /\ workers'[w].attempt = workers[w].attempt
  <2>1. workers[w] \in [pc : {"loaded", "claimed", "answered"}, mail : Mails,
                        attempt : Nat, outcome : Outcomes]
    BY <1>0 DEF WorkerStates, IdleWorker
  <2>2. /\ \A v \in Workers : v # w => workers'[v] = workers[v]
        /\ workers'[w] = [workers[w] EXCEPT !.pc = "answered", !.outcome = o]
    BY <1>4 DEF TypeOK
  <2> QED
    BY <1>1, <2>1, <2>2
<1>6. /\ \A n \in Mails : n # m => inbox'[n] = inbox[n]
      /\ \/ o = "accepted" /\ inbox'[m] = inbox[m] + 1 /\ lost' = lost
         \/ o # "accepted" /\ inbox'[m] = inbox[m] /\ lost' = lost
         \/ o # "accepted" /\ inbox'[m] = inbox[m] + 1 /\ lost' = lost + 1
  <2>1. inbox \in [Mails -> Nat]
    BY DEF TypeOK
  <2> QED
    BY <1>1, <1>4, <2>1
<1>7. /\ \A v \in Workers : v # w => ~Holds(v, m)
      /\ status[m] = "sending" /\ m \notin stale
      /\ workers[w].attempt = attempts[m]
      /\ attempts[m] <= MaxAttempts + crashes + faults
      /\ inbox[m] <= Mishaps
  BY <1>0, <1>1, <1>3, Holder
<1>8. Holds(w, m)' /\ ~Claimable(m)'
  BY <1>2, <1>5, <1>7 DEF Holds, Claimable
<1>9. Confirmed(m)' <=> o = "accepted"
  BY <1>2, <1>5, <1>7, <1>8 DEF Confirmed, Holds
<1>10. Owns(w, m)'
  BY <1>2, <1>5, <1>7 DEF Owns
<1>11. Attempts(m)'
  BY <1>2, <1>7, <1>8 DEF Attempts
<1>12. Copies(m)'
  BY <1>2, <1>n, <1>6, <1>7, <1>9 DEF Copies, Mishaps
<1>13. crashes' >= crashes /\ faults' >= faults /\ lost' >= lost
  BY <1>2, <1>6, <1>n
<1> QED
  BY <1>1, <1>2, <1>5, <1>6, <1>7, <1>10, <1>11, <1>12, <1>13, OneThread

(* The record of an answer keeps the row's count and the recipient's       *)
(* copies: what is sent was accepted, what is pending has an attempt left. *)
LEMMA StepRecord ==
    ASSUME TypeOK, TypeOK', DeliveryInv, NEW w \in Workers,
           MarkSent(w) \/ Reschedule(w) \/ MarkFailed(w)
    PROVE  DeliveryInv'
<1>0. workers[w] \in WorkerStates /\ workers[w].pc = "answered"
  BY DEF MarkSent, Reschedule, MarkFailed, TypeOK
<1>1. PICK m \in Mails : m = workers[w].mail
  BY <1>0, WorkerFacts
<1>n. /\ MaxAttempts \in Nat
      /\ crashes \in Nat /\ faults \in Nat /\ lost \in Nat
      /\ attempts[m] \in Nat /\ inbox[m] \in Nat
  BY <1>1, Numbers
<1>2. Holds(w, m)
  BY <1>0, <1>1 DEF Holds
<1>3. /\ \A v \in Workers : v # w => ~Holds(v, m)
      /\ status[m] = "sending"
      /\ workers[w].attempt = attempts[m]
      /\ attempts[m] <= MaxAttempts + crashes + faults
      /\ inbox[m] <= 1 + Mishaps
      /\ Confirmed(m) <=> workers[w].outcome = "accepted"
      /\ Confirmed(m) => inbox[m] > 0
      /\ ~Confirmed(m) => inbox[m] <= Mishaps
  BY <1>0, <1>1, <1>2, Holder
<1>4. PICK s \in {"sent", "pending", "failed"} :
        /\ Record(w, s)
        /\ s = "sent" <=> workers[w].outcome = "accepted"
        /\ s = "pending" => workers[w].attempt < MaxAttempts
  <2>1. CASE MarkSent(w)
    BY <2>1 DEF MarkSent
  <2>2. CASE Reschedule(w)
    <3>1. workers[w].attempt < MaxAttempts
      BY <1>n, <1>3, <2>2 DEF Reschedule, Exhausted
    <3> QED
      BY <2>2, <3>1 DEF Reschedule
  <2>3. CASE MarkFailed(w)
    BY <2>3 DEF MarkFailed
  <2> QED
    BY <2>1, <2>2, <2>3
<1>5. /\ status' = [status EXCEPT ![m] = s]
      /\ stale' = stale \ {m}
      /\ workers' = [workers EXCEPT ![w] = IdleWorker]
      /\ UNCHANGED <<attempts, inbox, crashes, faults, lost>>
  BY <1>1, <1>3, <1>4 DEF Record, mishapVars
<1>6. /\ \A v \in Workers : v # w => workers'[v] = workers[v]
      /\ workers'[w].pc = "idle"
      /\ \A n \in Mails : n # m => status'[n] = status[n]
      /\ status'[m] = s
  BY <1>5, IdleFacts DEF TypeOK
<1>7. \A v \in Workers : ~Holds(v, m)'
  BY <1>3, <1>6 DEF Holds
<1>8. Confirmed(m)' <=> Confirmed(m)
  BY <1>3, <1>4, <1>6, <1>7 DEF Confirmed
<1>9. Claimable(m)' => attempts[m] < MaxAttempts
  BY <1>3, <1>4, <1>6 DEF Claimable
<1>10. Attempts(m)'
  BY <1>n, <1>3, <1>5, <1>9 DEF Attempts
<1>11. Copies(m)'
  BY <1>3, <1>5, <1>8 DEF Copies, Mishaps
<1>12. Owns(w, m)' /\ m \notin stale'
  BY <1>5, <1>7 DEF Owns
<1>13. crashes' >= crashes /\ faults' >= faults /\ lost' >= lost
  BY <1>5, <1>n
<1> QED
  BY <1>1, <1>3, <1>5, <1>6, <1>10, <1>11, <1>12, <1>13, OneThread

(* A database error that interrupts a send leaves the row claimable again, *)
(* and pays for the attempt and for the copy it may have made.             *)
LEMMA StepWorkerFault ==
    ASSUME TypeOK, TypeOK', DeliveryInv, NEW w \in Workers, WorkerFault(w)
    PROVE  DeliveryInv'
<1>0. workers[w] \in WorkerStates /\ workers[w].pc # "idle"
  BY DEF WorkerFault, TypeOK
<1>1. PICK m \in Mails : m = workers[w].mail
  BY <1>0, WorkerFacts
<1>n. /\ MaxAttempts \in Nat
      /\ crashes \in Nat /\ faults \in Nat /\ lost \in Nat
      /\ attempts[m] \in Nat /\ inbox[m] \in Nat
  BY <1>1, Numbers
<1>2. /\ UNCHANGED <<status, attempts, stale, inbox, crashes, lost>>
      /\ faults' = faults + 1
      /\ workers' = [workers EXCEPT ![w] = IdleWorker]
  BY DEF WorkerFault, rowVars
<1>3. /\ \A v \in Workers : v # w => workers'[v] = workers[v]
      /\ workers'[w].pc = "idle"
  BY <1>2, IdleFacts DEF TypeOK
<1>4. crashes' >= crashes /\ faults' >= faults /\ lost' >= lost
  BY <1>2, <1>n
<1>5. CASE Holds(w, m)
  <2>1. /\ \A v \in Workers : v # w => ~Holds(v, m)
        /\ status[m] = "sending" /\ m \notin stale
        /\ attempts[m] <= MaxAttempts + crashes + faults
        /\ inbox[m] <= 1 + Mishaps
    BY <1>1, <1>5, Holder
  <2>2. ~Confirmed(m)'
    BY <1>2, <1>3, <2>1 DEF Confirmed, Holds
  <2>3. Attempts(m)'
    BY <1>2, <1>n, <2>1 DEF Attempts
  <2>4. Copies(m)'
    BY <1>2, <1>n, <2>1, <2>2 DEF Copies, Mishaps
  <2>5. Owns(w, m)' /\ m \notin stale'
    BY <1>2, <1>3, <2>1 DEF Owns, Holds
  <2> QED
    BY <1>1, <1>2, <1>3, <1>4, <2>1, <2>3, <2>4, <2>5, OneThread
<1>6. CASE ~Holds(w, m)
  <2>1. \A n \in Mails : ~Holds(w, n) /\ ~Holds(w, n)'
    BY <1>1, <1>3, <1>6 DEF Holds
  <2>2. \A v \in Workers : \A n \in Mails : Holds(v, n)' <=> Holds(v, n)
    BY <1>3, <2>1 DEF Holds
  <2> QED
    BY <1>2, <1>3, <1>4, <2>1, <2>2, SameHolders
<1> QED
  BY <1>5, <1>6

(* A process that dies leaves its sends unfinished, and pays for each.     *)
LEMMA StepCrash ==
    ASSUME TypeOK, TypeOK', DeliveryInv, Crash
    PROVE  DeliveryInv'
<1>n. /\ MaxAttempts \in Nat
      /\ crashes \in Nat /\ faults \in Nat /\ lost \in Nat
      /\ \A m \in Mails : attempts[m] \in Nat /\ inbox[m] \in Nat
  BY Numbers
<1>1. /\ UNCHANGED <<status, attempts, stale, inbox, faults, lost>>
      /\ crashes' = crashes + 1
      /\ workers' = [w \in Workers |-> IdleWorker]
  BY DEF Crash, rowVars
<1>2. \A w \in Workers : \A m \in Mails : ~Holds(w, m)'
  BY <1>1, IdleFacts DEF Holds
<1>3. (OneSender /\ HolderOwnsRow /\ StaleIsSending)'
  BY <1>1, <1>2 DEF DeliveryInv, OneSender, HolderOwnsRow, StaleIsSending
<1>4. \A m \in Mails : Confirmed(m)' => Confirmed(m)
  BY <1>1, <1>2 DEF Confirmed
<1>5. AttemptLeft'
  BY <1>1, <1>n DEF DeliveryInv, AttemptLeft
<1>6. CopiesPaidFor'
  BY <1>1, <1>4, <1>n DEF DeliveryInv, CopiesPaidFor, Mishaps
<1> QED
  BY <1>3, <1>5, <1>6 DEF DeliveryInv

(* Rows that become pending while nobody holds them, and were claimable    *)
(* before, keep the invariant: this is a dispatch and a sweep; and so does *)
(* a row that gets stale while nobody holds it.                            *)
LEMMA RowsReturned ==
    ASSUME TypeOK, TypeOK', DeliveryInv, NEW S \in SUBSET Mails,
           UNCHANGED <<attempts, workers, inbox, crashes, faults, lost>>,
           \A m \in S : Claimable(m) /\ \A w \in Workers : ~Holds(w, m),
           \A m \in Mails : status'[m] = IF m \in S THEN "pending" ELSE status[m],
           \A m \in stale' : status'[m] = "sending" /\ \A w \in Workers : ~Holds(w, m)
    PROVE  DeliveryInv'
<1>1. \A w \in Workers : \A m \in Mails : Holds(w, m)' <=> Holds(w, m)
  BY DEF Holds
<1>2. (OneSender /\ HolderOwnsRow /\ StaleIsSending)'
  BY <1>1 DEF DeliveryInv, OneSender, HolderOwnsRow, StaleIsSending
<1>3. \A m \in Mails : Claimable(m)' => Claimable(m)
  BY <1>1 DEF Claimable
<1>4. \A m \in Mails : Confirmed(m)' <=> Confirmed(m)
  BY <1>1 DEF Confirmed, Claimable
<1>5. AttemptLeft'
  BY <1>3 DEF DeliveryInv, AttemptLeft
<1>6. CopiesPaidFor'
  BY <1>4 DEF DeliveryInv, CopiesPaidFor, Mishaps
<1> QED
  BY <1>2, <1>5, <1>6 DEF DeliveryInv

(* A row that does not exist yet has no sender and is not stale.           *)
LEMMA StepDispatch ==
    ASSUME TypeOK, TypeOK', DeliveryInv, NEW batch \in SUBSET Mails, Dispatch(batch)
    PROVE  DeliveryInv'
<1>1. \A m \in batch : status[m] = "none"
  BY DEF Dispatch, RowsExist
<1>2. UNCHANGED <<attempts, stale, workers, inbox, crashes, faults, lost>>
  BY DEF Dispatch, mishapVars
<1>3. \A m \in Mails : status'[m] = IF m \in batch THEN "pending" ELSE status[m]
  BY DEF Dispatch
<1>4. \A m \in batch : Claimable(m) /\ \A w \in Workers : ~Holds(w, m)
  BY <1>1 DEF Claimable, DeliveryInv, HolderOwnsRow
<1>5. \A m \in stale : status'[m] = "sending" /\ \A w \in Workers : ~Holds(w, m)
  BY <1>1, <1>3 DEF TypeOK, DeliveryInv, HolderOwnsRow, StaleIsSending
<1> QED
  BY <1>2, <1>3, <1>4, <1>5, RowsReturned

(* The stale rows, which have no sender, are reclaimed.                    *)
LEMMA StepReclaim ==
    ASSUME TypeOK, TypeOK', DeliveryInv, ReclaimStale
    PROVE  DeliveryInv'
<1>1. UNCHANGED <<attempts, workers, inbox, crashes, faults, lost>> /\ stale' = {}
  BY DEF ReclaimStale, mishapVars
<1>2. \A m \in Mails : status'[m] = IF m \in stale THEN "pending" ELSE status[m]
  BY DEF ReclaimStale
<1>3. \A m \in stale : Claimable(m) /\ \A w \in Workers : ~Holds(w, m)
  BY DEF TypeOK, Claimable, DeliveryInv, HolderOwnsRow, StaleIsSending
<1>4. stale \in SUBSET Mails
  BY DEF TypeOK
<1> QED
  BY <1>1, <1>2, <1>3, <1>4, RowsReturned

(* Time makes stale only rows whose thread is gone.                        *)
LEMMA StepGoesStale ==
    ASSUME TypeOK, TypeOK', DeliveryInv, ~SlowSends, NEW m \in Mails, GoesStale(m)
    PROVE  DeliveryInv'
<1>1. UNCHANGED <<status, attempts, workers, inbox, crashes, faults, lost>>
  BY DEF GoesStale, mishapVars
<1>2. \A n \in stale' : status[n] = "sending" /\ \A w \in Workers : ~Holds(w, n)
  BY DEF TypeOK, GoesStale, DeliveryInv, HolderOwnsRow, StaleIsSending
<1>3. PICK S \in SUBSET Mails : S = {}
  OBVIOUS
<1>4. \A n \in Mails : status'[n] = IF n \in S THEN "pending" ELSE status[n]
  BY <1>1, <1>3
<1>5. \A n \in stale' : status'[n] = "sending" /\ \A w \in Workers : ~Holds(w, n)
  BY <1>1, <1>2
<1> QED
  BY <1>1, <1>3, <1>4, <1>5, RowsReturned

(* The inductive step.                                                     *)
LEMMA StepDelivery ==
    ASSUME ~SlowSends, TypeOK, TypeOK', DeliveryInv, [Next]_vars
    PROVE  DeliveryInv'
<1>n. crashes \in Nat /\ faults \in Nat /\ lost \in Nat
  BY DEF TypeOK
<1>1. ASSUME NEW m \in Mails, Enqueue(m) \/ BackoffElapses(m) PROVE DeliveryInv'
  BY <1>n, <1>1, RowsUntouched DEF Enqueue, BackoffElapses, rowVars, mishapVars
<1>2. ASSUME NEW batch \in SUBSET Mails, DispatchFault(batch) PROVE DeliveryInv'
  BY <1>n, <1>2, RowsUntouched DEF DispatchFault, rowVars
<1>3. CASE ReadDue \/ QueueDue \/ SweepFault
  <2>1. UNCHANGED <<status, attempts, stale, workers, inbox, crashes, lost>>
    BY <1>3 DEF ReadDue, QueueDue, SweepFault, rowVars, mishapVars
  <2>2. faults' >= faults
    BY <1>n, <1>3 DEF ReadDue, QueueDue, SweepFault, mishapVars
  <2> QED
    BY <1>n, <2>1, <2>2, RowsUntouched
<1>4. CASE Start \/ Stop \/ Drained
  BY <1>n, <1>4, RowsUntouched DEF Start, Stop, Drained, rowVars, mishapVars
<1>5. CASE UNCHANGED vars
  BY <1>n, <1>5, RowsUntouched DEF vars, rowVars, mishapVars
<1> QED
  BY <1>1, <1>2, <1>3, <1>4, <1>5, StepDispatch, StepTake, StepClaim, StepSend, StepRecord,
     StepWorkerFault, StepGoesStale, StepReclaim, StepCrash DEF Next

(* The invariant says what the runs check.                                 *)
LEMMA DeliveryImplies ==
    ASSUME TypeOK, DeliveryInv
    PROVE  OneSender /\ CopiesBounded /\ SentIsReceived /\ AttemptsBounded
<1>1. OneSender
  BY DEF DeliveryInv
<1>2. CopiesBounded
  <2>1. ASSUME NEW m \in Mails, status[m] = "failed" PROVE inbox[m] <= Mishaps
    BY <2>1 DEF DeliveryInv, HolderOwnsRow, CopiesPaidFor, Confirmed
  <2> QED
    BY <2>1 DEF DeliveryInv, CopiesPaidFor, CopiesBounded
<1>3. SentIsReceived
  BY DEF DeliveryInv, CopiesPaidFor, SentIsReceived, Confirmed
<1>4. AttemptsBounded
  BY DEF DeliveryInv, AttemptLeft, AttemptsBounded
<1> QED
  BY <1>1, <1>2, <1>3, <1>4

(* If no send outlives EMAIL_STALE_SENDING_SECONDS, then in every run of   *)
(* any number of threads and deliveries one delivery has one sender, its   *)
(* recipient gets at most one copy more than there were mishaps, what is   *)
(* reported as sent was received, and the attempts exceed the maximum by   *)
(* no more than the abandoned ones.                                        *)
THEOREM DeliverySafety ==
    ASSUME ~SlowSends
    PROVE  Spec => [](OneSender /\ CopiesBounded /\ SentIsReceived /\ AttemptsBounded)
<1>1. Init => TypeOK /\ DeliveryInv
  BY InitTypeOK, InitDelivery
<1>2. TypeOK /\ DeliveryInv /\ [Next]_vars => (TypeOK /\ DeliveryInv)'
  BY StepTypeOK, StepDelivery
<1>3. TypeOK /\ DeliveryInv => OneSender /\ CopiesBounded /\ SentIsReceived /\ AttemptsBounded
  BY DeliveryImplies
<1> QED
  BY <1>1, <1>2, <1>3, PTL DEF Spec

(* Whatever is queued twice, reclaimed or left behind by a crash, no two   *)
(* threads send one delivery at the same time (claim, reclaim_stale).      *)
THEOREM SingleSender ==
    ASSUME ~SlowSends
    PROVE  Spec => []OneSender
<1>1. OneSender /\ CopiesBounded /\ SentIsReceived /\ AttemptsBounded => OneSender
  OBVIOUS
<1> QED
  BY <1>1, DeliverySafety, PTL

=============================================================================
