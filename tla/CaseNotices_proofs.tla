------------------------- MODULE CaseNotices_proofs -------------------------
(***************************************************************************)
(* Proofs about CaseNotices, for any requests, threads, accounts, dates    *)
(* and inbox.                                                              *)
(***************************************************************************)
EXTENDS CaseNotices, TLAPS

(* Every account that may see a case is an account.                        *)
LEMMA ViewersAreUsers ==
    ASSUME NEW c \in Cases
    PROVE  Viewers(c) \subseteq Users
BY DEF Viewers, Cases, Users

(* A field is given a value of its own type.                               *)
LEMMA WithIsCase ==
    ASSUME NEW c \in Cases, NEW f \in Fields, NEW v, f # "archive" => v \in Asked(f)
    PROVE  With(c, f, v) \in Cases
<1>1. CASE f = "status"
  <2>1. v \in Statuses
    BY <1>1, NoticeConstants DEF Asked, NoticeConstants
  <2> QED
    BY <1>1, <2>1 DEF With, Cases
<1>2. CASE f = "filing"
  BY <1>2 DEF With, Cases, Asked
<1>3. CASE f = "hearing"
  BY <1>3 DEF With, Cases, Asked
<1>4. CASE f = "lawyer"
  BY <1>4 DEF With, Cases, Asked
<1>5. CASE f = "archive"
  BY <1>5 DEF With, Cases, Statuses
<1> QED
  BY <1>1, <1>2, <1>3, <1>4, <1>5 DEF Fields

(* What a request knows after a step that moves it on.                     *)
LEMMA RequestFields ==
    ASSUME NEW q, RequestOK(q), q.pc # "done",
           NEW p \in Steps
    PROVE  /\ q.actor \in Users /\ q.field \in Fields /\ q.before \in Cases /\ q.copy \in Cases
           /\ LET n == [q EXCEPT !.pc = p] IN
              /\ RequestOK(n)
              /\ n.pc = p /\ n.copy = q.copy
              /\ n.actor = q.actor /\ n.field = q.field /\ n.value = q.value /\ n.before = q.before
<1>1. q \in [pc : Steps, actor : Users,
             field : Fields, value : {q.value}, before : Cases, copy : Cases]
  BY DEF RequestOK
<1>2. q.field # "archive" => q.value \in Asked(q.field)
  BY DEF RequestOK
<1>4. ASSUME NEW n, n = [q EXCEPT !.pc = p]
      PROVE  /\ RequestOK(n)
             /\ n.pc = p /\ n.copy = q.copy
             /\ n.actor = q.actor /\ n.field = q.field /\ n.value = q.value /\ n.before = q.before
  <2>1. /\ n.pc = p /\ n.copy = q.copy
        /\ n.actor = q.actor /\ n.field = q.field /\ n.value = q.value /\ n.before = q.before
    BY <1>1, <1>4
  <2>2. n \in [pc : Steps, actor : Users,
               field : Fields, value : {q.value}, before : Cases, copy : Cases]
    BY <1>1, <1>4
  <2> QED
    BY <1>2, <2>1, <2>2 DEF RequestOK
<1> QED
  BY <1>1, <1>4

(* A request that was not made, or is over.                                *)
LEMMA FreshFacts ==
    /\ RequestOK(Fresh) /\ Fresh.pc = "new"
    /\ RequestOK(Done) /\ Done.pc = "done"
<1>1. EmptyCase \in Cases /\ Admin \in Users
  BY NoticeConstants DEF NoticeConstants, EmptyCase, Cases, Statuses, Dates, Users
<1> QED
  BY <1>1 DEF Fresh, Done, RequestOK, Fields, Steps

(* Of a request that is over, the field is known.                          *)
LEMMA OverFacts ==
    ASSUME NEW q, RequestOK(q)
    PROVE  RequestOK(Over(q)) /\ Over(q).pc = "done" /\ Over(q).field = q.field
<1>1. PICK f \in Fields : f = q.field
  BY DEF RequestOK
<1>2. /\ Done \in [pc : Steps, actor : Users, field : Fields, value : {Done.value},
                   before : Cases, copy : Cases]
      /\ Done.pc = "done"
  BY FreshFacts DEF RequestOK
<1>3. PICK d : d = Done
  OBVIOUS
<1>4. PICK n : n = [d EXCEPT !.field = f]
  OBVIOUS
<1>5. /\ n \in [pc : Steps, actor : Users, field : Fields, value : {n.value},
                before : Cases, copy : Cases]
      /\ n.pc = "done" /\ n.field = f
  BY <1>2, <1>3, <1>4
<1>6. n = Over(q)
  BY <1>1, <1>3, <1>4 DEF Over
<1> QED
  BY <1>1, <1>5, <1>6 DEF RequestOK

(* The threads' states.                                                    *)
LEMMA WorkerFacts ==
    /\ Idle \in WorkerStates /\ Idle.pc = "idle"
    /\ \A e \in Events :
         LET q == [pc |-> "taken", event |-> e, audience |-> {}] IN
         q \in WorkerStates /\ q.pc = "taken" /\ q.event = e
    /\ \A q \in WorkerStates, p \in {"resolved", "filtered"} :
         /\ q.audience \subseteq Users
         /\ LET n == [q EXCEPT !.pc = p] IN
            n \in WorkerStates /\ n.pc = p /\ n.event = q.event /\ n.audience = q.audience
BY DEF WorkerStates, Idle, NoEvent

-----------------------------------------------------------------------------
(* What is announced *)

(* A request announces events of its own.                                  *)
LEMMA NewsAreEvents ==
    ASSUME NEW r \in Requests, RequestOK(requests[r]), NEW c
    PROVE  StatusNews(r, c) \in Seq(Events) /\ OtherNews(r) \in Seq(Events)
<1>1. /\ requests[r].actor \in Users
      /\ requests[r].copy.lawyer \in Lawyers \cup {Nobody}
      /\ requests[r].before.lawyer \in Lawyers \cup {Nobody}
  BY DEF RequestOK, Cases
<1>2. \A k \in Kinds, u \in Lawyers \cup {Nobody} : Event(r, k, u) \in Events
  BY <1>1 DEF Events, Event
<1>3. \A k \in Kinds, u \in Lawyers \cup {Nobody} : <<Event(r, k, u)>> \in Seq(Events)
  BY <1>2
<1>4. StatusRule(r, c) \in Kinds /\ {"assigned", "removed", "updated"} \subseteq Kinds
  BY DEF StatusRule, Kinds
<1>5. StatusNews(r, c) \in Seq(Events)
  <2>1. <<Event(r, StatusRule(r, c), Nobody)>> \in Seq(Events)
    BY <1>3, <1>4
  <2> QED
    BY <2>1 DEF StatusNews
<1>6. OtherNews(r) \in Seq(Events)
  BY <1>1, <1>3, <1>4 DEF OtherNews
<1> QED
  BY <1>5, <1>6

(* What the inbox takes of a list of events is a list that fits.           *)
LEMMA KeptFits ==
    ASSUME NEW events \in Seq(Events), inbox \in Seq(Events), Len(inbox) <= InboxSize
    PROVE  /\ Kept(events) \in Seq(Events)
           /\ inbox \o Kept(events) \in Seq(Events)
           /\ Len(inbox \o Kept(events)) <= InboxSize
           /\ \A i \in DOMAIN (inbox \o Kept(events)) :
                \/ i \in DOMAIN inbox /\ (inbox \o Kept(events))[i] = inbox[i]
                \/ \E j \in DOMAIN Kept(events) : (inbox \o Kept(events))[i] = Kept(events)[j]
<1> DEFINE room == InboxSize - Len(inbox)
           size == IF Len(events) < room THEN Len(events) ELSE room
<1>1. InboxSize \in Nat /\ Len(inbox) \in Nat /\ Len(events) \in Nat
  BY NoticeConstants DEF NoticeConstants
<1>2. size \in 0..Len(events) /\ size <= InboxSize - Len(inbox)
  BY <1>1
<1>3. Kept(events) = SubSeq(events, 1, size)
  BY DEF Kept
<1> HIDE DEF size
<1>4. Kept(events) \in Seq(Events) /\ Len(Kept(events)) = size
  BY <1>1, <1>2, <1>3
<1> HIDE <1>3
<1>5. PICK kept \in Seq(Events) : kept = Kept(events) /\ Len(kept) = size
  BY <1>4
<1>6. inbox \o kept \in Seq(Events) /\ Len(inbox \o kept) = Len(inbox) + size
  BY <1>5
<1>7. ASSUME NEW i \in DOMAIN (inbox \o kept)
      PROVE  \/ i \in DOMAIN inbox /\ (inbox \o kept)[i] = inbox[i]
             \/ \E j \in DOMAIN kept : (inbox \o kept)[i] = kept[j]
  <2>1. CASE i <= Len(inbox)
    BY <1>5, <1>7, <2>1
  <2>2. CASE ~(i <= Len(inbox))
    <3>1. i - Len(inbox) \in DOMAIN kept /\ (inbox \o kept)[i] = kept[i - Len(inbox)]
      BY <1>5, <1>6, <1>7, <2>2
    <3> QED
      BY <3>1
  <2> QED
    BY <2>1, <2>2
<1> QED
  BY <1>1, <1>2, <1>5, <1>6, <1>7

(* What is announced is remembered from then on, with whoever may see the  *)
(* case.                                                                   *)
LEMMA AnnounceKeeps ==
    ASSUME TypeOK, NEW events \in Seq(Events), Announce(events)
    PROVE  /\ inbox' \in Seq(Events) /\ Len(inbox') <= InboxSize
           /\ since' = [e \in DOMAIN since' |-> since'[e]] /\ DOMAIN since' \subseteq Events
           /\ DOMAIN since \subseteq DOMAIN since'
           /\ \A e \in DOMAIN since' :
                since'[e] = IF e \in DOMAIN since THEN since[e] ELSE Viewers(case)
           /\ \A i \in DOMAIN inbox' :
                \/ i \in DOMAIN inbox /\ inbox'[i] = inbox[i]
                \/ inbox'[i] \in DOMAIN since'
<1>1. PICK kept : kept = Kept(events)
  OBVIOUS
<1>2. /\ kept \in Seq(Events) /\ inbox \o kept \in Seq(Events) /\ Len(inbox \o kept) <= InboxSize
      /\ \A i \in DOMAIN (inbox \o kept) :
           \/ i \in DOMAIN inbox /\ (inbox \o kept)[i] = inbox[i]
           \/ \E j \in DOMAIN kept : (inbox \o kept)[i] = kept[j]
  BY <1>1, KeptFits DEF TypeOK
<1>3. /\ inbox' = inbox \o kept
      /\ since' = [e \in DOMAIN since \cup {kept[i] : i \in DOMAIN kept} |->
                        IF e \in DOMAIN since THEN since[e] ELSE Viewers(case)]
  BY <1>1 DEF Announce
<1>4. {kept[i] : i \in DOMAIN kept} \subseteq Events /\ DOMAIN since \subseteq Events
  BY <1>2 DEF TypeOK
<1>5. DOMAIN since' = DOMAIN since \cup {kept[i] : i \in DOMAIN kept}
  BY <1>3
<1>6. \A e \in DOMAIN since' :
        since'[e] = IF e \in DOMAIN since THEN since[e] ELSE Viewers(case)
  BY <1>3
<1>7. since' = [e \in DOMAIN since' |-> since'[e]]
  BY <1>3
<1> QED
  BY <1>2, <1>3, <1>4, <1>5, <1>6, <1>7

-----------------------------------------------------------------------------
(* What a request's step does to the requests *)

(* A load keeps a copy of the row it read and what is asked of it.         *)
LEMMA LoadFields ==
    ASSUME TypeOK, NEW r \in Requests, Load(r)
    PROVE  /\ requests[r].pc = "new"
           /\ RequestOK(requests'[r])
           /\ requests'[r].pc = "loaded"
           /\ requests'[r].before = case /\ requests'[r].copy = case
           /\ requests'[r].field = "archive"
              \/ Valid(case, requests'[r].field, requests'[r].value)
           /\ requests' = [p \in Requests |-> requests'[p]]
           /\ \A p \in Requests : p # r => requests'[p] = requests[p]
<1>1. PICK a \in Users, f \in Fields : \E v \in Asked(f) :
         /\ f = "archive" \/ Valid(case, f, v)
         /\ requests' = [requests EXCEPT ![r] =
                [pc |-> "loaded", actor |-> a, field |-> f, value |-> v,
                 before |-> case, copy |-> case]]
  BY DEF Load
<1>2. PICK v \in Asked(f) :
         /\ f = "archive" \/ Valid(case, f, v)
         /\ requests' = [requests EXCEPT ![r] =
                [pc |-> "loaded", actor |-> a, field |-> f, value |-> v,
                 before |-> case, copy |-> case]]
  BY <1>1
<1>3. PICK n : n = [pc |-> "loaded", actor |-> a, field |-> f, value |-> v,
                    before |-> case, copy |-> case]
  OBVIOUS
<1>4. RequestOK(n) /\ n.pc = "loaded" /\ n.before = case /\ n.copy = case
      /\ n.field = f /\ n.value = v
  BY <1>3 DEF RequestOK, TypeOK, Steps
<1>5. requests = [p \in Requests |-> requests[p]] /\ requests' = [requests EXCEPT ![r] = n]
  BY <1>2, <1>3 DEF TypeOK
<1>6. requests'[r] = n /\ \A p \in Requests : p # r => requests'[p] = requests[p]
  BY <1>5
<1>7. requests' = [p \in Requests |-> requests'[p]]
  BY <1>5
<1> QED
  BY <1>2, <1>4, <1>6, <1>7 DEF Load

(* A commit writes the column that was asked for.                          *)
LEMMA CommitFields ==
    ASSUME TypeOK, NEW r \in Requests, Commit(r)
    PROVE  /\ requests[r].pc = "loaded" /\ case' \in Cases
           /\ RequestOK(requests'[r])
           /\ requests'[r].pc = "committed" /\ requests'[r].copy = case'
           /\ requests'[r].field = requests[r].field /\ requests'[r].value = requests[r].value
           /\ requests'[r].before = requests[r].before
           /\ requests' = [p \in Requests |-> requests'[p]]
           /\ \A p \in Requests : p # r => requests'[p] = requests[p]
<1>1. RequestOK(requests[r]) /\ requests = [p \in Requests |-> requests[p]] /\ case \in Cases
  BY DEF TypeOK
<1>2. case' \in Cases
  <2>1. /\ requests[r].field \in Fields
        /\ requests[r].field # "archive" => requests[r].value \in Asked(requests[r].field)
    BY <1>1 DEF Commit, RequestOK
  <2>2. With(case, requests[r].field, requests[r].value) \in Cases
    BY <1>1, <2>1, WithIsCase
  <2> QED
    BY <1>1, <2>2 DEF Commit
<1>3. PICK c \in Cases : c = case'
  BY <1>2
<1>4. PICK n : n = [requests[r] EXCEPT !.pc = "committed", !.copy = c]
  OBVIOUS
<1>5. /\ RequestOK(n) /\ n.pc = "committed" /\ n.copy = c
      /\ n.field = requests[r].field /\ n.value = requests[r].value
      /\ n.before = requests[r].before
  <2>1. requests[r] \in [pc : Steps, actor : Users,
                         field : Fields, value : {requests[r].value}, before : Cases,
                         copy : Cases]
    BY <1>1 DEF RequestOK
  <2>2. /\ n.pc = "committed" /\ n.copy = c
        /\ n.field = requests[r].field /\ n.value = requests[r].value
        /\ n.before = requests[r].before
    BY <1>4, <2>1
  <2>3. n \in [pc : Steps, actor : Users,
               field : Fields, value : {requests[r].value}, before : Cases, copy : Cases]
    BY <1>1, <1>4, <2>1 DEF Steps
  <2> QED
    BY <1>1, <2>2, <2>3 DEF Commit, RequestOK
<1>6. requests' = [requests EXCEPT ![r].pc = "committed", ![r].copy = c]
  BY <1>3 DEF Commit
<1>7. requests' = [requests EXCEPT ![r] = n]
  BY <1>1, <1>4, <1>6
<1>8. requests'[r] = n /\ \A p \in Requests : p # r => requests'[p] = requests[p]
  BY <1>1, <1>7
<1>9. requests' = [p \in Requests |-> requests'[p]]
  BY <1>1, <1>7
<1> QED
  BY <1>3, <1>5, <1>8, <1>9 DEF Commit

(* A refresh reads the row again.                                          *)
LEMMA RefreshFields ==
    ASSUME TypeOK, NEW r \in Requests, Refresh(r)
    PROVE  /\ requests[r].pc = "committed"
           /\ RequestOK(requests'[r])
           /\ requests'[r].pc = "saved" /\ requests'[r].copy = case
           /\ requests'[r].field = requests[r].field /\ requests'[r].value = requests[r].value
           /\ requests'[r].before = requests[r].before
           /\ requests' = [p \in Requests |-> requests'[p]]
           /\ \A p \in Requests : p # r => requests'[p] = requests[p]
<1>1. RequestOK(requests[r]) /\ requests = [p \in Requests |-> requests[p]] /\ case \in Cases
  BY DEF TypeOK
<1>4. PICK n : n = [requests[r] EXCEPT !.pc = "saved", !.copy = case]
  OBVIOUS
<1>5. /\ RequestOK(n) /\ n.pc = "saved" /\ n.copy = case
      /\ n.field = requests[r].field /\ n.value = requests[r].value
      /\ n.before = requests[r].before
  <2>1. requests[r] \in [pc : Steps, actor : Users,
                         field : Fields, value : {requests[r].value}, before : Cases,
                         copy : Cases]
    BY <1>1 DEF RequestOK
  <2>2. /\ n.pc = "saved" /\ n.copy = case
        /\ n.field = requests[r].field /\ n.value = requests[r].value
        /\ n.before = requests[r].before
    BY <1>4, <2>1
  <2>3. n \in [pc : Steps, actor : Users,
               field : Fields, value : {requests[r].value}, before : Cases, copy : Cases]
    BY <1>1, <1>4, <2>1 DEF Steps
  <2> QED
    BY <1>1, <2>2, <2>3 DEF Refresh, RequestOK
<1>6. requests' = [requests EXCEPT ![r].pc = "saved", ![r].copy = case]
  BY DEF Refresh
<1>7. requests' = [requests EXCEPT ![r] = n]
  BY <1>1, <1>4, <1>6
<1>8. requests'[r] = n /\ \A p \in Requests : p # r => requests'[p] = requests[p]
  BY <1>1, <1>7
<1>9. requests' = [p \in Requests |-> requests'[p]]
  BY <1>1, <1>7
<1> QED
  BY <1>5, <1>8, <1>9 DEF Refresh

(* A request that told of the status has the rest to tell of, and keeps    *)
(* the copy it had or reads the row again.                                 *)
LEMMA StatusFields ==
    ASSUME TypeOK, NEW r \in Requests, PublishStatus(r) \/ PublishUnrecorded(r)
    PROVE  /\ requests[r].pc = "saved"
           /\ RequestOK(requests'[r])
           /\ requests'[r].pc = "told" /\ requests'[r].field = requests[r].field
           /\ requests' = [p \in Requests |-> requests'[p]]
           /\ \A p \in Requests : p # r => requests'[p] = requests[p]
<1>1. /\ RequestOK(requests[r]) /\ requests = [p \in Requests |-> requests[p]] /\ case \in Cases
      /\ requests[r].pc = "saved"
  BY DEF TypeOK, PublishStatus, PublishUnrecorded
<1>2. requests[r].copy \in Cases
  BY <1>1 DEF RequestOK
<1>3. PICK c \in Cases : \/ (c = requests[r].copy /\ PublishStatus(r))
                         \/ (c = case /\ PublishUnrecorded(r))
  BY <1>1, <1>2
<1>4. PICK n : n = [requests[r] EXCEPT !.pc = "told", !.copy = c]
  OBVIOUS
<1>5. RequestOK(n) /\ n.pc = "told" /\ n.field = requests[r].field
  <2>1. requests[r] \in [pc : Steps, actor : Users,
                         field : Fields, value : {requests[r].value}, before : Cases,
                         copy : Cases]
    BY <1>1 DEF RequestOK
  <2>2. n.pc = "told" /\ n.field = requests[r].field /\ n.value = requests[r].value
    BY <1>4, <2>1
  <2>3. n \in [pc : Steps, actor : Users,
               field : Fields, value : {requests[r].value}, before : Cases, copy : Cases]
    BY <1>4, <2>1 DEF Steps
  <2> QED
    BY <1>1, <2>2, <2>3 DEF RequestOK
<1>6. requests' = [requests EXCEPT ![r] = n]
  <2>1. CASE c = requests[r].copy /\ PublishStatus(r)
    <3>1. requests[r] \in [pc : Steps, actor : Users,
                           field : Fields, value : {requests[r].value}, before : Cases,
                           copy : Cases]
      BY <1>1 DEF RequestOK
    <3>2. n = [requests[r] EXCEPT !.pc = "told"]
      BY <1>4, <2>1, <3>1
    <3> QED
      BY <1>1, <2>1, <3>2 DEF PublishStatus
  <2>2. CASE c = case /\ PublishUnrecorded(r)
    BY <1>1, <1>4, <2>2 DEF PublishUnrecorded
  <2> QED
    BY <1>3, <2>1, <2>2
<1>7. requests'[r] = n /\ \A p \in Requests : p # r => requests'[p] = requests[p]
  BY <1>1, <1>6
<1>8. requests' = [p \in Requests |-> requests'[p]]
  BY <1>1, <1>6
<1> QED
  BY <1>1, <1>5, <1>7, <1>8

(* A request that told of everything, or failed, is over.                  *)
LEMMA OverFields ==
    ASSUME TypeOK, NEW r \in Requests, PublishRest(r) \/ RequestFails(r)
    PROVE  /\ requests[r].pc \in {"told", "loaded", "committed"}
           /\ RequestOK(requests'[r])
           /\ requests'[r].pc = "done" /\ requests'[r].field = requests[r].field
           /\ requests' = [p \in Requests |-> requests'[p]]
           /\ \A p \in Requests : p # r => requests'[p] = requests[p]
<1>1. RequestOK(requests[r]) /\ requests = [p \in Requests |-> requests[p]]
  BY DEF TypeOK
<1>2. PICK n : n = Over(requests[r])
  OBVIOUS
<1>3. RequestOK(n) /\ n.pc = "done" /\ n.field = requests[r].field
  BY <1>1, <1>2, OverFacts
<1>4. requests' = [requests EXCEPT ![r] = n]
  BY <1>1, <1>2 DEF PublishRest, RequestFails
<1>5. requests'[r] = n /\ \A p \in Requests : p # r => requests'[p] = requests[p]
  BY <1>1, <1>4
<1>6. requests' = [p \in Requests |-> requests'[p]]
  BY <1>1, <1>4
<1> QED
  BY <1>3, <1>5, <1>6 DEF PublishRest, RequestFails

(* A crash ends the requests that were in progress.                        *)
LEMMA CrashFields ==
    ASSUME TypeOK, Crash
    PROVE  /\ requests' = [p \in Requests |-> requests'[p]]
           /\ \A p \in Requests :
                \/ requests'[p] = requests[p] /\ requests[p].pc \in {"new", "done"}
                \/ /\ requests'[p] = Over(requests[p])
                   /\ requests[p].pc \in {"loaded", "committed", "saved", "told"}
<1>1. requests' = [p \in Requests |-> IF p \in InProgress THEN Over(requests[p]) ELSE requests[p]]
  BY DEF Crash
<1>2. \A p \in Requests : requests'[p] = IF p \in InProgress THEN Over(requests[p]) ELSE requests[p]
  BY <1>1
<1>3. \A p \in Requests :
        requests[p].pc \in Steps
  BY DEF TypeOK, RequestOK
<1> QED
  BY <1>1, <1>2, <1>3 DEF InProgress, Steps

(* What a thread holds after its step.                                     *)
LEMMA ThreadFields ==
    ASSUME TypeOK, NEW w \in Workers
    PROVE  /\ Take(w) => /\ inbox # <<>> /\ Head(inbox) \in Events
                         /\ Tail(inbox) \in Seq(Events) /\ Len(Tail(inbox)) <= Len(inbox)
                         /\ workers' = [workers EXCEPT ![w] = workers'[w]]
                         /\ workers'[w] \in WorkerStates /\ workers'[w].pc = "taken"
                         /\ workers'[w].event = Head(inbox)
           /\ Resolve(w) => /\ workers[w].pc = "taken" /\ workers[w].event \in Events
                            /\ workers' = [workers EXCEPT ![w] = workers'[w]]
                            /\ workers'[w] \in WorkerStates /\ workers'[w].pc = "resolved"
                            /\ workers'[w].event = workers[w].event
                            /\ workers'[w].audience \subseteq Viewers(case)
           /\ Filter(w) \/ FilterFails(w) =>
                /\ workers[w].pc = "resolved" /\ workers[w].event \in Events
                /\ workers' = [workers EXCEPT ![w] = workers'[w]]
                /\ workers'[w] \in WorkerStates /\ workers'[w].pc = "filtered"
                /\ workers'[w].event = workers[w].event
                /\ workers'[w].audience \subseteq workers[w].audience
           /\ Filter(w) => \A u \in workers'[w].audience : ~Told(u, workers[w].event)
           /\ Write(w) \/ WorkerFails(w) =>
                /\ workers[w].event \in Events /\ workers[w].audience \subseteq Users
                /\ workers' = [workers EXCEPT ![w] = Idle]
<1>0. /\ workers \in [Workers -> WorkerStates] /\ workers[w] \in WorkerStates
      /\ inbox \in Seq(Events)
      /\ workers[w].pc # "idle" => workers[w].event \in Events
  BY DEF TypeOK
<1>1. ASSUME Take(w)
      PROVE  /\ inbox # <<>> /\ Head(inbox) \in Events
             /\ Tail(inbox) \in Seq(Events) /\ Len(Tail(inbox)) <= Len(inbox)
             /\ workers' = [workers EXCEPT ![w] = workers'[w]]
             /\ workers'[w] \in WorkerStates /\ workers'[w].pc = "taken"
             /\ workers'[w].event = Head(inbox)
  <2>1. /\ inbox # <<>> /\ Head(inbox) \in Events
        /\ Tail(inbox) \in Seq(Events) /\ Len(Tail(inbox)) <= Len(inbox)
    BY <1>0, <1>1 DEF Take
  <2>2. PICK n : n = [pc |-> "taken", event |-> Head(inbox), audience |-> {}]
    OBVIOUS
  <2>3. n \in WorkerStates /\ n.pc = "taken" /\ n.event = Head(inbox)
    BY <2>1, <2>2, WorkerFacts
  <2>4. workers' = [workers EXCEPT ![w] = n]
    BY <1>1, <2>2 DEF Take
  <2> QED
    BY <1>0, <2>1, <2>3, <2>4
<1>2. ASSUME Resolve(w)
      PROVE  /\ workers[w].pc = "taken"
             /\ workers' = [workers EXCEPT ![w] = workers'[w]]
             /\ workers'[w] \in WorkerStates /\ workers'[w].pc = "resolved"
             /\ workers'[w].event = workers[w].event
             /\ workers'[w].audience \subseteq Viewers(case)
  <2>1. PICK us : us = Authorized(Candidates(workers[w].event))
    OBVIOUS
  <2>2. us \subseteq Viewers(case) /\ us \subseteq Users
    BY <2>1, ViewersAreUsers DEF Authorized, TypeOK
  <2>3. PICK n : n = [workers[w] EXCEPT !.pc = "resolved", !.audience = us]
    OBVIOUS
  <2>4. n \in WorkerStates /\ n.pc = "resolved" /\ n.event = workers[w].event /\ n.audience = us
    BY <1>0, <2>2, <2>3 DEF WorkerStates
  <2>5. workers' = [workers EXCEPT ![w].pc = "resolved", ![w].audience = us]
    BY <1>2, <2>1 DEF Resolve
  <2>6. workers' = [workers EXCEPT ![w] = n]
    BY <1>0, <2>3, <2>5
  <2> QED
    BY <1>0, <1>2, <2>2, <2>4, <2>6 DEF Resolve
<1>3. ASSUME Filter(w)
      PROVE  /\ workers[w].pc = "resolved"
             /\ workers' = [workers EXCEPT ![w] = workers'[w]]
             /\ workers'[w] \in WorkerStates /\ workers'[w].pc = "filtered"
             /\ workers'[w].event = workers[w].event
             /\ workers'[w].audience \subseteq workers[w].audience
             /\ \A u \in workers'[w].audience : ~Told(u, workers[w].event)
  <2>1. PICK us : us = {u \in workers[w].audience \ Muted :
                          ~ToldOfEvent(u, workers[w].event) /\ ~Told(u, workers[w].event)}
    OBVIOUS
  <2>2. us \subseteq workers[w].audience /\ us \subseteq Users
        /\ \A u \in us : ~Told(u, workers[w].event)
    BY <1>0, <2>1 DEF WorkerStates
  <2>3. PICK n : n = [workers[w] EXCEPT !.pc = "filtered", !.audience = us]
    OBVIOUS
  <2>4. n \in WorkerStates /\ n.pc = "filtered" /\ n.event = workers[w].event /\ n.audience = us
    BY <1>0, <2>2, <2>3 DEF WorkerStates
  <2>5. workers' = [workers EXCEPT ![w] = n]
    BY <1>0, <1>3, <2>1, <2>3 DEF Filter
  <2> QED
    BY <1>0, <1>3, <2>2, <2>4, <2>5 DEF Filter
<1>4. ASSUME FilterFails(w)
      PROVE  /\ workers[w].pc = "resolved"
             /\ workers' = [workers EXCEPT ![w] = workers'[w]]
             /\ workers'[w] \in WorkerStates /\ workers'[w].pc = "filtered"
             /\ workers'[w].event = workers[w].event
             /\ workers'[w].audience \subseteq workers[w].audience
  <2>1. PICK n : n = [workers[w] EXCEPT !.pc = "filtered"]
    OBVIOUS
  <2>2. n \in WorkerStates /\ n.pc = "filtered" /\ n.event = workers[w].event
        /\ n.audience = workers[w].audience
    BY <1>0, <2>1, WorkerFacts
  <2>3. workers' = [workers EXCEPT ![w] = n]
    BY <1>0, <1>4, <2>1 DEF FilterFails
  <2> QED
    BY <1>0, <1>4, <2>2, <2>3 DEF FilterFails
<1>5. ASSUME Write(w) \/ WorkerFails(w)
      PROVE  /\ workers[w].event \in Events /\ workers[w].audience \subseteq Users
             /\ workers' = [workers EXCEPT ![w] = Idle]
  BY <1>0, <1>5 DEF Write, WorkerFails, WorkerStates
<1> QED
  BY <1>0, <1>1, <1>2, <1>3, <1>4, <1>5

-----------------------------------------------------------------------------
(* Type correctness *)

(* The case the behaviours begin with.                                     *)
LEMMA FirstCase ==
    ASSUME Init
    PROVE  case = [status |-> "open", filing |-> 0, hearing |-> 0, lawyer |-> Incumbent]
<1>1. PICK c : c = [status |-> "draft", filing |-> 0, hearing |-> 0, lawyer |-> Nobody]
  OBVIOUS
<1>2. case = [c EXCEPT !.status = "open", !.lawyer = Incumbent]
  BY <1>1 DEF Init, EmptyCase
<1> QED
  BY <1>1, <1>2

(* The open case the behaviours begin with, with nothing announced.        *)
LEMMA InitTypeOK == Init => TypeOK
<1> SUFFICES ASSUME Init PROVE TypeOK
  OBVIOUS
<1>1. case \in Cases
  BY FirstCase, NoticeConstants DEF NoticeConstants, Cases, Statuses, Dates
<1>2. requests = [r \in Requests |-> requests[r]] /\ \A r \in Requests : RequestOK(requests[r])
  BY FreshFacts DEF Init
<1>3. inbox \in Seq(Events) /\ Len(inbox) <= InboxSize
  BY NoticeConstants DEF NoticeConstants, Init
<1>4. workers \in [Workers -> WorkerStates] /\ \A w \in Workers : workers[w].pc = "idle"
  BY WorkerFacts DEF Init
<1>5. mishaps \in 0 .. MaxMishaps
  BY NoticeConstants DEF NoticeConstants, Init
<1> QED
  BY <1>1, <1>2, <1>3, <1>4, <1>5 DEF Init, TypeOK

(* Every handler, thread step and process event keeps the type.            *)
LEMMA StepTypeOK == TypeOK /\ [Next]_vars => TypeOK'
<1> SUFFICES ASSUME TypeOK, [Next]_vars PROVE TypeOK'
  OBVIOUS
<1>0. \A c \in Cases : Viewers(c) \subseteq Users
  BY ViewersAreUsers
<1>m. Mishap => mishaps' \in 0 .. MaxMishaps
  BY NoticeConstants DEF Mishap, NoticeConstants, TypeOK
<1>w. Idle \in WorkerStates /\ Idle.pc = "idle"
  BY WorkerFacts
<1>1. ASSUME NEW r \in Requests, Load(r) PROVE TypeOK'
  <2>1. requests' = [p \in Requests |-> requests'[p]]
        /\ \A p \in Requests : RequestOK(requests'[p])
    BY <1>1, LoadFields DEF TypeOK
  <2> QED
    BY <1>1, <2>1 DEF Load, noticeVars, TypeOK
<1>2. ASSUME NEW r \in Requests, Commit(r) PROVE TypeOK'
  <2>1. /\ requests' = [p \in Requests |-> requests'[p]]
        /\ \A p \in Requests : RequestOK(requests'[p])
        /\ case' \in Cases
    BY <1>2, CommitFields DEF TypeOK
  <2>2. /\ since' = [e \in DOMAIN since' |-> since'[e]] /\ DOMAIN since' = DOMAIN since
        /\ \A e \in DOMAIN since : since'[e] \subseteq Users
    BY <1>0, <1>2, <2>1 DEF Commit, Remember, TypeOK
  <2> QED
    BY <1>2, <2>1, <2>2 DEF Commit, noticeVars, TypeOK
<1>3. ASSUME NEW r \in Requests, Refresh(r) PROVE TypeOK'
  <2>1. requests' = [p \in Requests |-> requests'[p]]
        /\ \A p \in Requests : RequestOK(requests'[p])
    BY <1>3, RefreshFields DEF TypeOK
  <2> QED
    BY <1>3, <2>1 DEF Refresh, noticeVars, TypeOK
<1>4. ASSUME NEW r \in Requests, PublishStatus(r) \/ PublishUnrecorded(r) \/ PublishRest(r)
      PROVE  TypeOK'
  <2>1. requests' = [p \in Requests |-> requests'[p]]
        /\ \A p \in Requests : RequestOK(requests'[p])
    BY <1>4, StatusFields, OverFields DEF TypeOK
  <2>2. PICK events \in Seq(Events) : Announce(events)
    <3>1. RequestOK(requests[r])
      BY DEF TypeOK
    <3>2. CASE PublishStatus(r)
      BY <3>1, <3>2, NewsAreEvents DEF PublishStatus
    <3>3. CASE PublishUnrecorded(r)
      BY <3>1, <3>3, NewsAreEvents DEF PublishUnrecorded
    <3>4. CASE PublishRest(r)
      BY <3>1, <3>4, NewsAreEvents DEF PublishRest
    <3> QED
      BY <1>4, <3>2, <3>3, <3>4
  <2>3. /\ inbox' \in Seq(Events) /\ Len(inbox') <= InboxSize
        /\ since' = [e \in DOMAIN since' |-> since'[e]] /\ DOMAIN since' \subseteq Events
        /\ \A e \in DOMAIN since' : since'[e] \subseteq Users
    <3>1. Viewers(case) \subseteq Users /\ \A e \in DOMAIN since : since[e] \subseteq Users
      BY <1>0 DEF TypeOK
    <3> QED
      BY <2>2, <3>1, AnnounceKeeps
  <2>4. /\ UNCHANGED <<case, workers, service, feed, stale>>
        /\ timeline' \subseteq Requests /\ mishaps' \in 0 .. MaxMishaps
    BY <1>4, <1>m DEF PublishStatus, PublishUnrecorded, PublishRest, TypeOK
  <2> QED
    BY <2>1, <2>3, <2>4 DEF TypeOK
<1>12. ASSUME NEW r \in Requests, RequestFails(r) PROVE TypeOK'
  <2>1. requests' = [p \in Requests |-> requests'[p]]
        /\ \A p \in Requests : RequestOK(requests'[p])
    BY <1>12, OverFields DEF TypeOK
  <2> QED
    BY <1>12, <1>m, <2>1 DEF RequestFails, noticeVars, TypeOK
<1>5. ASSUME NEW w \in Workers, Take(w) PROVE TypeOK'
  <2>1. workers' \in [Workers -> WorkerStates]
        /\ \A v \in Workers : workers'[v].pc # "idle" => workers'[v].event \in Events
    BY <1>5, ThreadFields DEF TypeOK
  <2>2. inbox' \in Seq(Events) /\ Len(inbox') <= InboxSize
    <3>1. Tail(inbox) \in Seq(Events) /\ Len(Tail(inbox)) <= Len(inbox) /\ inbox' = Tail(inbox)
      BY <1>5, ThreadFields DEF Take
    <3> QED
      BY <3>1, NoticeConstants DEF NoticeConstants, TypeOK
  <2> QED
    BY <1>5, <2>1, <2>2 DEF Take, caseVars, TypeOK
<1>6. ASSUME NEW w \in Workers, Resolve(w) \/ Filter(w) \/ FilterFails(w) PROVE TypeOK'
  <2>1. workers' \in [Workers -> WorkerStates]
        /\ \A v \in Workers : workers'[v].pc # "idle" => workers'[v].event \in Events
    BY <1>6, ThreadFields DEF TypeOK
  <2>2. mishaps' \in 0 .. MaxMishaps
    BY <1>6, <1>m DEF Resolve, Filter, FilterFails, TypeOK
  <2> QED
    BY <1>6, <2>1, <2>2 DEF Resolve, Filter, FilterFails, caseVars, TypeOK
<1>7. ASSUME NEW w \in Workers, Write(w) \/ WorkerFails(w) PROVE TypeOK'
  <2>1. workers' \in [Workers -> WorkerStates]
        /\ \A v \in Workers : workers'[v].pc # "idle" => workers'[v].event \in Events
    BY <1>7, <1>w, ThreadFields DEF TypeOK
  <2>2. mishaps' \in 0 .. MaxMishaps
    BY <1>7, <1>m DEF Write, WorkerFails, TypeOK
  <2>3. feed' \subseteq [to : Users, event : Events, recent : BOOLEAN]
    <3>1. workers[w].event \in Events /\ workers[w].audience \subseteq Users
      BY <1>7, ThreadFields
    <3>2. feed \subseteq [to : Users, event : Events, recent : BOOLEAN]
      BY DEF TypeOK
    <3>3. \/ feed' = feed
          \/ feed' = feed \cup {[to |-> u, event |-> workers[w].event, recent |-> TRUE] :
                                 u \in workers[w].audience}
      BY <1>7 DEF Write, WorkerFails
    <3>4. \A u \in workers[w].audience :
            [to |-> u, event |-> workers[w].event, recent |-> TRUE]
              \in [to : Users, event : Events, recent : BOOLEAN]
      BY <3>1
    <3>5. ASSUME NEW n \in feed'
          PROVE  n \in [to : Users, event : Events, recent : BOOLEAN]
      <4>1. CASE n \in feed
        BY <3>2, <4>1
      <4>2. CASE n \notin feed
        <5>1. PICK u \in workers[w].audience :
                n = [to |-> u, event |-> workers[w].event, recent |-> TRUE]
          BY <3>3, <3>5, <4>2
        <5> QED
          BY <3>4, <5>1
      <4> QED
        BY <4>1, <4>2
    <3> QED
      BY <3>5, Zenon
  <2> QED
    BY <1>7, <2>1, <2>2, <2>3 DEF Write, WorkerFails, caseVars, TypeOK
<1>8. ASSUME NEW n \in feed, Forget(n) PROVE TypeOK'
  <2>1. feed' \subseteq [to : Users, event : Events, recent : BOOLEAN]
    BY <1>8 DEF Forget, TypeOK
  <2> QED
    BY <1>8, <2>1 DEF Forget, caseVars, TypeOK
<1>9. CASE Stop \/ Drained \/ Start \/ UNCHANGED vars
  BY <1>9 DEF Stop, Drained, Start, caseVars, vars, TypeOK
<1>10. CASE GiveUp
  <2>1. inbox' \in Seq(Events) /\ Len(inbox') <= InboxSize
    BY <1>10, NoticeConstants DEF NoticeConstants, GiveUp
  <2> QED
    BY <1>10, <1>m, <1>w, <2>1 DEF GiveUp, caseVars, TypeOK
<1>11. CASE Crash
  <2>1. inbox' \in Seq(Events) /\ Len(inbox') <= InboxSize
    BY <1>11, NoticeConstants DEF NoticeConstants, Crash
  <2>2. requests' = [p \in Requests |-> requests'[p]]
        /\ \A p \in Requests : RequestOK(requests'[p])
    BY <1>11, CrashFields, OverFacts DEF TypeOK
  <2> QED
    BY <1>11, <1>m, <1>w, <2>1, <2>2 DEF Crash, TypeOK
<1> QED
  BY <1>1, <1>2, <1>3, <1>4, <1>5, <1>6, <1>7, <1>8, <1>9, <1>10, <1>11, <1>12
  DEF Next, RequestStep, WorkerStep

(* Rows, requests, events and threads have the types the code gives them   *)
(* (update_case, archive_case, notification_events, notification).         *)
THEOREM TypeCorrect == Spec => []TypeOK
BY InitTypeOK, StepTypeOK, PTL DEF Spec

-----------------------------------------------------------------------------
(* Who is told *)

(* What is announced and not yet told of is remembered, with everybody who *)
(* could see the case since; a thread's audience is among them.            *)
EntitledInv ==
    /\ \A e \in DOMAIN since : Viewers(case) \subseteq since[e]
    /\ \A i \in DOMAIN inbox : inbox[i] \in DOMAIN since
    /\ \A w \in Workers : workers[w].pc # "idle" =>
         /\ workers[w].event \in DOMAIN since
         /\ workers[w].pc \in {"resolved", "filtered"} =>
              workers[w].audience \subseteq since[workers[w].event]
    /\ \A n \in feed : n.event \in DOMAIN since /\ n.to \in since[n.event]

(* What is remembered of an event only grows.                              *)
LEMMA NothingForgotten ==
    ASSUME EntitledInv, UNCHANGED <<workers, feed>>,
           DOMAIN since \subseteq DOMAIN since',
           \A e \in DOMAIN since : since[e] \subseteq since'[e],
           \A e \in DOMAIN since' : Viewers(case') \subseteq since'[e],
           \A i \in DOMAIN inbox' : inbox'[i] \in DOMAIN since'
    PROVE  EntitledInv'
<1>1. ASSUME NEW w \in Workers, workers[w].pc # "idle"
      PROVE  /\ workers[w].event \in DOMAIN since'
             /\ workers[w].pc \in {"resolved", "filtered"} =>
                  workers[w].audience \subseteq since'[workers[w].event]
  BY <1>1 DEF EntitledInv
<1>2. \A n \in feed : n.event \in DOMAIN since' /\ n.to \in since'[n.event]
  BY DEF EntitledInv
<1> QED
  BY <1>1, <1>2 DEF EntitledInv, Viewers

(* A thread that takes, resolves or filters an event keeps its audience    *)
(* within those who could see the case.                                    *)
LEMMA ThreadEntitled ==
    ASSUME TypeOK, EntitledInv, NEW w \in Workers,
           WorkerStep(w) \/ FilterFails(w) \/ WorkerFails(w)
    PROVE  EntitledInv'
<1>0. UNCHANGED <<case, since>> /\ workers \in [Workers -> WorkerStates]
  BY DEF WorkerStep, Take, Resolve, Filter, Write, FilterFails, WorkerFails, caseVars, TypeOK
<1>1. CASE Take(w)
  <2>1. inbox \in Seq(Events) /\ inbox # <<>> /\ inbox' = Tail(inbox) /\ UNCHANGED feed
    BY <1>1 DEF Take, TypeOK
  <2>2. Head(inbox) \in DOMAIN since
    <3>1. 1 \in DOMAIN inbox /\ Head(inbox) = inbox[1]
      BY <2>1
    <3> QED
      BY <3>1 DEF EntitledInv
  <2>3. \A i \in DOMAIN inbox' : inbox'[i] \in DOMAIN since
    <3>1. \A i \in DOMAIN Tail(inbox) : i + 1 \in DOMAIN inbox /\ Tail(inbox)[i] = inbox[i + 1]
      BY <2>1
    <3> QED
      BY <2>1, <3>1 DEF EntitledInv
  <2>4. /\ workers'[w].pc = "taken" /\ workers'[w].event = Head(inbox)
        /\ \A v \in Workers : v # w => workers'[v] = workers[v]
    BY <1>0, <1>1, ThreadFields
  <2> QED
    BY <1>0, <2>1, <2>2, <2>3, <2>4 DEF EntitledInv, Viewers
<1>2. CASE Resolve(w)
  <2>1. /\ workers[w].pc = "taken" /\ workers'[w].pc = "resolved"
        /\ workers'[w].event = workers[w].event
        /\ workers'[w].audience \subseteq Viewers(case)
        /\ \A v \in Workers : v # w => workers'[v] = workers[v]
    BY <1>0, <1>2, ThreadFields
  <2>2. UNCHANGED <<inbox, feed>>
    BY <1>2 DEF Resolve
  <2> QED
    BY <1>0, <2>1, <2>2 DEF EntitledInv, Viewers
<1>3. CASE Filter(w) \/ FilterFails(w)
  <2>1. /\ workers[w].pc = "resolved" /\ workers'[w].pc = "filtered"
        /\ workers'[w].event = workers[w].event
        /\ workers'[w].audience \subseteq workers[w].audience
        /\ \A v \in Workers : v # w => workers'[v] = workers[v]
    BY <1>0, <1>3, ThreadFields
  <2>2. UNCHANGED <<inbox, feed>>
    BY <1>3 DEF Filter, FilterFails
  <2> QED
    BY <1>0, <2>1, <2>2 DEF EntitledInv, Viewers
<1>4. CASE Write(w) \/ WorkerFails(w)
  <2>1. /\ workers'[w].pc = "idle"
        /\ \A v \in Workers : v # w => workers'[v] = workers[v]
    BY <1>0, <1>4, ThreadFields, WorkerFacts
  <2>2. UNCHANGED inbox
    BY <1>4 DEF Write, WorkerFails
  <2>3. \A n \in feed' : n.event \in DOMAIN since /\ n.to \in since[n.event]
    <3>1. CASE Write(w)
      <4>1. \A n \in feed' : \/ n \in feed
                             \/ n.event = workers[w].event /\ n.to \in workers[w].audience
        BY <3>1 DEF Write
      <4>2. workers[w].pc = "filtered"
        BY <3>1 DEF Write
      <4> QED
        BY <4>1, <4>2 DEF EntitledInv
    <3>2. CASE WorkerFails(w)
      BY <3>2 DEF WorkerFails, EntitledInv
    <3> QED
      BY <1>4, <3>1, <3>2
  <2> QED
    BY <1>0, <2>1, <2>2, <2>3 DEF EntitledInv, Viewers
<1> QED
  BY <1>1, <1>2, <1>3, <1>4 DEF WorkerStep

(* Every step keeps who could see the case with the events to tell of.     *)
LEMMA StepEntitled == TypeOK /\ EntitledInv /\ [Next]_vars => EntitledInv'
<1> SUFFICES ASSUME TypeOK, EntitledInv, [Next]_vars PROVE EntitledInv'
  OBVIOUS
<1>1. ASSUME NEW r \in Requests, Commit(r) PROVE EntitledInv'
  <2>1. /\ DOMAIN since' = DOMAIN since
        /\ \A e \in DOMAIN since : since'[e] = since[e] \cup Viewers(case')
    BY <1>1 DEF Commit, Remember
  <2>2. UNCHANGED <<inbox, workers, feed>>
    BY <1>1 DEF Commit, noticeVars
  <2>3. \A i \in DOMAIN inbox : inbox[i] \in DOMAIN since
    BY DEF EntitledInv
  <2> QED
    BY <2>1, <2>2, <2>3, NothingForgotten
<1>2. ASSUME NEW r \in Requests, PublishStatus(r) \/ PublishUnrecorded(r) \/ PublishRest(r)
      PROVE  EntitledInv'
  <2>1. PICK events \in Seq(Events) : Announce(events)
    <3>1. RequestOK(requests[r])
      BY DEF TypeOK
    <3>2. CASE PublishStatus(r)
      BY <3>1, <3>2, NewsAreEvents DEF PublishStatus
    <3>3. CASE PublishUnrecorded(r)
      BY <3>1, <3>3, NewsAreEvents DEF PublishUnrecorded
    <3>4. CASE PublishRest(r)
      BY <3>1, <3>4, NewsAreEvents DEF PublishRest
    <3> QED
      BY <1>2, <3>2, <3>3, <3>4
  <2>2. UNCHANGED <<case, workers, feed>>
    BY <1>2 DEF PublishStatus, PublishUnrecorded, PublishRest
  <2>3. /\ DOMAIN since \subseteq DOMAIN since'
        /\ \A e \in DOMAIN since' :
             since'[e] = IF e \in DOMAIN since THEN since[e] ELSE Viewers(case)
        /\ \A i \in DOMAIN inbox' :
             \/ i \in DOMAIN inbox /\ inbox'[i] = inbox[i]
             \/ inbox'[i] \in DOMAIN since'
    BY <2>1, AnnounceKeeps
  <2>4. /\ \A i \in DOMAIN inbox' : inbox'[i] \in DOMAIN since'
        /\ \A e \in DOMAIN since' : Viewers(case) \subseteq since'[e]
    BY <2>3 DEF EntitledInv
  <2> QED
    BY <2>2, <2>3, <2>4, NothingForgotten DEF Viewers
<1>3. ASSUME NEW w \in Workers, WorkerStep(w) \/ FilterFails(w) \/ WorkerFails(w)
      PROVE  EntitledInv'
  BY <1>3, ThreadEntitled
<1>4. ASSUME NEW n \in feed, Forget(n) PROVE EntitledInv'
  <2>1. n \in [to : Users, event : Events, recent : BOOLEAN]
    BY DEF TypeOK
  <2>2. \A m \in feed' : \E k \in feed : m.event = k.event /\ m.to = k.to
    BY <1>4, <2>1 DEF Forget
  <2>3. UNCHANGED <<case, inbox, workers, since>>
    BY <1>4 DEF Forget, caseVars
  <2> QED
    BY <2>2, <2>3 DEF EntitledInv, Viewers
<1>5. CASE \/ \E r \in Requests : Load(r) \/ Refresh(r) \/ RequestFails(r)
           \/ Stop \/ Drained \/ Start \/ UNCHANGED vars
  BY <1>5 DEF Load, Refresh, RequestFails, Stop, Drained, Start, caseVars, noticeVars, vars, EntitledInv, Viewers
<1>6. CASE GiveUp \/ Crash
  <2>1. /\ \A w \in Workers : workers'[w].pc = "idle"
        /\ inbox' = <<>>
        /\ UNCHANGED <<case, feed, since>>
    BY <1>6, WorkerFacts DEF GiveUp, Crash, caseVars
  <2> QED
    BY <2>1 DEF EntitledInv, Viewers
<1> QED
  BY <1>1, <1>2, <1>3, <1>4, <1>5, <1>6 DEF Next, RequestStep

(* Whoever is told of an event could see the case at some moment since it  *)
(* was published, however long the event waited and whoever was put on the *)
(* case or taken off it meanwhile (authorized_recipients).                 *)
THEOREM ToldAreEntitled == Spec => []ToldWereEntitled
<1>1. Init => EntitledInv
  BY WorkerFacts DEF Init, EntitledInv
<1>2. EntitledInv => ToldWereEntitled
  BY DEF EntitledInv, ToldWereEntitled
<1> QED
  BY <1>1, <1>2, StepEntitled, TypeCorrect, PTL DEF Spec

-----------------------------------------------------------------------------
(* Updates that see each other *)

(* What a request holds while no update has missed another: the row it     *)
(* read, which its own change keeps legal, and then that row changed.      *)
SerialRequest(q) ==
    /\ q.pc = "loaded" =>
         q.copy = q.before /\ (q.field # "archive" => Valid(q.copy, q.field, q.value))
    /\ q.pc \in {"committed", "saved"} => q.copy = With(q.before, q.field, q.value)

SerialInv ==
    /\ \A r \in timeline : requests[r].pc \in {"told", "done"}
    /\ stale \/ \A r \in Requests : SerialRequest(requests[r])
    /\ SerialUpdatesAreSound

(* Only a change of status changes the status, and only a change of a date *)
(* can put the dates out of order.                                         *)
LEMMA WithChanges ==
    ASSUME NEW c \in Cases, NEW f \in Fields, NEW v
    PROVE  /\ f \notin {"status", "archive"} => With(c, f, v).status = c.status
           /\ f = "archive" => With(c, f, v).status = "archived"
           /\ f = "status" => With(c, f, v).status = v
           /\ f \in {"status", "archive", "lawyer"} =>
                (DatesInOrder(With(c, f, v)) <=> DatesInOrder(c))
BY DEF With, Cases, Fields, DatesInOrder

(* The change a request was granted leads from one legal row to another.   *)
LEMMA ValidChange ==
    ASSUME NEW q, RequestOK(q), SerialRequest(q), q.pc = "loaded", DatesInOrder(q.copy)
    PROVE  /\ DatesInOrder(With(q.copy, q.field, q.value))
           /\ CanTransition(q.copy.status, With(q.copy, q.field, q.value).status)
<1>1. q.copy \in Cases /\ q.field \in Fields
  BY DEF RequestOK
<1>2. CASE q.field = "archive"
  <2>1. CanTransition(q.copy.status, "archived")
    BY <1>1 DEF Cases, Statuses, CanTransition, STATUS_TRANSITIONS
  <2> QED
    BY <1>1, <1>2, <2>1, WithChanges
<1>3. CASE q.field # "archive"
  <2>1. Valid(q.copy, q.field, q.value)
    BY <1>3 DEF SerialRequest
  <2> QED
    BY <1>1, <1>3, <2>1, WithChanges DEF Valid, CanTransition
<1> QED
  BY <1>2, <1>3

(* A commit that missed nothing moves the row to what was granted.         *)
LEMMA SerialCommit ==
    ASSUME TypeOK, SerialInv, NEW r \in Requests, Commit(r), stale' = FALSE
    PROVE  /\ case' = With(case, requests[r].field, requests[r].value)
           /\ requests[r].before = case
           /\ DatesInOrder(case') /\ CanTransition(case.status, case'.status)
<1>1. stale = FALSE /\ case = requests[r].copy /\ requests[r].pc = "loaded"
  BY DEF Commit, TypeOK
<1>2. SerialRequest(requests[r]) /\ DatesInOrder(case) /\ RequestOK(requests[r])
  BY <1>1 DEF SerialInv, SerialUpdatesAreSound, TypeOK
<1>3. requests[r].copy = requests[r].before
  BY <1>1, <1>2 DEF SerialRequest
<1>4. case' = With(case, requests[r].field, requests[r].value)
  BY <1>1 DEF Commit
<1> QED
  BY <1>1, <1>2, <1>3, <1>4, ValidChange

(* Every step keeps what serial updates promise.                           *)
LEMMA StepSerial == TypeOK /\ SerialInv /\ [Next]_vars => SerialInv'
<1> SUFFICES ASSUME TypeOK, SerialInv, [Next]_vars PROVE SerialInv'
  OBVIOUS
<1>k. ASSUME UNCHANGED <<case, requests, timeline, stale>> PROVE SerialInv'
  BY <1>k DEF SerialInv, SerialUpdatesAreSound, DatesInOrder
<1>t. timeline \subseteq Requests
  BY DEF TypeOK
<1>1. ASSUME NEW r \in Requests, Load(r) PROVE SerialInv'
  <2>1. SerialRequest(requests'[r])
    BY <1>1, LoadFields DEF SerialRequest
  <2>2. UNCHANGED <<case, timeline, stale>>
    BY <1>1 DEF Load
  <2>3. requests[r].pc = "new" /\ \A p \in Requests : p # r => requests'[p] = requests[p]
    BY <1>1, LoadFields
  <2>4. r \notin timeline
    BY <2>3 DEF SerialInv
  <2> QED
    BY <1>t, <2>1, <2>2, <2>3, <2>4 DEF SerialInv, SerialUpdatesAreSound, DatesInOrder
<1>2. ASSUME NEW r \in Requests, Commit(r) PROVE SerialInv'
  <2>1. /\ requests[r].pc = "loaded" /\ requests'[r].pc = "committed"
        /\ requests'[r].copy = case'
        /\ requests'[r].field = requests[r].field /\ requests'[r].value = requests[r].value
        /\ requests'[r].before = requests[r].before
        /\ \A p \in Requests : p # r => requests'[p] = requests[p]
    BY <1>2, CommitFields
  <2>2. UNCHANGED timeline /\ (stale => stale') /\ stale' \in BOOLEAN
    BY <1>2, StepTypeOK DEF Commit, TypeOK
  <2>3. r \notin timeline
    BY <2>1 DEF SerialInv
  <2>4. \A p \in timeline' : requests'[p] = requests[p] /\ requests'[p].pc \in {"told", "done"}
    BY <1>t, <2>1, <2>2, <2>3 DEF SerialInv
  <2>5. ASSUME stale' = FALSE
        PROVE  /\ \A p \in Requests : SerialRequest(requests'[p])
               /\ SerialUpdatesAreSound'
    <3>1. SerialRequest(requests'[r]) /\ DatesInOrder(case')
      BY <1>2, <2>1, <2>5, SerialCommit DEF SerialRequest
    <3>2. stale = FALSE
      BY <2>2, <2>5 DEF TypeOK
    <3> QED
      BY <2>1, <2>4, <3>1, <3>2, <2>2 DEF SerialInv, SerialUpdatesAreSound, DatesInOrder
  <2> QED
    BY <2>2, <2>4, <2>5 DEF SerialInv, SerialUpdatesAreSound
<1>3. ASSUME NEW r \in Requests, Refresh(r) PROVE SerialInv'
  <2>1. /\ requests[r].pc = "committed" /\ requests'[r].pc = "saved"
        /\ requests'[r].copy = case
        /\ requests'[r].field = requests[r].field /\ requests'[r].value = requests[r].value
        /\ requests'[r].before = requests[r].before
        /\ \A p \in Requests : p # r => requests'[p] = requests[p]
    BY <1>3, RefreshFields
  <2>2. UNCHANGED <<case, timeline>> /\ (stale => stale') /\ stale' \in BOOLEAN
        /\ (~stale' => case = requests[r].copy)
    BY <1>3, StepTypeOK DEF Refresh, TypeOK
  <2>3. r \notin timeline
    BY <2>1 DEF SerialInv
  <2>4. \A p \in timeline : requests'[p] = requests[p] /\ requests'[p].pc \in {"told", "done"}
    BY <1>t, <2>1, <2>3 DEF SerialInv
  <2>5. ASSUME stale' = FALSE
        PROVE  \A p \in Requests : SerialRequest(requests'[p])
    <3>1. stale = FALSE
      BY <2>2, <2>5 DEF TypeOK
    <3>2. SerialRequest(requests[r]) /\ case = requests[r].copy
      BY <2>2, <2>5, <3>1 DEF SerialInv
    <3>3. SerialRequest(requests'[r])
      BY <2>1, <3>2 DEF SerialRequest
    <3> QED
      BY <2>1, <3>1, <3>3 DEF SerialInv
  <2> QED
    BY <2>2, <2>4, <2>5 DEF SerialInv, SerialUpdatesAreSound, DatesInOrder
<1>4. ASSUME NEW r \in Requests, PublishStatus(r) \/ PublishUnrecorded(r) PROVE SerialInv'
  <2>1. /\ requests[r].pc = "saved" /\ requests'[r].pc = "told"
        /\ requests'[r].field = requests[r].field
        /\ \A p \in Requests : p # r => requests'[p] = requests[p]
    BY <1>4, StatusFields
  <2>2. /\ UNCHANGED <<case, stale>>
        /\ timeline' \in {timeline, timeline \cup {r}}
        /\ timeline' = timeline \cup {r} => timeline' = timeline \/ StatusChanged(r)
    BY <1>4 DEF PublishStatus, PublishUnrecorded
  <2>3. ASSUME ~stale, StatusChanged(r), requests[r].field \notin {"status", "archive"}
        PROVE  FALSE
    <3>1. /\ RequestOK(requests[r])
          /\ requests[r].copy = With(requests[r].before, requests[r].field, requests[r].value)
      BY <2>1, <2>3 DEF SerialInv, SerialRequest, TypeOK
    <3>2. requests[r].copy.status = requests[r].before.status
      BY <2>3, <3>1, WithChanges DEF RequestOK
    <3> QED
      BY <2>3, <3>2 DEF StatusChanged
  <2>4. \A p \in timeline' : requests'[p].pc \in {"told", "done"}
    BY <1>t, <2>1, <2>2 DEF SerialInv
  <2>5. stale \/ \A p \in Requests : SerialRequest(requests'[p])
    BY <2>1 DEF SerialInv, SerialRequest
  <2>6. stale \/ \A p \in timeline' : requests'[p].field \in {"status", "archive"}
    BY <1>t, <2>1, <2>2, <2>3 DEF SerialInv, SerialUpdatesAreSound
  <2> QED
    BY <2>2, <2>4, <2>5, <2>6 DEF SerialInv, SerialUpdatesAreSound, DatesInOrder
<1>9. ASSUME NEW r \in Requests, PublishRest(r) \/ RequestFails(r) PROVE SerialInv'
  <2>1. /\ requests[r].pc \in {"told", "loaded", "committed"} /\ requests'[r].pc = "done"
        /\ requests'[r].field = requests[r].field
        /\ \A p \in Requests : p # r => requests'[p] = requests[p]
    BY <1>9, OverFields
  <2>2. UNCHANGED <<case, timeline, stale>>
    BY <1>9 DEF PublishRest, RequestFails
  <2>4. \A p \in timeline : /\ requests'[p].pc \in {"told", "done"}
                            /\ requests'[p].field = requests[p].field
    BY <1>t, <2>1 DEF SerialInv
  <2>5. SerialRequest(requests'[r])
    BY <2>1 DEF SerialRequest
  <2> QED
    BY <2>1, <2>2, <2>4, <2>5 DEF SerialInv, SerialUpdatesAreSound, DatesInOrder
<1>5. ASSUME NEW w \in Workers, WorkerStep(w) \/ FilterFails(w) \/ WorkerFails(w)
      PROVE  SerialInv'
  BY <1>5, <1>k DEF WorkerStep, Take, Resolve, Filter, Write, FilterFails, WorkerFails, caseVars
<1>6. ASSUME NEW n \in feed, Forget(n) PROVE SerialInv'
  BY <1>6, <1>k DEF Forget, caseVars
<1>7. CASE Stop \/ Drained \/ GiveUp \/ Start \/ UNCHANGED vars
  BY <1>7, <1>k DEF Stop, Drained, GiveUp, Start, caseVars, vars
<1>8. CASE Crash
  <2>1. UNCHANGED <<case, timeline, stale>>
    BY <1>8 DEF Crash
  <2>2. \A p \in Requests : \/ requests'[p] = requests[p]
                            \/ requests'[p].pc = "done" /\ requests'[p].field = requests[p].field
    BY <1>8, CrashFields, OverFacts DEF TypeOK
  <2>3. \A p \in Requests : SerialRequest(requests[p]) => SerialRequest(requests'[p])
    BY <2>2 DEF SerialRequest
  <2> QED
    BY <1>t, <2>1, <2>2, <2>3 DEF SerialInv, SerialUpdatesAreSound, DatesInOrder
<1> QED
  BY <1>1, <1>2, <1>3, <1>4, <1>5, <1>6, <1>7, <1>8, <1>9 DEF Next, RequestStep

(* The case the behaviours begin with is legal and its timeline is empty.  *)
LEMMA InitSerial == Init => SerialInv
<1> SUFFICES ASSUME Init PROVE SerialInv
  OBVIOUS
<1>1. DatesInOrder(case)
  BY FirstCase DEF DatesInOrder
<1>2. \A r \in Requests : requests[r].pc = "new"
  BY FreshFacts DEF Init
<1> QED
  BY <1>1, <1>2 DEF Init, SerialInv, SerialRequest, SerialUpdatesAreSound

(* As long as no update missed what another committed, no hearing precedes *)
(* the filing, and whoever the timeline names as changing the status asked *)
(* for that: it is checked on a copy of the row and announced from another *)
(* (_validate_dates, _publish_status_change).                              *)
THEOREM SerialUpdatesSound == Spec => []SerialUpdatesAreSound
<1>1. SerialInv => SerialUpdatesAreSound
  BY DEF SerialInv
<1> QED
  BY <1>1, InitSerial, StepSerial, TypeCorrect, PTL DEF Spec

(* A change of the row that missed nothing goes along STATUS_TRANSITIONS.  *)
StatusFollows == stale' \/ CanTransition(case.status, case'.status)

(* Nor does the row then change its status against the table: an update    *)
(* writes without looking at the row again, and an archival does not look  *)
(* at the table at all (update_case, archive_case).                        *)
THEOREM StatusFollowsTable == Spec => [][StatusFollows]_vars
<1>1. TypeOK /\ SerialInv /\ [Next]_vars => [StatusFollows]_vars
  <2> SUFFICES ASSUME TypeOK, SerialInv, [Next]_vars PROVE StatusFollows
    OBVIOUS
  <2>1. ASSUME NEW r \in Requests, Commit(r) PROVE StatusFollows
    <3>1. stale' \in BOOLEAN
      BY StepTypeOK DEF TypeOK
    <3> QED
      BY <2>1, <3>1, SerialCommit DEF StatusFollows
  <2>2. CASE UNCHANGED case
    BY <2>2 DEF StatusFollows, CanTransition
  <2>3. UNCHANGED case \/ \E r \in Requests : Commit(r)
    BY DEF Next, RequestStep, WorkerStep, Load, Refresh, PublishStatus, PublishUnrecorded,
           PublishRest, RequestFails, Take, Resolve, Filter, Write,
           FilterFails, WorkerFails, Forget, Stop, Drained, GiveUp, Start, Crash, caseVars, vars
  <2> QED
    BY <2>1, <2>2, <2>3
<1> QED
  BY <1>1, InitSerial, StepSerial, TypeCorrect, PTL DEF Spec

-----------------------------------------------------------------------------
(* Telling the same thing twice *)

(* Whoever the one thread is about to tell was not told the same within    *)
(* the window.                                                             *)
RepeatInv ==
    /\ mishaps > 0 \/ \A w \in Workers : workers[w].pc = "filtered" =>
         \A u \in workers[w].audience : ~Told(u, workers[w].event)
    /\ NoRepeatInWindow

(* One thread at a time looks at the feed and writes it.                   *)
LEMMA StepRepeat ==
    ASSUME \A v, w \in Workers : v = w, TypeOK, RepeatInv, [Next]_vars
    PROVE  RepeatInv'
<1>m. mishaps \in Nat /\ mishaps' \in Nat /\ (mishaps > 0 => mishaps' > 0)
  <2>1. mishaps' = mishaps \/ mishaps' = mishaps + 1
    BY DEF Next, RequestStep, WorkerStep, Load, Commit, Refresh, PublishStatus,
           PublishUnrecorded, PublishRest, RequestFails, Take, Resolve, Filter,
           Write, FilterFails, WorkerFails, Forget, Stop, Drained, GiveUp, Start, Crash, Mishap,
           vars
  <2>2. mishaps \in Nat
    BY NoticeConstants DEF NoticeConstants, TypeOK
  <2> QED
    BY <2>1, <2>2
<1>p. ASSUME Mishap PROVE RepeatInv'
  <2>1. mishaps' > 0
    BY <1>m, <1>p DEF Mishap
  <2> QED
    BY <2>1 DEF RepeatInv, NoRepeatInWindow
<1>k. ASSUME UNCHANGED feed,
             \A w \in Workers : workers'[w].pc = "filtered" => workers'[w] = workers[w]
      PROVE  RepeatInv'
  BY <1>k, <1>m DEF RepeatInv, NoRepeatInWindow, Told
<1>0. workers \in [Workers -> WorkerStates]
  BY DEF TypeOK
<1>1. ASSUME NEW w \in Workers, Take(w) \/ Resolve(w) PROVE RepeatInv'
  <2>1. workers'[w].pc # "filtered" /\ \A v \in Workers : v # w => workers'[v] = workers[v]
    BY <1>0, <1>1, ThreadFields
  <2> QED
    BY <1>1, <1>k, <2>1 DEF Take, Resolve
<1>2. ASSUME NEW w \in Workers, Filter(w) PROVE RepeatInv'
  <2>1. /\ workers'[w].event = workers[w].event
        /\ \A u \in workers'[w].audience : ~Told(u, workers[w].event)
        /\ \A v \in Workers : v = w
    BY <1>2, ThreadFields
  <2>2. UNCHANGED feed
    BY <1>2 DEF Filter
  <2> QED
    BY <1>m, <2>1, <2>2 DEF RepeatInv, NoRepeatInWindow, Told
<1>3. ASSUME NEW w \in Workers, Write(w) PROVE RepeatInv'
  <2>1. workers'[w].pc = "idle" /\ \A v \in Workers : v = w
    BY <1>0, <1>3, ThreadFields, WorkerFacts
  <2>2. /\ workers[w].pc = "filtered"
        /\ feed' = feed \cup {[to |-> u, event |-> workers[w].event, recent |-> TRUE] :
                                u \in workers[w].audience}
        /\ UNCHANGED mishaps
    BY <1>3 DEF Write
  <2>3. ASSUME ~(mishaps > 0), NEW m \in feed', NEW n \in feed',
               m.to = n.to, m.event.kind = n.event.kind, m.recent, n.recent
        PROVE  m = n
    <3>1. \A u \in workers[w].audience : ~Told(u, workers[w].event)
      BY <2>2, <2>3 DEF RepeatInv
    <3>2. CASE m \in feed /\ n \in feed
      BY <2>3, <3>2 DEF RepeatInv, NoRepeatInWindow
    <3>3. CASE m \notin feed /\ n \notin feed
      <4>1. PICK u \in workers[w].audience :
              m = [to |-> u, event |-> workers[w].event, recent |-> TRUE]
        BY <2>2, <2>3, <3>3
      <4>2. PICK v \in workers[w].audience :
              n = [to |-> v, event |-> workers[w].event, recent |-> TRUE]
        BY <2>2, <2>3, <3>3
      <4>3. u = v
        BY <2>3, <4>1, <4>2
      <4> QED
        BY <4>1, <4>2, <4>3
    <3>4. CASE m \in feed /\ n \notin feed
      <4>1. n.to \in workers[w].audience /\ n.event = workers[w].event
        BY <2>2, <3>4
      <4> QED
        BY <2>3, <3>1, <3>4, <4>1 DEF Told
    <3>5. CASE m \notin feed /\ n \in feed
      <4>1. m.to \in workers[w].audience /\ m.event = workers[w].event
        BY <2>2, <3>5
      <4> QED
        BY <2>3, <3>1, <3>5, <4>1 DEF Told
    <3> QED
      BY <3>2, <3>3, <3>4, <3>5
  <2> QED
    BY <2>1, <2>2, <2>3 DEF RepeatInv, NoRepeatInWindow
<1>4. ASSUME NEW w \in Workers, FilterFails(w) \/ WorkerFails(w) PROVE RepeatInv'
  BY <1>4, <1>p DEF FilterFails, WorkerFails
<1>5. ASSUME NEW n \in feed, Forget(n) PROVE RepeatInv'
  <2>1. n \in [to : Users, event : Events, recent : BOOLEAN]
    BY DEF TypeOK
  <2>2. \A m \in feed' : m.recent => m \in feed
    BY <1>5, <2>1 DEF Forget
  <2>3. UNCHANGED <<workers, mishaps>>
    BY <1>5 DEF Forget
  <2> QED
    BY <2>2, <2>3 DEF RepeatInv, NoRepeatInWindow, Told
<1>6. CASE (\E r \in Requests : Load(r) \/ RequestStep(r) \/ RequestFails(r)) \/ Stop \/ Drained \/ Start \/ UNCHANGED vars
  BY <1>6, <1>k DEF Load, RequestStep, RequestFails, Commit, Refresh, PublishStatus,
                    PublishUnrecorded, PublishRest, Stop, Drained, Start, noticeVars, vars
<1>7. CASE GiveUp \/ Crash
  BY <1>7, <1>p DEF GiveUp, Crash
<1> QED
  BY <1>1, <1>2, <1>3, <1>4, <1>5, <1>6, <1>7 DEF Next, WorkerStep

(* With one thread, as the settings have it, nobody is told the same       *)
(* thing twice within the window, unless a lookup failed: the feed is read *)
(* when duplicates are left out and written a step later                   *)
(* (_filter_duplicates, create_many).                                      *)
THEOREM NobodyToldTwice ==
    ASSUME \A v, w \in Workers : v = w
    PROVE  Spec => []NoRepeatInWindow
<1>1. Init => RepeatInv
  BY WorkerFacts DEF Init, RepeatInv, NoRepeatInWindow
<1>2. TypeOK /\ RepeatInv /\ [Next]_vars => RepeatInv'
  BY StepRepeat
<1>3. RepeatInv => NoRepeatInWindow
  BY DEF RepeatInv
<1> QED
  BY <1>1, <1>2, <1>3, TypeCorrect, PTL DEF Spec

=============================================================================
