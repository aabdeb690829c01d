---------------------------- MODULE CaseNotices ----------------------------
(***************************************************************************)
(* One case, the requests that change it, the events they publish, and the *)
(* notification service that turns those events into rows of people's      *)
(* feeds (services/case.py, services/timeline.py,                          *)
(* services/notification_events.py, services/notification_recipients.py,   *)
(* services/notification.py, core/notifications.py).                       *)
(*                                                                         *)
(* A request validates what it is asked against the copy of the row it     *)
(* loaded, writes the columns it changes, reads the row again and          *)
(* announces the difference between what it read first and what it read    *)
(* last.  Its events go one by one into a bounded inbox; a worker thread   *)
(* takes them one at a time, asks who is concerned and entitled, leaves    *)
(* out who was just told the same, and inserts a row for each of the       *)
(* others.                                                                 *)
(*                                                                         *)
(* Of the case the model keeps the status, the two dates and the lawyer:   *)
(* the representative is treated as the lawyer is, the priority as the     *)
(* status without its table, and the other columns have no rule.  A        *)
(* request changes one field.                                              *)
(***************************************************************************)
EXTENDS Naturals, Sequences, FiniteSets

CONSTANTS
    Requests,     \* requests made in a behaviour, each at most once
    Workers,      \* threads (NOTIFICATION_WORKER_CONCURRENCY)
    Lawyers,      \* accounts that may be assigned
    Admin,        \* who created the case, sees and may change every case
    Nobody,       \* no lawyer
    Incumbent,    \* the lawyer the case has when the behaviours begin, or Nobody
    Muted,        \* accounts that switched these notifications off
    Targets,      \* the statuses requests ask for
    LastDate,     \* dates are 1 .. LastDate, 0 for none
    InboxSize,    \* NOTIFICATION_QUEUE_SIZE
    MaxMishaps    \* bound: failures, crashes and timeouts

Users == Lawyers \cup {Admin}

Statuses == {"draft", "open", "in_progress", "waiting_for_hearing", "closed", "archived"}

ASSUME NoticeConstants ==
    /\ IsFiniteSet(Requests) /\ IsFiniteSet(Lawyers)
    /\ Admin \notin Lawyers
    /\ Nobody \notin Users
    /\ Incumbent \in Lawyers \cup {Nobody}
    /\ Muted \subseteq Users
    /\ Targets \subseteq Statuses
    /\ LastDate \in Nat
    /\ InboxSize \in Nat \ {0}
    /\ MaxMishaps \in Nat

VARIABLES
    case,        \* the row of "cases"
    requests,    \* what each request is doing
    timeline,    \* who was recorded as changing the status: requests
    inbox,       \* events the notification workers have not taken
    workers,     \* what each worker is doing
    service,     \* "on", "draining" or "off"
    feed,        \* the rows of "notifications"
    since,       \* history: who could see the case since an event was published
    stale,       \* history: did an update not see what another committed?
    mishaps

vars == <<case, requests, timeline, inbox, workers, service, feed, since, stale, mishaps>>
caseVars == <<case, requests, timeline, stale>>
noticeVars == <<inbox, workers, service, feed>>

Dates == 0 .. LastDate

Cases == [status : Statuses, filing : Dates, hearing : Dates, lawyer : Lawyers \cup {Nobody}]

(* The rules an event of a case is told by. *)
Kinds == {"updated", "status", "hearing", "archived", "restored", "assigned", "removed"}

(* The identity the dispatcher gives an event: here, who published it and  *)
(* as what.  "about" is the assignee_id of the payload.                    *)
Events == [by : Requests, actor : Users, kind : Kinds, about : Lawyers \cup {Nobody}]

Fields == {"status", "filing", "hearing", "lawyer", "archive"}

EmptyCase == [status |-> "draft", filing |-> 0, hearing |-> 0, lawyer |-> Nobody]

Steps == {"new", "loaded", "committed", "saved", "told", "done"}

Fresh == [pc |-> "new", actor |-> Admin, field |-> "archive", value |-> Nobody,
          before |-> EmptyCase, copy |-> EmptyCase]

Done == [Fresh EXCEPT !.pc = "done"]

(* Of a request that is over the model keeps the field it asked for. *)
Over(q) == [Done EXCEPT !.field = q.field]

NoEvent == [kind |-> "none"]

Idle == [pc |-> "idle", event |-> NoEvent, audience |-> {}]

(* The values a request may ask for. *)
Asked(field) ==
    CASE field = "status"  -> Targets
      [] field \in {"filing", "hearing"} -> Dates
      [] field = "lawyer"  -> Lawyers \cup {Nobody}
      [] field = "archive" -> {"archived"}

(* What a request asks is one of the values its field takes; an archival   *)
(* needs none, and when it is over it is forgotten.                        *)
RequestOK(q) ==
    /\ q \in [pc : Steps, actor : Users,
              field : Fields, value : {q.value}, before : Cases, copy : Cases]
    /\ q.pc # "done" /\ q.field # "archive" => q.value \in Asked(q.field)

WorkerStates ==
    [pc : {"idle", "taken", "resolved", "filtered"}, event : Events \cup {NoEvent},
     audience : SUBSET Users]

TypeOK ==
    /\ case \in Cases
    /\ requests = [r \in Requests |-> requests[r]]
    /\ \A r \in Requests : RequestOK(requests[r])
    /\ timeline \subseteq Requests
    /\ inbox \in Seq(Events) /\ Len(inbox) <= InboxSize
    /\ workers \in [Workers -> WorkerStates]
    /\ \A w \in Workers : workers[w].pc # "idle" => workers[w].event \in Events
    /\ service \in {"on", "draining", "off"}
    /\ feed \subseteq [to : Users, event : Events, recent : BOOLEAN]
    /\ since = [e \in DOMAIN since |-> since[e]]
    /\ DOMAIN since \subseteq Events
    /\ \A e \in DOMAIN since : since[e] \subseteq Users
    /\ stale \in BOOLEAN
    /\ mishaps \in 0 .. MaxMishaps

Init ==
    /\ case = [EmptyCase EXCEPT !.status = "open", !.lawyer = Incumbent]
    /\ requests = [r \in Requests |-> Fresh]
    /\ timeline = {}
    /\ inbox = <<>>
    /\ workers = [w \in Workers |-> Idle]
    /\ service = "on"
    /\ feed = {}
    /\ since = [e \in {} |-> {}]
    /\ stale = FALSE
    /\ mishaps = 0

Mishap ==
    /\ mishaps < MaxMishaps
    /\ mishaps' = mishaps + 1

-----------------------------------------------------------------------------
(* The rules of a case *)

STATUS_TRANSITIONS ==
    [s \in Statuses |->
        CASE s = "draft"    -> {"open", "archived"}
          [] s = "open"     -> {"in_progress", "waiting_for_hearing", "closed", "archived"}
          [] s = "in_progress" -> {"open", "waiting_for_hearing", "closed", "archived"}
          [] s = "waiting_for_hearing" -> {"open", "in_progress", "closed", "archived"}
          [] s = "closed"   -> {"open", "archived"}
          [] s = "archived" -> {"open"}]

CanTransition(from, to) == from = to \/ to \in STATUS_TRANSITIONS[from]

DatesInOrder(c) == c.filing > 0 /\ c.hearing > 0 => c.filing <= c.hearing

(* can_view: the assigned lawyer, and whoever holds cases:view-all. *)
Viewers(c) == {Admin} \cup ({c.lawyer} \ {Nobody})

-----------------------------------------------------------------------------
(* Requests: update_case and archive_case *)

With(c, field, value) ==
    CASE field = "status"  -> [c EXCEPT !.status = value]
      [] field = "filing"  -> [c EXCEPT !.filing = value]
      [] field = "hearing" -> [c EXCEPT !.hearing = value]
      [] field = "lawyer"  -> [c EXCEPT !.lawyer = value]
      [] field = "archive" -> [c EXCEPT !.status = "archived"]

(* What the validations ask of the copy; assigning and archiving are the   *)
(* administrator's.                                                        *)
Permitted(actor, field) ==
    /\ actor \in Viewers(case)
    /\ field \in {"lawyer", "archive"} => actor = Admin

(* What a request could tell from its own fields. *)
ValidAlone(c, field, value) == field = "status" => CanTransition(c.status, value)

Valid(c, field, value) ==
    /\ field = "status" => CanTransition(c.status, value)
    /\ DatesInOrder(With(c, field, value))

(* A request that is refused writes nothing, and is not modelled. *)
Load(r) ==
    /\ requests[r].pc = "new"
    /\ service = "on"
    /\ \E a \in Users, f \in Fields :
       \E v \in Asked(f) :
          /\ Permitted(a, f)
          /\ f = "archive" \/ Valid(case, f, v)
          /\ requests' = [requests EXCEPT ![r] =
                [pc |-> "loaded", actor |-> a, field |-> f, value |-> v,
                 before |-> case, copy |-> case]]
    /\ UNCHANGED <<case, timeline, noticeVars, since, stale, mishaps>>

(* Who may see the case, remembered for each event still to be handled. *)
Remember(c) == since' = [e \in DOMAIN since |-> since[e] \cup Viewers(c)]

(* repository.save: the UPDATE names the column that changed. *)
Commit(r) ==
    LET req == requests[r]
        new == With(req.copy, req.field, req.value)
    IN  /\ req.pc = "loaded"
        /\ case' = IF new = req.copy THEN case ELSE With(case, req.field, req.value)
        /\ requests' = [requests EXCEPT ![r].pc = "committed", ![r].copy = case']
        /\ stale' = (stale \/ case # req.copy)
        /\ Remember(case')
        /\ UNCHANGED <<timeline, noticeVars, mishaps>>

(* ... and its refresh: the copy becomes the row as it is by now. *)
Refresh(r) ==
    /\ requests[r].pc = "committed"
    /\ requests' = [requests EXCEPT ![r].pc = "saved", ![r].copy = case]
    /\ stale' = (stale \/ case # requests[r].copy)
    /\ UNCHANGED <<case, timeline, noticeVars, since, mishaps>>

StatusChanged(r) ==
    LET req == requests[r]
    IN  IF req.field = "archive" THEN req.before.status # "archived"
        ELSE req.copy.status # req.before.status

Event(r, k, u) == [by |-> r, actor |-> requests[r].actor, kind |-> k, about |-> u]

(* What a change of status to that of the row c is told as.  An archival   *)
(* is always one.                                                          *)
StatusRule(r, c) ==
    IF requests[r].field = "archive" \/ c.status = "archived" THEN "archived"
    ELSE IF requests[r].before.status = "archived" THEN "restored"
    ELSE IF c.status = "waiting_for_hearing" THEN "hearing"
    ELSE "status"

StatusNews(r, c) ==
    IF StatusChanged(r) THEN <<Event(r, StatusRule(r, c), Nobody)>> ELSE <<>>

(* The rest of an update: the assignment if the request named one - whom   *)
(* it assigned or, when it cleared the position, who was there - or the    *)
(* other fields.                                                           *)
OtherNews(r) ==
    LET req == requests[r]
    IN  CASE req.field = "lawyer" /\ req.copy.lawyer # Nobody ->
                <<Event(r, "assigned", req.copy.lawyer)>>
          [] req.field = "lawyer" /\ req.copy.lawyer = Nobody /\ req.before.lawyer # Nobody ->
                <<Event(r, "removed", req.before.lawyer)>>
          [] req.field \in {"filing", "hearing"} -> <<Event(r, "updated", Nobody)>>
          [] OTHER -> <<>>

(* handle: the inbox takes what it has room for and drops the rest.        *)
Kept(events) ==
    LET room == InboxSize - Len(inbox)
    IN  SubSeq(events, 1, IF Len(events) < room THEN Len(events) ELSE room)

(* The dispatcher's call of handle. *)
Announce(events) ==
    LET kept == Kept(events)
    IN  /\ inbox' = inbox \o kept
        /\ since' = [e \in DOMAIN since \cup {kept[i] : i \in DOMAIN kept} |->
                        IF e \in DOMAIN since THEN since[e] ELSE Viewers(case)]

(* _publish_status_change, or the end of an archival: the timeline entry,  *)
(* then the event.                                                         *)
PublishStatus(r) ==
    /\ requests[r].pc = "saved"
    /\ timeline' = IF StatusChanged(r) THEN timeline \cup {r} ELSE timeline
    /\ Announce(StatusNews(r, requests[r].copy))
    /\ requests' = [requests EXCEPT ![r].pc = "told"]
    /\ UNCHANGED <<case, workers, service, feed, stale, mishaps>>

(* The entry cannot be written, which is swallowed.  The rollback expires  *)
(* the copy: the event is put together from the row as it is by now.       *)
PublishUnrecorded(r) ==
    /\ requests[r].pc = "saved"
    /\ StatusChanged(r)
    /\ Mishap
    /\ Announce(StatusNews(r, case))
    /\ requests' = [requests EXCEPT ![r].pc = "told", ![r].copy = case]
    /\ UNCHANGED <<case, timeline, workers, service, feed, stale>>

(* Its entry is another one, of which the model keeps nothing.             *)
PublishRest(r) ==
    /\ requests[r].pc = "told"
    /\ Announce(OtherNews(r))
    /\ requests' = [requests EXCEPT ![r] = Over(@)]
    /\ UNCHANGED <<case, timeline, workers, service, feed, stale, mishaps>>

(* The database refuses the commit, or the refresh that follows it: what   *)
(* was committed stays, and is not announced.                              *)
RequestFails(r) ==
    /\ requests[r].pc \in {"loaded", "committed"}
    /\ Mishap
    /\ requests' = [requests EXCEPT ![r] = Over(@)]
    /\ UNCHANGED <<case, timeline, noticeVars, since, stale>>

-----------------------------------------------------------------------------
(* The notification worker *)

(* _work_forever: it takes events as long as it has not been told to stop. *)
Take(w) ==
    /\ service # "off"
    /\ workers[w].pc = "idle"
    /\ inbox # <<>>
    /\ workers' = [workers EXCEPT ![w] = [pc |-> "taken", event |-> Head(inbox), audience |-> {}]]
    /\ inbox' = Tail(inbox)
    /\ UNCHANGED <<caseVars, service, feed, since, mishaps>>

(* The audience of the rule: the assignee the payload names, or the people *)
(* of the case but for who did it ...                                      *)
Candidates(e) ==
    IF e.kind \in {"assigned", "removed"} THEN {e.about}
    ELSE ({case.lawyer, Admin} \ {Nobody}) \ {e.actor}

(* An assignee taken at the word of the payload. *)
AuthorizedUnchecked(us) == us

(* ... and of those, who may see the case now. *)
Authorized(us) == us \cap Viewers(case)

Resolve(w) ==
    /\ workers[w].pc = "taken"
    /\ workers' = [workers EXCEPT ![w].pc = "resolved",
                                  ![w].audience = Authorized(Candidates(workers[w].event))]
    /\ UNCHANGED <<caseVars, inbox, service, feed, since, mishaps>>

(* The same thing said: the rule, for this case. *)
Told(u, e) == \E n \in feed : n.to = u /\ n.event.kind = e.kind /\ n.recent

ToldOfEvent(u, e) == \E n \in feed : n.to = u /\ n.event = e

(* _filter_duplicates looking at the event alone. *)
FilterByEvent(w) ==
    /\ workers[w].pc = "resolved"
    /\ workers' = [workers EXCEPT ![w].pc = "filtered",
            ![w].audience = {u \in @ \ Muted : ~ToldOfEvent(u, workers[w].event)}]
    /\ UNCHANGED <<caseVars, inbox, service, feed, since, mishaps>>

(* _filter_by_preference and _filter_duplicates. *)
Filter(w) ==
    LET e == workers[w].event
    IN  /\ workers[w].pc = "resolved"
        /\ workers' = [workers EXCEPT ![w].pc = "filtered",
                ![w].audience = {u \in @ \ Muted : ~ToldOfEvent(u, e) /\ ~Told(u, e)}]
        /\ UNCHANGED <<caseVars, inbox, service, feed, since, mishaps>>

(* A failed lookup of preferences or duplicates admits everyone. *)
FilterFails(w) ==
    /\ workers[w].pc = "resolved"
    /\ Mishap
    /\ workers' = [workers EXCEPT ![w].pc = "filtered"]
    /\ UNCHANGED <<caseVars, inbox, service, feed, since>>

(* create_many: one transaction for the batch.  Announcing the rows on the *)
(* recipients' topics and handing them to the mail and message channels    *)
(* follow, outside of this model.                                          *)
Write(w) ==
    LET e == workers[w].event
    IN  /\ workers[w].pc = "filtered"
        /\ feed' = feed \cup {[to |-> u, event |-> e, recent |-> TRUE] : u \in workers[w].audience}
        /\ workers' = [workers EXCEPT ![w] = Idle]
        /\ UNCHANGED <<caseVars, inbox, service, since, mishaps>>

(* The recipients' lookup or the insert fails: nobody is told. *)
WorkerFails(w) ==
    /\ workers[w].pc \in {"taken", "filtered"}
    /\ Mishap
    /\ workers' = [workers EXCEPT ![w] = Idle]
    /\ UNCHANGED <<caseVars, inbox, service, feed, since>>

(* NOTIFICATION_DEDUPE_WINDOW_SECONDS have passed since a row was created. *)
Forget(n) ==
    /\ n.recent
    /\ feed' = (feed \ {n}) \cup {[n EXCEPT !.recent = FALSE]}
    /\ UNCHANGED <<caseVars, inbox, workers, service, since, mishaps>>

-----------------------------------------------------------------------------
(* Shutdown and crash *)

InProgress == {r \in Requests : requests[r].pc \in {"loaded", "committed", "saved", "told"}}

(* The workers told to stop first, the inbox abandoned. *)
StopAtOnce ==
    /\ service = "on"
    /\ InProgress = {}
    /\ service' = "off"
    /\ inbox' = <<>>
    /\ UNCHANGED <<caseVars, workers, feed, since, mishaps>>

(* subscriber.stop, called by the lifespan when the requests are over: the *)
(* workers go on until the inbox is empty, ...                             *)
Stop ==
    /\ service = "on"
    /\ InProgress = {}
    /\ service' = "draining"
    /\ UNCHANGED <<caseVars, inbox, workers, feed, since, mishaps>>

(* ... and are then told to stop, finishing what they hold. *)
Drained ==
    /\ service = "draining"
    /\ inbox = <<>>
    /\ service' = "off"
    /\ UNCHANGED <<caseVars, inbox, workers, feed, since, mishaps>>

(* The deadline of the drain, or of the join that follows it: what is      *)
(* queued or in hand is abandoned with the process.                        *)
GiveUp ==
    /\ service # "on"
    /\ inbox # <<>> \/ \E w \in Workers : workers[w].pc # "idle"
    /\ Mishap
    /\ service' = "off"
    /\ inbox' = <<>>
    /\ workers' = [w \in Workers |-> Idle]
    /\ UNCHANGED <<caseVars, feed, since>>

(* The next process starts with an empty inbox. *)
Start ==
    /\ service = "off"
    /\ \A w \in Workers : workers[w].pc = "idle"
    /\ service' = "on"
    /\ UNCHANGED <<caseVars, inbox, workers, feed, since, mishaps>>

(* The process dies between two steps: requests, inbox and workers with    *)
(* it.                                                                     *)
Crash ==
    /\ Mishap
    /\ requests' = [r \in Requests |-> IF r \in InProgress THEN Over(requests[r]) ELSE requests[r]]
    /\ inbox' = <<>>
    /\ workers' = [w \in Workers |-> Idle]
    /\ service' = "off"
    /\ UNCHANGED <<case, timeline, feed, since, stale>>

-----------------------------------------------------------------------------
(* The specification *)

RequestStep(r) ==
    Commit(r) \/ Refresh(r) \/ PublishStatus(r) \/ PublishUnrecorded(r) \/ PublishRest(r)

WorkerStep(w) == Take(w) \/ Resolve(w) \/ Filter(w) \/ Write(w)

Next ==
    \/ \E r \in Requests : Load(r) \/ RequestStep(r) \/ RequestFails(r)
    \/ \E w \in Workers : WorkerStep(w) \/ FilterFails(w) \/ WorkerFails(w)
    \/ \E n \in feed : Forget(n)
    \/ Stop \/ Drained \/ GiveUp \/ Start \/ Crash

Spec == Init /\ [][Next]_vars

(* The worker threads are scheduled, and a drain ends. *)
FairSpec ==
    /\ Spec
    /\ WF_vars(\E w \in Workers : WorkerStep(w))
    /\ WF_vars(Drained)

-----------------------------------------------------------------------------
(* Properties *)

(* Updates that see each other keep the case legal and the timeline right: *)
(* as long as no update missed what another committed, no hearing precedes *)
(* the filing and whoever the timeline names as changing the status asked  *)
(* for that (_validate_dates, _publish_status_change).                     *)
SerialUpdatesAreSound ==
    stale \/ /\ DatesInOrder(case)
             /\ \A r \in timeline : requests[r].field \in {"status", "archive"}

(* "Users should only receive notifications they are authorized to view":  *)
(* whoever is told of an event could see the case at some moment since it  *)
(* was published - the check is made when the worker resolves the          *)
(* audience, which may be later or earlier than a change of lawyer.        *)
ToldWereEntitled == \A n \in feed : n.to \in since[n.event]

(* Nobody is told the same thing twice within the window, unless a lookup  *)
(* failed (it holds for the single worker the settings prescribe).         *)
NoRepeatInWindow ==
    mishaps > 0 \/
    \A m, n \in feed :
        m.to = n.to /\ m.event.kind = n.event.kind /\ m.recent /\ n.recent => m = n

Says(kind, u) == \E n \in feed : n.to = u /\ n.event.kind = kind

Waiting(kind, u) == \E i \in DOMAIN inbox : inbox[i].kind = kind /\ inbox[i].about = u

(* An assignment whose event was accepted reaches the lawyer's feed, even  *)
(* across a shutdown, unless the lawyer lost the case first, muted it, or  *)
(* something failed.                                                       *)
AssignedAreTold ==
    \A u \in Lawyers \ Muted :
        Waiting("assigned", u) ~> (Says("assigned", u) \/ case.lawyer # u \/ mishaps > 0)

=============================================================================
