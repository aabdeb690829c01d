---------------------------- MODULE EventChannel ----------------------------
(***************************************************************************)
(* The real-time channel: the event dispatcher (services/events.py), the   *)
(* connection manager with its dispatch thread (websocket/manager.py,      *)
(* websocket/connection.py), the endpoint of a connection                  *)
(* (api/v1/websocket/router.py) and one browser tab that reconnects        *)
(* (web/lib/realtime/client.ts, web/components/realtime).                  *)
(*                                                                         *)
(* An event says that something changed and is not kept: a tab that did    *)
(* not receive it shows old data until it reads again.  Event e is the     *)
(* e-th published, so e is its sequence number as well.  Connection c is   *)
(* the c-th the tab opens.  The other users' connections share only the    *)
(* inbox, so one tab is enough.                                            *)
(*                                                                         *)
(* Between two actions of one thread the others may run: a grant and its   *)
(* entry in the index are two steps.  The endpoints share one loop, which   *)
(* does nothing else until a step of it is done.  The two looks at a grant  *)
(* before a delivery are one step, and the decision to deliver is one with  *)
(* the call of enqueue on the loop.                                         *)
(***************************************************************************)
EXTENDS Naturals, Sequences, FiniteSets

CONSTANTS
    Topics,          \* topics of one case: the case and its documents
    CaseTopic,       \* the topic of the case
    NoTopic,         \* no topic
    Publishers,      \* threads that can be inside publish
    InboxSize,       \* the manager's inbox
    QueueSize,       \* REALTIME_SEND_QUEUE_SIZE
    WireSize,        \* bound: frames on their way to the tab
    MaxPerUser,      \* REALTIME_MAX_CONNECTIONS_PER_USER
    Ttl,             \* REALTIME_AUTHORIZATION_TTL_SECONDS, in ticks
    MaxConnections,  \* bound: connections the tab opens
    MaxEvents,       \* bound: events
    MaxTurns         \* bound: panels that open or close, withdrawals of access
                     \* and lookups that raise

ASSUME ChannelConstants ==
    /\ IsFiniteSet(Topics) /\ CaseTopic \in Topics /\ NoTopic \notin Topics
    /\ Publishers \in Nat \ {0}
    /\ InboxSize \in Nat \ {0}
    /\ QueueSize \in Nat \ {0}
    /\ WireSize \in Nat \ {0}
    /\ MaxPerUser \in Nat \ {0}
    /\ Ttl \in Nat
    /\ {MaxConnections, MaxEvents, MaxTurns} \subseteq Nat

VARIABLES
    log,        \* the topic of each event, in the order of their sequence
    publishing, \* events with a sequence that no subscriber was given yet
    inbox,      \* ConnectionManager._inbox
    thread,     \* the dispatch thread
    access,     \* the topics whose resource the user may see
    lostFor,    \* ticks since access to a topic was withdrawn, at most Ttl; 0 before
    up,         \* the connections whose endpoint runs
    live,       \* ConnectionManager._connections
    index,      \* ConnectionManager._by_topic
    closed,     \* the connections whose "closed" is set
    following,  \* the topics of ClientConnection._grants
    age,        \* ticks since a grant's authorized_at, at most Ttl
    sendq,      \* ClientConnection._queue
    commands,   \* frames from the tab the endpoint has not read
    reader,     \* _read_frames of a connection, with its pool thread
    wire,       \* frames from the endpoint the tab has not read
    tab,        \* RealtimeClient and the provider
    known,      \* events the tab received or whose change it has read since
    owed,       \* history: events a following connection should be given
    overtaken,  \* history: events a later one got past: in the hand-over, or at the
                \* tab on a connection that has not answered its "resume"
    unchecked,  \* history: grants renewed without a decision
    crossed,    \* history: grants given while the same subscription, or its
                \* connection, was being ended
    turns       \* counter for the bound

serverVars == <<log, publishing, inbox, thread>>
accessVars == <<access, lostFor>>
grantVars  == <<index, following, age, unchecked, crossed>>
connVars   == <<up, live, closed, sendq, commands, reader, wire>>
tabVars    == <<tab, known>>
vars == <<serverVars, accessVars, grantVars, connVars, tabVars, owed, overtaken, turns>>

Conns  == 1 .. MaxConnections
Events == 1 .. MaxEvents
NoConn == 0

(* The topics an event is routed by: its own and that of its case. *)
Routes(t) == {t, CaseTopic}

IdleThread == [pc |-> "idle", event |-> 0, todo |-> {}, conn |-> NoConn,
               topic |-> NoTopic, allowed |-> FALSE]
RoutingTo(e, todo) == [pc |-> "routing", event |-> e, todo |-> todo, conn |-> NoConn,
                       topic |-> NoTopic, allowed |-> FALSE]
Listening == [todo |-> {}, topic |-> NoTopic, step |-> "waits"]
NewTab     == [conn |-> NoConn, phase |-> "down", wanted |-> {}, last |-> 0,
               missed |-> FALSE, effect |-> FALSE, resumed |-> 0]

Commands == [kind : {"subscribe", "unsubscribe"}, topics : SUBSET Topics]
              \cup [kind : {"resume"}, last : Nat]
Frames   == [kind : {"ready"}] \cup [kind : {"event"}, event : Events]
              \cup [kind : {"resumed"}, gap : BOOLEAN, upto : 0..MaxEvents]

ThreadStates ==
    {IdleThread}
      \cup [pc : {"routing"}, event : Events, todo : (SUBSET Conns) \ {{}},
            conn : {NoConn}, topic : {NoTopic}, allowed : {FALSE}]
      \cup [pc : {"rechecked", "revoked"}, event : Events, todo : (SUBSET Conns) \ {{}},
            conn : Conns, topic : Topics, allowed : BOOLEAN]

(* A reader waits for a frame, takes the topics of a "subscribe" one by    *)
(* one, is at one topic of a command, or has left its loop.                *)
Readers ==
    [todo : SUBSET Topics, topic : {NoTopic}, step : {"waits", "subscribes", "ended"}]
      \cup [todo : SUBSET Topics, topic : Topics,
            step : {"renews", "grants", "indexes", "discards"}]

TabStates ==
    [conn : Conns \cup {NoConn}, phase : {"down", "open", "ready"}, wanted : SUBSET Topics,
     last : 0..MaxEvents, missed : BOOLEAN, effect : BOOLEAN, resumed : 0..MaxEvents]

ServerTypes ==
    /\ log \in Seq(Topics) /\ Len(log) <= MaxEvents
    /\ publishing \subseteq DOMAIN log
    /\ inbox \in Seq(Events) /\ Len(inbox) <= InboxSize
    /\ thread \in ThreadStates

AccessTypes ==
    /\ access \subseteq Topics
    /\ lostFor \in [Topics -> 0..Ttl]

GrantTypes ==
    /\ index \in [Topics -> SUBSET Conns]
    /\ following \in [Conns -> SUBSET Topics]
    /\ age \in [Conns -> [Topics -> 0..Ttl]]
    /\ unchecked \subseteq Conns \X Topics
    /\ crossed \subseteq Conns \X Topics

ConnTypes ==
    /\ up \subseteq Conns /\ live \subseteq up
    /\ closed \subseteq Conns
    /\ sendq \in [Conns -> Seq(Events)]
    /\ \A c \in Conns : Len(sendq[c]) <= QueueSize
    /\ commands \in [Conns -> Seq(Commands)]
    /\ reader \in [Conns -> Readers]
    /\ wire \in [Conns -> Seq(Frames)]

TabTypes ==
    /\ tab \in TabStates /\ (tab.conn = NoConn => tab.phase = "down")
    /\ known \subseteq Events

TypeOK ==
    /\ ServerTypes /\ AccessTypes /\ GrantTypes /\ ConnTypes /\ TabTypes
    /\ owed \subseteq Conns \X Events
    /\ overtaken \subseteq Events
    /\ turns \in Nat

Init ==
    /\ log = <<>> /\ publishing = {} /\ inbox = <<>>
    /\ thread = IdleThread
    /\ access = Topics
    /\ lostFor = [t \in Topics |-> 0]
    /\ up = {} /\ live = {} /\ closed = {}
    /\ index = [t \in Topics |-> {}]
    /\ following = [c \in Conns |-> {}]
    /\ age = [c \in Conns |-> [t \in Topics |-> 0]]
    /\ sendq = [c \in Conns |-> <<>>]
    /\ commands = [c \in Conns |-> <<>>]
    /\ reader = [c \in Conns |-> Listening]
    /\ wire = [c \in Conns |-> <<>>]
    /\ \E open \in SUBSET Topics : tab = [NewTab EXCEPT !.wanted = open]
    /\ known = {} /\ owed = {} /\ overtaken = {}
    /\ unchecked = {} /\ crossed = {}
    /\ turns = 0

-----------------------------------------------------------------------------
(* Publishing *)

Abandoned(c) == tab.conn # c \/ tab.phase = "down"

(* An "unsubscribe" of t is waiting: the tab left t and may be back. *)
Leaving(c, t) ==
    \E i \in DOMAIN commands[c] :
        commands[c][i].kind = "unsubscribe" /\ t \in commands[c][i].topics

(* The connections that follow an event's topic, for a tab that wants it.  *)
Followers(e) ==
    {c \in live \ closed :
        /\ ~Abandoned(c)
        /\ \E t \in Routes(log[e]) \cap tab.wanted \cap access :
             c \in index[t] /\ t \in following[c] /\ ~Leaving(c, t)}

(* What nobody can count on any more when a subscription to t ends. *)
Without(t) == {p \in owed : t \notin Routes(log[p[2]])}

(* A grant that is not in the index yet, and one that is still there       *)
(* after the endpoint or the dispatch thread took it back.                 *)
Indexing(c, t)   == reader[c].topic = t /\ reader[c].step = "indexes"
Discarding(c, t) == reader[c].topic = t /\ reader[c].step = "discards"
Revoking(c, t)   == thread.pc = "revoked" /\ thread.conn = c /\ thread.topic = t

(* EventDispatcher._build: the next sequence, under the dispatcher's lock. *)
Build(t) ==
    /\ Len(log) < MaxEvents
    /\ Cardinality(publishing) < Publishers
    /\ log' = Append(log, t)
    /\ publishing' = publishing \cup {Len(log) + 1}
    /\ UNCHANGED <<inbox, thread, accessVars, grantVars, connVars, tabVars, owed, overtaken, turns>>

(* EventDispatcher._deliver, outside that lock, and ConnectionManager      *)
(* .handle: a full inbox drops the event.                                  *)
HandOver(e) ==
    /\ e \in publishing
    /\ publishing' = publishing \ {e}
    /\ \/ /\ Len(inbox) < InboxSize
          /\ inbox' = Append(inbox, e)
          /\ owed' = owed \cup (Followers(e) \X {e})
       \/ /\ Len(inbox) = InboxSize
          /\ UNCHANGED <<inbox, owed>>
    /\ overtaken' = IF \E later \in DOMAIN log : later > e /\ later \notin publishing
                    THEN overtaken \cup {e} ELSE overtaken
    /\ UNCHANGED <<log, thread, accessVars, grantVars, connVars, tabVars, turns>>

-----------------------------------------------------------------------------
(* The dispatch thread *)

(* _candidates: the followers of any of the event's topics. *)
Candidates(e) == {c \in live \ closed : \E t \in Routes(log[e]) : c \in index[t]}

(* The dispatch thread takes an event and looks them up under the lock. *)
TakeEvent ==
    LET candidates == Candidates(Head(inbox)) IN
    /\ thread = IdleThread
    /\ inbox # <<>>
    /\ inbox' = Tail(inbox)
    /\ thread' = IF candidates = {} THEN IdleThread ELSE RoutingTo(Head(inbox), candidates)
    /\ UNCHANGED <<log, publishing, accessVars, grantVars, connVars, tabVars, owed, overtaken, turns>>

(* _delivery_topic: the event's own topic before that of its case. *)
DeliveryTopic(c, e) ==
    IF log[e] \in following[c] THEN log[e]
    ELSE IF CaseTopic \in following[c] THEN CaseTopic ELSE NoTopic

Served(c) ==
    IF thread.todo = {c} THEN IdleThread
    ELSE RoutingTo(thread.event, thread.todo \ {c})

(* Variant: a full queue loses the frame and nothing more.                 *)
EnqueueOrDrop(c, e) ==
    /\ sendq' = IF c \in closed \/ Len(sendq[c]) = QueueSize THEN sendq
                ELSE [sendq EXCEPT ![c] = Append(@, e)]
    /\ UNCHANGED closed

(* ClientConnection.enqueue on the loop.  A full queue closes the          *)
(* connection, a closed one takes no more frames.  An event is routed once, *)
(* so the window of delivered ids never refuses one.                       *)
Enqueue(c, e) ==
    \/ /\ c \in closed
       /\ UNCHANGED <<sendq, closed>>
    \/ /\ c \notin closed /\ Len(sendq[c]) < QueueSize
       /\ sendq' = [sendq EXCEPT ![c] = Append(@, e)]
       /\ UNCHANGED closed
    \/ /\ c \notin closed /\ Len(sendq[c]) = QueueSize
       /\ closed' = closed \cup {c}
       /\ UNCHANGED sendq

(* Variant: a grant as old as the TTL is still honoured.                   *)
FreshAtTtl(c, t) == age[c][t] <= Ttl

(* grant_is_fresh *)
Fresh(c, t) == age[c][t] < Ttl

(* _deliver on a connection that follows none of the topics any more. *)
Skip(c) ==
    /\ thread.pc = "routing" /\ c \in thread.todo
    /\ DeliveryTopic(c, thread.event) = NoTopic
    /\ thread' = Served(c)
    /\ UNCHANGED <<log, publishing, inbox, accessVars, grantVars, connVars, tabVars,
                   owed, overtaken, turns>>

(* _deliver on a fresh grant, which takes no query. *)
DeliverFresh(c) ==
    LET t == DeliveryTopic(c, thread.event) IN
    /\ thread.pc = "routing" /\ c \in thread.todo
    /\ t # NoTopic /\ Fresh(c, t)
    /\ Enqueue(c, thread.event)
    /\ thread' = Served(c)
    /\ UNCHANGED <<log, publishing, inbox, accessVars, grantVars, up, live, commands, reader,
                   wire, tabVars, owed, overtaken, turns>>

(* The answer of RealtimeAccessPolicy: what the database says, or a refusal *)
(* because the lookup raised.                                              *)
Decision(t, allowed) ==
    \/ /\ allowed = (t \in access)
       /\ UNCHANGED turns
    \/ /\ ~allowed
       /\ turns < MaxTurns
       /\ turns' = turns + 1

(* _authorized on a stale grant: the database is asked again. *)
Recheck(c) ==
    LET t == DeliveryTopic(c, thread.event) IN
    /\ thread.pc = "routing" /\ c \in thread.todo
    /\ t # NoTopic /\ ~Fresh(c, t)
    /\ \E allowed \in BOOLEAN :
         /\ Decision(t, allowed)
         /\ thread' = [pc |-> "rechecked", event |-> thread.event, todo |-> thread.todo,
                       conn |-> c, topic |-> t, allowed |-> allowed]
    /\ UNCHANGED <<log, publishing, inbox, accessVars, grantVars, connVars, tabVars, owed, overtaken>>

(* Allowed: the grant is renewed, whatever became of it during the query,  *)
(* and the event is delivered.  The index is not looked at.                *)
Renew(c) ==
    LET t == thread.topic IN
    /\ thread.pc = "rechecked" /\ c = thread.conn
    /\ thread.allowed
    /\ following' = [following EXCEPT ![c] = @ \cup {t}]
    /\ age' = [age EXCEPT ![c][t] = 0]
    /\ unchecked' = unchecked \ {<<c, t>>}
    /\ crossed' = IF t \in following[c] THEN crossed ELSE crossed \cup {<<c, t>>}
    /\ Enqueue(c, thread.event)
    /\ thread' = Served(c)
    /\ UNCHANGED <<log, publishing, inbox, accessVars, index, up, live, commands, reader, wire,
                   tabVars, owed, overtaken, turns>>

(* unsubscribe of one topic, first half: the grant is taken back. *)
TakeBack(c, t) == following' = [following EXCEPT ![c] = @ \ {t}]

(* Second half: the connection leaves the index of the topic, under the    *)
(* manager's lock.  A grant given meanwhile is left without its entry, and *)
(* nobody can count on it.                                                 *)
Discard(c, t) ==
    /\ index' = [index EXCEPT ![t] = @ \ {c}]
    /\ owed' = IF t \in following[c] THEN Without(t) ELSE owed

(* Refused: the subscription is revoked.  No frame tells the tab. *)
Revoke(c) ==
    LET t == thread.topic IN
    /\ thread.pc = "rechecked" /\ c = thread.conn
    /\ ~thread.allowed
    /\ TakeBack(c, t)
    /\ crossed' = IF Indexing(c, t) THEN crossed \cup {<<c, t>>} ELSE crossed
    /\ owed' = Without(t)
    /\ thread' = IF t \in following[c] THEN [thread EXCEPT !.pc = "revoked"] ELSE Served(c)
    /\ UNCHANGED <<log, publishing, inbox, accessVars, index, age, unchecked, connVars, tabVars,
                   overtaken, turns>>

DropRevoked(c) ==
    /\ thread.pc = "revoked" /\ c = thread.conn
    /\ Discard(c, thread.topic)
    /\ thread' = Served(c)
    /\ UNCHANGED <<log, publishing, inbox, accessVars, following, age, unchecked, crossed, connVars,
                   tabVars, overtaken, turns>>

-----------------------------------------------------------------------------
(* The endpoint of a connection *)

(* The loop is not inside an unsubscription. *)
LoopFree == \A c \in Conns : reader[c].step # "discards"

(* Variant: the index is left to the next event that finds nobody.         *)
RemovedLater(c, byTopic) == byTopic

(* _remove_locked: the connection leaves the index of every topic it follows. *)
Removed(c, byTopic) == [t \in Topics |-> IF t \in following[c] THEN byTopic[t] \ {c} ELSE byTopic[t]]

(* Grants of the connection whose entries are to be made after it is gone. *)
Overlapped(c) == {<<c, t>> : t \in {u \in Topics : Indexing(c, u)}}

Oldest == CHOOSE c \in live : \A d \in live : c <= d

(* The tab opens a connection and authenticates; the manager registers it, *)
(* evicts the user's oldest one at the limit, and "ready" is sent.         *)
Connect ==
    LET c == tab.conn + 1 IN
    /\ tab.phase = "down" /\ LoopFree
    /\ c \in Conns
    /\ IF Cardinality(live) >= MaxPerUser
       THEN /\ live' = (live \ {Oldest}) \cup {c}
            /\ index' = Removed(Oldest, index)
            /\ closed' = closed \cup {Oldest}
            /\ crossed' = crossed \cup Overlapped(Oldest)
       ELSE live' = live \cup {c} /\ UNCHANGED <<index, closed, crossed>>
    /\ up' = up \cup {c}
    /\ wire' = [wire EXCEPT ![c] = <<[kind |-> "ready"]>>]
    /\ tab' = [tab EXCEPT !.conn = c, !.phase = "open", !.resumed = 0]
    /\ UNCHANGED <<serverVars, accessVars, following, age, unchecked, sendq, commands,
                   reader, known, owed, overtaken, turns>>

(* The reader of a connection that is closed while it waits for a frame    *)
(* applies one more.                                                       *)
Reads(c, kind) ==
    /\ c \in up /\ LoopFree
    /\ reader[c].step = "waits"
    /\ commands[c] # <<>>
    /\ Head(commands[c]).kind = kind

(* The rest of a command: more topics, the next frame, or the end of the   *)
(* loop when the connection is closed.                                     *)
GoesOnWith(c, todo) ==
    reader' = [reader EXCEPT ![c] =
        [todo |-> todo, topic |-> NoTopic,
         step |-> IF todo # {} THEN "subscribes" ELSE IF c \in closed THEN "ended" ELSE "waits"]]

(* Variant: the answer to "resume" leaves out what happened since.         *)
ResumeWithoutGap(c) ==
    LET last == Head(commands[c]).last IN
    /\ Reads(c, "resume")
    /\ Len(wire[c]) < WireSize
    /\ commands' = [commands EXCEPT ![c] = Tail(@)]
    /\ wire' = [wire EXCEPT ![c] = Append(@, [kind |-> "resumed", gap |-> FALSE, upto |-> Len(log)])]
    /\ GoesOnWith(c, {})
    /\ UNCHANGED <<serverVars, accessVars, grantVars, up, live, closed, sendq, tabVars,
                   owed, overtaken, turns>>

(* _apply of "resume": answered from the dispatcher's current sequence.    *)
Resume(c) ==
    LET last == Head(commands[c]).last IN
    /\ Reads(c, "resume")
    /\ Len(wire[c]) < WireSize
    /\ commands' = [commands EXCEPT ![c] = Tail(@)]
    /\ wire' = [wire EXCEPT ![c] = Append(@, [kind |-> "resumed", gap |-> last > 0 /\ Len(log) > last,
                                              upto |-> Len(log)])]
    /\ GoesOnWith(c, {})
    /\ UNCHANGED <<serverVars, accessVars, grantVars, up, live, closed, sendq, tabVars,
                   owed, overtaken, turns>>

(* _apply of "subscribe": a pool thread takes the topics one by one. *)
ReadSubscribe(c) ==
    /\ Reads(c, "subscribe")
    /\ commands' = [commands EXCEPT ![c] = Tail(@)]
    /\ GoesOnWith(c, Head(commands[c]).topics)
    /\ UNCHANGED <<serverVars, accessVars, grantVars, up, live, closed, sendq, wire, tabVars,
                   owed, overtaken, turns>>

(* subscribe, topic by topic, not stopped when the connection is released. *)
TakesUp(c, t, step) ==
    reader' = [reader EXCEPT ![c] = [todo |-> reader[c].todo, topic |-> t, step |-> step]]

(* A topic that is followed already has its grant renewed without a        *)
(* decision, even if it was revoked since the look at it; the index is not *)
(* looked at.                                                              *)
FindFollowed(c, t) ==
    /\ reader[c].step = "subscribes" /\ t \in reader[c].todo
    /\ t \in following[c]
    /\ TakesUp(c, t, "renews")
    /\ UNCHANGED <<serverVars, accessVars, grantVars, up, live, closed, sendq, commands, wire,
                   tabVars, owed, overtaken, turns>>

Decide(c, t) ==
    /\ reader[c].step = "subscribes" /\ t \in reader[c].todo
    /\ t \notin following[c]
    /\ \/ Decision(t, TRUE) /\ TakesUp(c, t, "grants")
       \/ Decision(t, FALSE) /\ GoesOnWith(c, reader[c].todo \ {t})
    /\ UNCHANGED <<serverVars, accessVars, grantVars, up, live, closed, sendq, commands, wire,
                   tabVars, owed, overtaken>>

AtStep(c, step) == reader[c].step = step
Done(c) == GoesOnWith(c, reader[c].todo \ {reader[c].topic})

RenewFollowed(c) ==
    LET t == reader[c].topic IN
    /\ AtStep(c, "renews")
    /\ following' = [following EXCEPT ![c] = @ \cup {t}]
    /\ age' = [age EXCEPT ![c][t] = 0]
    /\ unchecked' = unchecked \cup {<<c, t>>}
    /\ crossed' = IF t \in following[c] THEN crossed ELSE crossed \cup {<<c, t>>}
    /\ Done(c)
    /\ UNCHANGED <<serverVars, accessVars, index, up, live, closed, sendq, commands, wire, tabVars,
                   owed, overtaken, turns>>

Grant(c) ==
    LET t == reader[c].topic IN
    /\ AtStep(c, "grants")
    /\ following' = [following EXCEPT ![c] = @ \cup {t}]
    /\ age' = [age EXCEPT ![c][t] = 0]
    /\ unchecked' = unchecked \ {<<c, t>>}
    /\ crossed' = IF c \in live /\ ~Revoking(c, t) THEN crossed ELSE crossed \cup {<<c, t>>}
    /\ reader' = [reader EXCEPT ![c].step = "indexes"]
    /\ UNCHANGED <<serverVars, accessVars, index, up, live, closed, sendq, commands, wire, tabVars,
                   owed, overtaken, turns>>

IndexGrant(c) ==
    /\ AtStep(c, "indexes")
    /\ index' = [index EXCEPT ![reader[c].topic] = @ \cup {c}]
    /\ Done(c)
    /\ UNCHANGED <<serverVars, accessVars, following, age, unchecked, crossed, up, live, closed,
                   sendq, commands, wire, tabVars, owed, overtaken, turns>>

(* _apply of "unsubscribe", on the loop. *)
ReadUnsubscribe(c) ==
    /\ Reads(c, "unsubscribe")
    /\ commands' = [commands EXCEPT ![c] = Tail(@)]
    /\ \E t \in Head(commands[c]).topics :
         /\ TakeBack(c, t)
         /\ IF t \in following[c]
            THEN reader' = [reader EXCEPT ![c] = [todo |-> {}, topic |-> t, step |-> "discards"]]
            ELSE GoesOnWith(c, {})
    /\ UNCHANGED <<serverVars, accessVars, index, age, unchecked, crossed, up, live, closed, sendq,
                   wire, tabVars, owed, overtaken, turns>>

(* Grants and index agree again when nothing came in between. *)
DropUnsubscribed(c) ==
    LET t == reader[c].topic IN
    /\ AtStep(c, "discards")
    /\ Discard(c, t)
    /\ crossed' = IF t \in following[c] THEN crossed ELSE crossed \ {<<c, t>>}
    /\ Done(c)
    /\ UNCHANGED <<serverVars, accessVars, following, age, unchecked, up, live, closed, sendq,
                   commands, wire, tabVars, overtaken, turns>>

(* _write_frames: the oldest queued frame goes out while the connection is *)
(* not closed.  What is queued when it closes is not sent.                 *)
Write(c) ==
    /\ c \in up \ closed /\ LoopFree
    /\ ~Abandoned(c)
    /\ sendq[c] # <<>>
    /\ Len(wire[c]) < WireSize
    /\ sendq' = [sendq EXCEPT ![c] = Tail(@)]
    /\ wire' = [wire EXCEPT ![c] = Append(@, [kind |-> "event", event |-> Head(sendq[c])])]
    /\ UNCHANGED <<serverVars, accessVars, grantVars, up, live, closed, commands, reader, tabVars,
                   owed, overtaken, turns>>

(* The endpoint ends: its tasks are cancelled and unregister releases the  *)
(* connection, unless an eviction did.                                     *)
Release(c) ==
    /\ c \in up /\ LoopFree
    /\ c \in closed \/ Abandoned(c)
    /\ up' = up \ {c}
    /\ live' = live \ {c}
    /\ index' = IF c \in live THEN Removed(c, index) ELSE index
    /\ crossed' = crossed \cup Overlapped(c)
    /\ closed' = IF c \in live THEN closed \cup {c} ELSE closed
    /\ sendq' = [sendq EXCEPT ![c] = <<>>]
    /\ commands' = [commands EXCEPT ![c] = <<>>]
    /\ UNCHANGED <<serverVars, accessVars, following, age, unchecked, reader, wire,
                   tabVars, owed, overtaken, turns>>

-----------------------------------------------------------------------------
(* The tab *)

Told(command) ==
    IF Abandoned(tab.conn) THEN commands
    ELSE [commands EXCEPT ![tab.conn] = Append(@, command)]

(* A panel opens: it reads what it shows and follows its topic.  Nothing   *)
(* is sent while no socket is open.                                        *)
Follow(t) ==
    /\ t \notin tab.wanted
    /\ turns < MaxTurns
    /\ turns' = turns + 1
    /\ tab' = [tab EXCEPT !.wanted = @ \cup {t}]
    /\ known' = known \cup {e \in DOMAIN log : t \in Routes(log[e])}
    /\ commands' = Told([kind |-> "subscribe", topics |-> {t}])
    /\ UNCHANGED <<serverVars, accessVars, grantVars, up, live, closed, sendq, reader, wire,
                   owed, overtaken>>

Unfollow(t) ==
    /\ t \in tab.wanted
    /\ turns < MaxTurns
    /\ turns' = turns + 1
    /\ tab' = [tab EXCEPT !.wanted = @ \ {t}]
    /\ owed' = Without(t)
    /\ commands' = Told([kind |-> "unsubscribe", topics |-> {t}])
    /\ UNCHANGED <<serverVars, accessVars, grantVars, up, live, closed, sendq, reader, wire,
                   known, overtaken>>

Receives(kind) ==
    /\ tab.phase # "down"
    /\ wire[tab.conn] # <<>>
    /\ Head(wire[tab.conn]).kind = kind
    /\ wire' = [wire EXCEPT ![tab.conn] = Tail(@)]

(* handleReady: the status is "connected", the position is declared and    *)
(* every topic is asked for again.                                         *)
HandleReady ==
    LET resume    == IF tab.last > 0 THEN <<[kind |-> "resume", last |-> tab.last]>> ELSE <<>>
        subscribe == IF tab.wanted # {} THEN <<[kind |-> "subscribe", topics |-> tab.wanted]>>
                     ELSE <<>>
    IN
    /\ Receives("ready")
    /\ tab' = [tab EXCEPT !.phase = "ready", !.effect = TRUE]
    /\ commands' = [commands EXCEPT ![tab.conn] = @ \o resume \o subscribe]
    /\ UNCHANGED <<serverVars, accessVars, grantVars, up, live, closed, sendq, reader,
                   known, owed, overtaken, turns>>

(* What older connections owed from before event e, which the tab receives *)
(* with no answer to "resume": none was sent, for want of a position, or a *)
(* panel subscribed before "ready".  Its position leaves them behind.      *)
PassedBy(e) ==
    IF tab.resumed > 0 THEN {} ELSE {p[2] : p \in {q \in owed : q[1] # tab.conn /\ q[2] < e}}

(* handleEvent: the caches the event makes stale are read again. *)
HandleEvent ==
    LET e == Head(wire[tab.conn]).event IN
    /\ Receives("event")
    /\ known' = known \cup {e}
    /\ tab' = [tab EXCEPT !.last = IF e > @ THEN e ELSE @]
    /\ overtaken' = overtaken \cup PassedBy(e)
    /\ UNCHANGED <<serverVars, accessVars, grantVars, up, live, closed, sendq, commands, reader,
                   owed, turns>>

HandleResumed ==
    LET frame == Head(wire[tab.conn]) IN
    /\ Receives("resumed")
    /\ tab' = [tab EXCEPT !.missed = @ \/ frame.gap, !.resumed = frame.upto]
    /\ UNCHANGED <<serverVars, accessVars, grantVars, up, live, closed, sendq, commands, reader,
                   known, owed, overtaken, turns>>

(* The provider's effect runs once after each change of the status: with   *)
(* missed events it invalidates every query.                               *)
RecoverFromGap ==
    /\ tab.phase = "ready" /\ tab.effect
    /\ tab' = [tab EXCEPT !.effect = FALSE, !.missed = FALSE]
    /\ known' = IF tab.missed THEN DOMAIN log ELSE known
    /\ UNCHANGED <<serverVars, accessVars, grantVars, connVars, owed, overtaken, turns>>

(* handleClose: the socket is lost, or the server closed it. *)
Lose ==
    /\ tab.phase # "down"
    /\ tab' = [tab EXCEPT !.phase = "down", !.effect = FALSE, !.resumed = 0]
    /\ wire' = [wire EXCEPT ![tab.conn] = <<>>]
    /\ commands' = [commands EXCEPT ![tab.conn] = <<>>]
    /\ UNCHANGED <<serverVars, accessVars, grantVars, up, live, closed, sendq, reader, known,
                   owed, overtaken, turns>>

-----------------------------------------------------------------------------
(* Access and time *)

(* The user is taken off the case, the document is deleted, and so on. *)
Withdraw(t) ==
    /\ t \in access
    /\ turns < MaxTurns
    /\ turns' = turns + 1
    /\ access' = access \ {t}
    /\ lostFor' = [lostFor EXCEPT ![t] = 0]
    /\ owed' = Without(t)
    /\ UNCHANGED <<serverVars, grantVars, connVars, tabVars, overtaken>>

Older(n) == IF n < Ttl THEN n + 1 ELSE n

(* A tick is longer than a lookup and what follows it: none is under way   *)
(* when the clock moves.                                                   *)
Tick ==
    /\ thread.pc \in {"idle", "routing"}
    /\ \A c \in Conns : reader[c].topic = NoTopic
    /\ age' = [c \in Conns |-> [t \in Topics |-> IF t \in following[c] THEN Older(age[c][t]) ELSE 0]]
    /\ lostFor' = [t \in Topics |-> IF t \in access THEN 0 ELSE Older(lostFor[t])]
    /\ UNCHANGED <<serverVars, access, index, following, unchecked, crossed, connVars,
                   tabVars, owed, overtaken, turns>>

-----------------------------------------------------------------------------

DispatchStep ==
    \/ TakeEvent
    \/ \E c \in Conns : Skip(c) \/ DeliverFresh(c) \/ Recheck(c) \/ Renew(c) \/ Revoke(c)
                          \/ DropRevoked(c)

EndpointStep(c) ==
    \/ Resume(c) \/ ReadSubscribe(c) \/ ReadUnsubscribe(c) \/ DropUnsubscribed(c)
    \/ RenewFollowed(c) \/ Grant(c) \/ IndexGrant(c)
    \/ \E t \in Topics : FindFollowed(c, t) \/ Decide(c, t)

TabReads == HandleReady \/ HandleEvent \/ HandleResumed

Next ==
    \/ \E t \in Topics : Build(t)
    \/ \E e \in Events : HandOver(e)
    \/ DispatchStep
    \/ \E c \in Conns : EndpointStep(c)
    \/ \E c \in Conns : Write(c)
    \/ \E c \in Conns : Release(c)
    \/ Connect
    \/ TabReads
    \/ RecoverFromGap
    \/ Lose
    \/ \E t \in Topics : Follow(t) \/ Unfollow(t)
    \/ \E t \in Topics : Withdraw(t)
    \/ Tick

Spec == Init /\ [][Next]_vars

(* What threads and tasks have begun goes on, a socket the server closed is *)
(* seen closed once its last frame is read, and the tab reconnects.  Their  *)
(* work is used up, so one fairness condition is enough for all of it.     *)
Progress ==
    \/ \E e \in Events : HandOver(e)
    \/ DispatchStep
    \/ \E c \in Conns : EndpointStep(c) \/ Write(c) \/ Release(c)
    \/ Connect
    \/ TabReads
    \/ RecoverFromGap
    \/ tab.conn \in Conns \ up /\ wire[tab.conn] = <<>> /\ Lose

Fairness == WF_vars(Progress)

FairSpec == Spec /\ Fairness

-----------------------------------------------------------------------------
(* Properties *)

(* A connection that resumed has told the tab of a gap, if one of the      *)
(* events it was owed before is unknown to it (router._apply, protocol     *)
(* encode_resumed), whatever the order connections were lost in.  Only     *)
(* events that a later one got past can escape.                            *)
GapIsReported ==
    \A p \in owed :
        tab.resumed > 0 /\ p[2] <= tab.resumed /\ p[1] # tab.conn
            => p[2] \in known \/ p[2] \in overtaken \/ tab.missed

(* A subscription that was granted is indexed, and only while its          *)
(* connection lives (websocket/manager.py, subscribe, unsubscribe and      *)
(* _remove_locked), except while a thread is between the grants and the    *)
(* index, and where a grant was given while the dispatch thread, the       *)
(* endpoint or a release was ending the same subscription.                 *)
IndexAgrees ==
    \A c \in Conns, t \in Topics :
        \/ c \in index[t] <=> t \in following[c] /\ c \in live
        \/ Indexing(c, t) \/ Discarding(c, t) \/ Revoking(c, t)
        \/ <<c, t>> \in crossed

(* No event is delivered on a topic the user lost the TTL or longer before *)
(* (services/realtime_access.py 45-57), unless its grant was renewed       *)
(* without a decision; what is lost within a tick of the decision, as it   *)
(* may be during the lookup, does not count.                               *)
DeliveredWithinTtl ==
    [][\A c \in Conns : Len(sendq'[c]) > Len(sendq[c]) =>
         LET t == IF thread.pc = "rechecked" THEN thread.topic ELSE DeliveryTopic(c, thread.event)
         IN  lostFor[t] = 0 \/ lostFor[t] < Ttl \/ <<c, t>> \in unchecked]_vars

(* What a connection owes arrives, or the connection ends, or the          *)
(* subscription does: no event is stuck or lost on the way.                *)
OwedArrives ==
    \A e \in Events :
        (\E c \in Conns \ closed : <<c, e>> \in owed /\ ~Abandoned(c))
            ~> e \in known \/ \A c \in Conns \ closed : <<c, e>> \notin owed \/ Abandoned(c)

=============================================================================
