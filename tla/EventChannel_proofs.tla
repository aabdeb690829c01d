------------------------ MODULE EventChannel_proofs ------------------------
(***************************************************************************)
(* Proofs about EventChannel, for any topics, sizes, connections, events   *)
(* and withdrawals.                                                        *)
(***************************************************************************)
EXTENDS EventChannel, FiniteSetTheorems, WellFoundedInduction, TLAPS

-----------------------------------------------------------------------------
(* Types *)

(* Connections and events are positive numbers.                            *)
LEMMA Numbers ==
    /\ Conns \subseteq Nat \ {0} /\ Events \subseteq Nat \ {0}
    /\ CaseTopic \in Topics /\ NoTopic \notin Topics
    /\ NoConn \notin Conns /\ Conns \subseteq Nat /\ Events \subseteq Nat
    /\ QueueSize \in Nat /\ InboxSize \in Nat /\ WireSize \in Nat /\ Ttl \in Nat
    /\ MaxEvents \in Nat /\ MaxConnections \in Nat
BY ChannelConstants DEF ChannelConstants, Conns, Events, NoConn

(* The dispatch thread idles, routes an event, or has asked again.         *)
LEMMA ThreadShapes ==
    /\ IdleThread \in ThreadStates
    /\ IdleThread.pc = "idle" /\ IdleThread.todo = {} /\ IdleThread.topic = NoTopic
    /\ IdleThread.event = 0
    /\ \A q \in ThreadStates :
         \/ q = IdleThread
         \/ q.pc = "routing" /\ q.event \in Events /\ q.todo \subseteq Conns /\ q.todo # {}
         \/ /\ q.pc \in {"rechecked", "revoked"}
            /\ q.event \in Events /\ q.todo \subseteq Conns /\ q.todo # {}
            /\ q.conn \in Conns /\ q.topic \in Topics /\ q.allowed \in BOOLEAN
<1>1. /\ IdleThread \in ThreadStates
      /\ IdleThread.pc = "idle" /\ IdleThread.todo = {} /\ IdleThread.topic = NoTopic
      /\ IdleThread.event = 0
  BY DEF ThreadStates, IdleThread
<1>2. ASSUME NEW q \in ThreadStates, q # IdleThread
      PROVE  \/ q.pc = "routing" /\ q.event \in Events /\ q.todo \subseteq Conns /\ q.todo # {}
             \/ /\ q.pc \in {"rechecked", "revoked"}
                /\ q.event \in Events /\ q.todo \subseteq Conns /\ q.todo # {}
                /\ q.conn \in Conns /\ q.topic \in Topics /\ q.allowed \in BOOLEAN
  <2>1. CASE q \in [pc : {"routing"}, event : Events, todo : (SUBSET Conns) \ {{}},
                    conn : {NoConn}, topic : {NoTopic}, allowed : {FALSE}]
    BY <2>1
  <2>2. CASE q \in [pc : {"rechecked", "revoked"}, event : Events, todo : (SUBSET Conns) \ {{}},
                    conn : Conns, topic : Topics, allowed : BOOLEAN]
    BY <2>2
  <2> QED
    BY <1>2, <2>1, <2>2 DEF ThreadStates
<1> QED
  BY <1>1, <1>2

(* An event is taken: its followers are to be served.                      *)
LEMMA Routing ==
    ASSUME NEW e \in Events, NEW S \in SUBSET Conns, S # {}
    PROVE  /\ RoutingTo(e, S) \in ThreadStates
           /\ RoutingTo(e, S).pc = "routing"
           /\ RoutingTo(e, S).event = e /\ RoutingTo(e, S).todo = S
BY DEF ThreadStates, RoutingTo

(* One of the followers has been served.                                   *)
LEMMA ServedShape ==
    ASSUME thread \in ThreadStates, thread.pc # "idle", NEW c
    PROVE  /\ Served(c) \in ThreadStates
           /\ \/ Served(c) = IdleThread /\ thread.todo = {c}
              \/ /\ Served(c).pc = "routing" /\ Served(c).event = thread.event
                 /\ Served(c).todo = thread.todo \ {c}
<1>1. thread.event \in Events /\ thread.todo \in SUBSET Conns /\ thread.todo # {}
  BY ThreadShapes
<1>2. CASE thread.todo = {c}
  BY <1>2, ThreadShapes DEF Served
<1>3. CASE thread.todo # {c}
  <2>1. thread.todo \ {c} \in SUBSET Conns /\ thread.todo \ {c} # {}
    BY <1>1, <1>3
  <2> QED
    BY <1>1, <1>3, <2>1, Routing DEF Served
<1> QED
  BY <1>2, <1>3

(* A refusal is being carried out.                                         *)
LEMMA RevokedShape ==
    ASSUME thread \in ThreadStates, thread.pc = "rechecked"
    PROVE  /\ [thread EXCEPT !.pc = "revoked"] \in ThreadStates
           /\ [thread EXCEPT !.pc = "revoked"].pc = "revoked"
           /\ [thread EXCEPT !.pc = "revoked"].event = thread.event
           /\ [thread EXCEPT !.pc = "revoked"].todo = thread.todo
           /\ [thread EXCEPT !.pc = "revoked"].conn = thread.conn
           /\ [thread EXCEPT !.pc = "revoked"].topic = thread.topic
<1>1. thread \in [pc : {"rechecked", "revoked"}, event : Events, todo : (SUBSET Conns) \ {{}},
                 conn : Conns, topic : Topics, allowed : BOOLEAN]
  <2>1. thread # IdleThread
    BY ThreadShapes
  <2>2. thread \notin [pc : {"routing"}, event : Events, todo : (SUBSET Conns) \ {{}},
                       conn : {NoConn}, topic : {NoTopic}, allowed : {FALSE}]
    OBVIOUS
  <2> QED
    BY <2>1, <2>2 DEF ThreadStates
<1> QED
  BY <1>1 DEF ThreadStates

(* An event is delivered on one of its topics that is followed.            *)
LEMMA DeliveryTopicFollowed ==
    ASSUME GrantTypes, NEW c \in Conns, NEW e, DeliveryTopic(c, e) # NoTopic
    PROVE  /\ DeliveryTopic(c, e) \in Topics /\ DeliveryTopic(c, e) \in following[c]
           /\ DeliveryTopic(c, e) \in Routes(log[e])
<1>1. following[c] \subseteq Topics
  BY DEF GrantTypes
<1> QED
  BY <1>1 DEF DeliveryTopic, Routes

(* A reader is between topics, or at one of them.                          *)
LEMMA ReaderShape ==
    \A q \in Readers :
       /\ q.todo \subseteq Topics
       /\ \/ q.step \in {"waits", "subscribes", "ended"} /\ q.topic = NoTopic
          \/ q.step \in {"renews", "grants", "indexes", "discards"} /\ q.topic \in Topics
BY DEF Readers

(* It goes on with what is left of a command.                              *)
LEMMA ReaderGoesOn ==
    ASSUME ConnTypes, NEW c \in Conns, NEW todo \in SUBSET Topics, GoesOnWith(c, todo)
    PROVE  /\ reader' \in [Conns -> Readers]
           /\ \A d \in Conns \ {c} : reader'[d] = reader[d]
           /\ reader'[c].topic = NoTopic
           /\ reader'[c].step \in {"waits", "subscribes", "ended"}
<1>1. PICK step \in {"waits", "subscribes", "ended"} :
        reader' = [reader EXCEPT ![c] = [todo |-> todo, topic |-> NoTopic, step |-> step]]
  BY DEF GoesOnWith
<1>2. [todo |-> todo, topic |-> NoTopic, step |-> step] \in Readers
  BY DEF Readers
<1> QED
  BY <1>1, <1>2 DEF ConnTypes

(* It takes up a topic.                                                    *)
LEMMA ReaderTakesUp ==
    ASSUME ConnTypes, NEW c \in Conns, NEW t \in Topics, NEW step \in {"renews", "grants"},
           TakesUp(c, t, step)
    PROVE  /\ reader' \in [Conns -> Readers]
           /\ \A d \in Conns \ {c} : reader'[d] = reader[d]
           /\ reader'[c].topic = t /\ reader'[c].step = step
<1>1. reader[c].todo \in SUBSET Topics
  BY ReaderShape DEF ConnTypes
<1>2. [todo |-> reader[c].todo, topic |-> t, step |-> step] \in Readers
  BY <1>1 DEF Readers
<1> QED
  BY <1>2 DEF ConnTypes, TakesUp

(* It is done with a topic.                                                *)
LEMMA ReaderDone ==
    ASSUME ConnTypes, NEW c \in Conns, Done(c)
    PROVE  /\ reader' \in [Conns -> Readers]
           /\ \A d \in Conns \ {c} : reader'[d] = reader[d]
           /\ reader'[c].topic = NoTopic
           /\ reader'[c].step \in {"waits", "subscribes", "ended"}
<1>1. reader[c].todo \ {reader[c].topic} \in SUBSET Topics
  BY ReaderShape DEF ConnTypes
<1> QED
  BY <1>1, ReaderGoesOn DEF Done

(* An "unsubscribe" is read: its topic, and where the reader goes.         *)
LEMMA ReaderUnsubscribes ==
    ASSUME TypeOK, NEW c \in Conns, ReadUnsubscribe(c)
    PROVE  \E t \in Topics :
             /\ TakeBack(c, t)
             /\ reader' \in [Conns -> Readers]
             /\ \A d \in Conns \ {c} : reader'[d] = reader[d]
             /\ IF t \in following[c] THEN reader'[c].topic = t /\ reader'[c].step = "discards"
                ELSE /\ reader'[c].topic = NoTopic
                     /\ reader'[c].step \in {"waits", "subscribes", "ended"}
<1>1. ConnTypes
  BY DEF TypeOK
<1>2. Head(commands[c]).topics \subseteq Topics
  <2>1. Head(commands[c]) \in Commands
    BY <1>1 DEF ReadUnsubscribe, Reads, ConnTypes
  <2> QED
    BY <2>1 DEF Commands, ReadUnsubscribe, Reads
<1>3. PICK t \in Topics :
        /\ TakeBack(c, t)
        /\ IF t \in following[c]
           THEN reader' = [reader EXCEPT ![c] = [todo |-> {}, topic |-> t, step |-> "discards"]]
           ELSE GoesOnWith(c, {})
  BY <1>2 DEF ReadUnsubscribe
<1>4. CASE t \in following[c]
  <2>0. [todo |-> {}, topic |-> t, step |-> "discards"] \in Readers
    BY DEF Readers
  <2>1. PICK next :
          /\ next = [todo |-> {}, topic |-> t, step |-> "discards"]
          /\ next.topic = t /\ next.step = "discards" /\ next \in Readers
    BY <2>0
  <2>2. reader \in [Conns -> Readers] /\ reader' = [reader EXCEPT ![c] = next]
    BY <1>1, <1>3, <1>4, <2>1 DEF ConnTypes
  <2>3. /\ reader' \in [Conns -> Readers] /\ reader'[c] = next
        /\ \A d \in Conns \ {c} : reader'[d] = reader[d]
    BY <2>1, <2>2
  <2> QED
    BY <1>3, <1>4, <2>1, <2>3
<1>5. CASE t \notin following[c]
  <2>1. {} \in SUBSET Topics /\ GoesOnWith(c, {})
    BY <1>3, <1>5
  <2>2. /\ reader' \in [Conns -> Readers]
        /\ \A d \in Conns \ {c} : reader'[d] = reader[d]
        /\ reader'[c].topic = NoTopic
        /\ reader'[c].step \in {"waits", "subscribes", "ended"}
    BY <1>1, <2>1, ReaderGoesOn
  <2> QED
    BY <1>3, <1>5, <2>2
<1> QED
  BY <1>4, <1>5

(* The server's part of the type stands while its variables do.            *)
LEMMA ServerFrame == ASSUME ServerTypes, UNCHANGED serverVars PROVE ServerTypes'
BY DEF ServerTypes, serverVars
(* Likewise what the user may see.                                         *)
LEMMA AccessFrame == ASSUME AccessTypes, UNCHANGED accessVars PROVE AccessTypes'
BY DEF AccessTypes, accessVars
(* Likewise the grants.                                                    *)
LEMMA GrantFrame == ASSUME GrantTypes, UNCHANGED grantVars PROVE GrantTypes'
BY DEF GrantTypes, grantVars
(* Likewise the connections.                                               *)
LEMMA ConnFrame == ASSUME ConnTypes, UNCHANGED connVars PROVE ConnTypes'
BY DEF ConnTypes, connVars
(* Likewise the tab.                                                       *)
LEMMA TabFrame == ASSUME TabTypes, UNCHANGED tabVars PROVE TabTypes'
BY DEF TabTypes, tabVars

(* What the tab's record holds.                                            *)
LEMMA TabShape ==
    ASSUME TabTypes
    PROVE  /\ tab.conn \in Conns \cup {NoConn} /\ tab.wanted \subseteq Topics
           /\ tab.last \in 0..MaxEvents /\ tab.resumed \in 0..MaxEvents
           /\ tab.phase \in {"down", "open", "ready"} /\ tab.missed \in BOOLEAN
           /\ tab.conn = NoConn => tab.phase = "down"
BY DEF TabTypes, TabStates

(* The tab's connection is a number.                                       *)
LEMMA TabNumber == ASSUME TabTypes PROVE tab.conn \in Nat
<1>1. tab.conn \in Conns \/ tab.conn = 0
  BY TabShape DEF NoConn
<1>2. CASE tab.conn \in Conns
  <2>1. Conns \subseteq Nat
    BY Numbers
  <2> QED
    BY <1>2, <2>1
<1>3. CASE tab.conn = 0
  BY <1>3
<1> QED
  BY <1>1, <1>2, <1>3

(* The parts of the type at hand in a step.                                *)
LEMMA TypeParts ==
    ASSUME TypeOK
    PROVE  /\ ServerTypes /\ AccessTypes /\ GrantTypes /\ ConnTypes /\ TabTypes
           /\ tab.conn \in Nat
<1>1. ServerTypes /\ AccessTypes /\ GrantTypes /\ ConnTypes /\ TabTypes
  BY DEF TypeOK
<1> QED
  BY <1>1, TabNumber

(* What the tab tells the endpoint is a command.                           *)
LEMMA ToldCommands ==
    ASSUME ConnTypes, NEW command \in Commands, TabTypes
    PROVE  Told(command) \in [Conns -> Seq(Commands)]
<1>1. commands \in [Conns -> Seq(Commands)] /\ tab.conn \in Conns \cup {NoConn}
  BY TabShape DEF ConnTypes, TabTypes
<1>2. CASE Abandoned(tab.conn)
  BY <1>1, <1>2 DEF Told
<1>3. CASE ~Abandoned(tab.conn)
  <2>1. Told(command) = [commands EXCEPT ![tab.conn] = Append(@, command)]
    BY <1>3 DEF Told
  <2>2. CASE tab.conn \in Conns
    <3>1. Append(commands[tab.conn], command) \in Seq(Commands)
      BY <1>1, <2>2
    <3> QED
      BY <1>1, <2>1, <3>1
  <2>3. CASE tab.conn \notin Conns
    <3>1. Told(command) = commands
      BY <1>1, <2>1, <2>3
    <3> QED
      BY <1>1, <3>1
  <2> QED
    BY <2>2, <2>3
<1> QED
  BY <1>2, <1>3

(* Enqueue, TakeBack and Discard keep their part of the type.              *)
LEMMA EnqueueTypes ==
    ASSUME ConnTypes, NEW c \in Conns, NEW e \in Events, Enqueue(c, e),
           UNCHANGED <<up, live, commands, reader, wire>>
    PROVE  ConnTypes'
<1>1. CASE UNCHANGED <<sendq, closed>>
  BY <1>1 DEF ConnTypes
<1>2. CASE /\ c \notin closed /\ Len(sendq[c]) < QueueSize
           /\ sendq' = [sendq EXCEPT ![c] = Append(@, e)]
           /\ UNCHANGED closed
  <2>1. sendq' \in [Conns -> Seq(Events)]
    BY <1>2 DEF ConnTypes
  <2>2. sendq'[c] = Append(sendq[c], e) /\ Len(sendq'[c]) = Len(sendq[c]) + 1
    BY <1>2 DEF ConnTypes
  <2>3. \A d \in Conns : Len(sendq'[d]) <= QueueSize
    <3> TAKE d \in Conns
    <3>1. CASE d = c
      BY <1>2, <2>2, <3>1, Numbers DEF ConnTypes
    <3>2. CASE d # c
      BY <1>2, <3>2 DEF ConnTypes
    <3> QED
      BY <3>1, <3>2
  <2> QED
    BY <1>2, <2>1, <2>3 DEF ConnTypes
<1>3. CASE closed' = closed \cup {c} /\ UNCHANGED sendq
  BY <1>3 DEF ConnTypes
<1> QED
  BY <1>1, <1>2, <1>3 DEF Enqueue

(* A subscription ends: its grant, then its entry.                         *)
LEMMA TakeBackTypes ==
    ASSUME GrantTypes, NEW c \in Conns, NEW t, TakeBack(c, t), crossed' \subseteq Conns \X Topics,
           UNCHANGED <<index, age, unchecked>>
    PROVE  GrantTypes'
BY DEF TakeBack, GrantTypes
(* Its entry.                                                              *)
LEMMA DiscardTypes ==
    ASSUME GrantTypes, NEW c \in Conns, NEW t, Discard(c, t), crossed' \subseteq Conns \X Topics,
           UNCHANGED <<following, age, unchecked>>, owed \subseteq Conns \X Events
    PROVE  GrantTypes' /\ owed' \subseteq Conns \X Events
BY DEF Discard, GrantTypes, Without

(* The command at the head of a connection's frames, and what is left.     *)
LEMMA HeadCommand ==
    ASSUME ConnTypes, NEW c \in Conns, NEW kind, Reads(c, kind)
    PROVE  /\ Head(commands[c]) \in Commands /\ commands[c] # <<>>
           /\ commands[c] \in Seq(Commands)
           /\ Tail(commands[c]) \in Seq(Commands)
           /\ [commands EXCEPT ![c] = Tail(@)] \in [Conns -> Seq(Commands)]
BY DEF Reads, ConnTypes

(* The frame at the head of the tab's wire, and what is left.              *)
LEMMA HeadFrame ==
    ASSUME ConnTypes, TabTypes, NEW kind, Receives(kind)
    PROVE  /\ tab.conn \in Conns
           /\ Head(wire[tab.conn]) \in Frames /\ wire[tab.conn] # <<>>
           /\ wire[tab.conn] \in Seq(Frames)
           /\ Tail(wire[tab.conn]) \in Seq(Frames)
           /\ wire' \in [Conns -> Seq(Frames)]
           /\ wire' = [wire EXCEPT ![tab.conn] = Tail(@)]
<1>1. tab.conn \in Conns /\ wire \in [Conns -> Seq(Frames)]
  BY TabShape DEF ConnTypes, Receives
<1> QED
  BY <1>1 DEF Receives

(* A frame of each kind.                                                   *)
LEMMA FrameShapes ==
    \A f \in Frames :
       /\ f.kind \in {"ready", "event", "resumed"}
       /\ f.kind = "event" => f.event \in Events
       /\ f.kind = "resumed" => f.gap \in BOOLEAN /\ f.upto \in 0..MaxEvents
BY DEF Frames

(* A command of each kind.                                                 *)
LEMMA CommandShapes ==
    \A q \in Commands :
       /\ q.kind \in {"subscribe", "unsubscribe", "resume"}
       /\ q.kind # "resume" => q.topics \subseteq Topics
       /\ q.kind = "resume" => q.last \in Nat
BY DEF Commands

(* What a connection gained, a panel, or the end of a connection changes.  *)
LEMMA TabConnects ==
    ASSUME TabTypes
    PROVE  /\ Connect => /\ tab' \in TabStates
                         /\ tab'.conn = tab.conn + 1 /\ tab'.phase = "open" /\ tab'.resumed = 0
                         /\ tab'.wanted = tab.wanted /\ tab'.last = tab.last
                         /\ tab'.missed = tab.missed
           /\ Lose => /\ tab' \in TabStates
                      /\ tab'.conn = tab.conn /\ tab'.phase = "down" /\ tab'.resumed = 0
                      /\ tab'.wanted = tab.wanted /\ tab'.last = tab.last
                      /\ tab'.missed = tab.missed
           /\ \A t \in Topics : Follow(t) \/ Unfollow(t) =>
                /\ tab' \in TabStates
                /\ tab'.conn = tab.conn /\ tab'.phase = tab.phase /\ tab'.resumed = tab.resumed
                /\ tab'.wanted = IF Follow(t) THEN tab.wanted \cup {t} ELSE tab.wanted \ {t}
                /\ tab'.last = tab.last /\ tab'.missed = tab.missed
<1>1. 0 \in 0..MaxEvents
  BY Numbers
<1>2. ASSUME Connect
      PROVE  /\ tab' \in TabStates
             /\ tab'.conn = tab.conn + 1 /\ tab'.phase = "open" /\ tab'.resumed = 0
             /\ tab'.wanted = tab.wanted /\ tab'.last = tab.last /\ tab'.missed = tab.missed
  BY <1>1, <1>2 DEF Connect, TabTypes, TabStates
<1>3. ASSUME Lose
      PROVE  /\ tab' \in TabStates
             /\ tab'.conn = tab.conn /\ tab'.phase = "down" /\ tab'.resumed = 0
             /\ tab'.wanted = tab.wanted /\ tab'.last = tab.last /\ tab'.missed = tab.missed
  BY <1>1, <1>3 DEF Lose, TabTypes, TabStates
<1>4. ASSUME NEW t \in Topics, Follow(t) \/ Unfollow(t)
      PROVE  /\ tab' \in TabStates
             /\ tab'.conn = tab.conn /\ tab'.phase = tab.phase /\ tab'.resumed = tab.resumed
             /\ tab'.wanted = IF Follow(t) THEN tab.wanted \cup {t} ELSE tab.wanted \ {t}
             /\ tab'.last = tab.last /\ tab'.missed = tab.missed
  <2>1. PICK W \in SUBSET Topics :
          /\ tab' = [tab EXCEPT !.wanted = W]
          /\ W = IF Follow(t) THEN tab.wanted \cup {t} ELSE tab.wanted \ {t}
    <3>1. tab.wanted \subseteq Topics
      BY TabShape
    <3>2. Follow(t) => tab' = [tab EXCEPT !.wanted = tab.wanted \cup {t}]
      BY DEF Follow
    <3>3. ~Follow(t) => tab' = [tab EXCEPT !.wanted = tab.wanted \ {t}]
      BY <1>4 DEF Unfollow
    <3> QED
      BY <3>1, <3>2, <3>3
  <2> QED
    BY <2>1 DEF TabTypes, TabStates
<1> QED
  BY <1>2, <1>3, <1>4

(* What a frame or the recovery changes.                                   *)
LEMMA TabReceives ==
    ASSUME TabTypes, ConnTypes
    PROVE  /\ HandleReady => /\ tab' \in TabStates
                             /\ tab'.conn = tab.conn /\ tab'.phase = "ready"
                             /\ tab'.resumed = tab.resumed /\ tab'.wanted = tab.wanted
                             /\ tab'.last = tab.last /\ tab'.missed = tab.missed
           /\ HandleEvent => /\ tab' \in TabStates
                             /\ tab'.conn = tab.conn /\ tab'.phase = tab.phase
                             /\ tab'.resumed = tab.resumed /\ tab'.wanted = tab.wanted
                             /\ tab'.missed = tab.missed
                             /\ LET e == Head(wire[tab.conn]).event IN
                                tab'.last = IF e > tab.last THEN e ELSE tab.last
           /\ HandleResumed => /\ tab' \in TabStates
                               /\ tab'.conn = tab.conn /\ tab'.phase = tab.phase
                               /\ tab'.resumed = Head(wire[tab.conn]).upto
                               /\ tab'.wanted = tab.wanted /\ tab'.last = tab.last
                               /\ tab'.missed = (tab.missed \/ Head(wire[tab.conn]).gap)
           /\ RecoverFromGap => /\ tab' \in TabStates
                                /\ tab'.conn = tab.conn /\ tab'.phase = tab.phase
                                /\ tab'.resumed = tab.resumed /\ tab'.wanted = tab.wanted
                                /\ tab'.last = tab.last /\ tab'.missed = FALSE
<1>1. ASSUME HandleReady
      PROVE  /\ tab' \in TabStates
             /\ tab'.conn = tab.conn /\ tab'.phase = "ready"
             /\ tab'.resumed = tab.resumed /\ tab'.wanted = tab.wanted
             /\ tab'.last = tab.last /\ tab'.missed = tab.missed
  BY <1>1 DEF HandleReady, TabTypes, TabStates
<1>2. ASSUME HandleEvent
      PROVE  /\ tab' \in TabStates
             /\ tab'.conn = tab.conn /\ tab'.phase = tab.phase
             /\ tab'.resumed = tab.resumed /\ tab'.wanted = tab.wanted
             /\ tab'.missed = tab.missed
             /\ LET e == Head(wire[tab.conn]).event IN
                tab'.last = IF e > tab.last THEN e ELSE tab.last
  <2>1. Head(wire[tab.conn]).event \in 0..MaxEvents
    BY <1>2, HeadFrame, FrameShapes, Numbers DEF HandleEvent, Receives, Events
  <2>2. PICK l \in 0..MaxEvents :
          /\ tab' = [tab EXCEPT !.last = l]
          /\ LET e == Head(wire[tab.conn]).event IN l = IF e > tab.last THEN e ELSE tab.last
    BY <1>2, <2>1, TabShape DEF HandleEvent
  <2> QED
    BY <2>2 DEF TabTypes, TabStates
<1>3. ASSUME HandleResumed
      PROVE  /\ tab' \in TabStates
             /\ tab'.conn = tab.conn /\ tab'.phase = tab.phase
             /\ tab'.resumed = Head(wire[tab.conn]).upto
             /\ tab'.wanted = tab.wanted /\ tab'.last = tab.last
             /\ tab'.missed = (tab.missed \/ Head(wire[tab.conn]).gap)
  <2>1. Head(wire[tab.conn]).upto \in 0..MaxEvents
    BY <1>3, HeadFrame, FrameShapes DEF HandleResumed, Receives
  <2>2. PICK u \in 0..MaxEvents, m \in BOOLEAN :
          /\ tab' = [tab EXCEPT !.missed = m, !.resumed = u]
          /\ u = Head(wire[tab.conn]).upto /\ m = (tab.missed \/ Head(wire[tab.conn]).gap)
    BY <1>3, <2>1 DEF HandleResumed
  <2> QED
    BY <2>2 DEF TabTypes, TabStates
<1>4. ASSUME RecoverFromGap
      PROVE  /\ tab' \in TabStates
             /\ tab'.conn = tab.conn /\ tab'.phase = tab.phase
             /\ tab'.resumed = tab.resumed /\ tab'.wanted = tab.wanted
             /\ tab'.last = tab.last /\ tab'.missed = FALSE
  BY <1>4 DEF RecoverFromGap, TabTypes, TabStates
<1> QED
  BY <1>1, <1>2, <1>3, <1>4

(* A connection is evicted only when there is an oldest one.               *)
LEMMA OldestIsLive ==
    ASSUME ConnTypes, Cardinality(live) >= MaxPerUser
    PROVE  Oldest \in live
<1>1. live \subseteq Conns /\ live \subseteq Nat
  BY Numbers DEF ConnTypes
<1>2. live # {}
  BY FS_EmptySet, ChannelConstants DEF ChannelConstants
<1>3. IsWellFoundedOn(OpToRel(<, Nat), Nat)
  BY NatLessThanWellFounded
<1>4. PICK c \in live : \A d \in live : ~(<<d, c>> \in OpToRel(<, Nat))
  BY <1>1, <1>2, <1>3, WFMin
<1>5. \A d \in live : c <= d
  <2> TAKE d \in live
  <2>1. ~(<<d, c>> \in OpToRel(<, Nat)) /\ c \in Nat /\ d \in Nat
    BY <1>1, <1>4
  <2> QED
    BY <2>1 DEF OpToRel
<1> QED
  BY <1>4, <1>5 DEF Oldest

(* Every step is one of these.                                             *)
LEMMA StepCases ==
    ASSUME [Next]_vars
    PROVE  \/ \E t \in Topics : Build(t)
           \/ \E e \in Events : HandOver(e)
           \/ TakeEvent
           \/ \E c \in Conns : Skip(c)
           \/ \E c \in Conns : DeliverFresh(c)
           \/ \E c \in Conns : Recheck(c)
           \/ \E c \in Conns : Renew(c)
           \/ \E c \in Conns : Revoke(c)
           \/ \E c \in Conns : DropRevoked(c)
           \/ \E c \in Conns : DropUnsubscribed(c)
           \/ \E c \in Conns, t \in Topics : FindFollowed(c, t)
           \/ \E c \in Conns : Resume(c)
           \/ \E c \in Conns : ReadSubscribe(c)
           \/ \E c \in Conns : ReadUnsubscribe(c)
           \/ \E c \in Conns : Grant(c)
           \/ \E c \in Conns : IndexGrant(c)
           \/ \E c \in Conns : RenewFollowed(c)
           \/ \E c \in Conns, t \in Topics : Decide(c, t)
           \/ \E c \in Conns : Write(c)
           \/ \E c \in Conns : Release(c)
           \/ Connect \/ HandleReady \/ HandleEvent \/ HandleResumed
           \/ RecoverFromGap \/ Lose
           \/ \E t \in Topics : Follow(t)
           \/ \E t \in Topics : Unfollow(t)
           \/ \E t \in Topics : Withdraw(t)
           \/ Tick
           \/ UNCHANGED vars
BY DEF Next, DispatchStep, EndpointStep, TabReads

(* Every step keeps the types.                                             *)
LEMMA TypeStep ==
    ASSUME TypeOK, [Next]_vars
    PROVE  TypeOK'
<1> USE DEF TypeOK
<1>1. ASSUME NEW t \in Topics, Build(t)  PROVE TypeOK'
  <2>1. log' \in Seq(Topics) /\ Len(log') = Len(log) + 1 /\ DOMAIN log \subseteq DOMAIN log'
        /\ Len(log) + 1 \in DOMAIN log'
    BY <1>1 DEF Build, ServerTypes
  <2>2. ServerTypes'
    BY <1>1, <2>1, Numbers DEF Build, ServerTypes
  <2> QED
    BY <1>1, <2>2, AccessFrame, GrantFrame, ConnFrame, TabFrame DEF Build
<1>2. ASSUME NEW e \in Events, HandOver(e)  PROVE TypeOK'
  <2>1. ServerTypes'
    <3>1. CASE Len(inbox) < InboxSize /\ inbox' = Append(inbox, e)
      BY <1>2, <3>1, Numbers DEF HandOver, ServerTypes
    <3>2. CASE inbox' = inbox
      BY <1>2, <3>2 DEF HandOver, ServerTypes
    <3> QED
      BY <1>2, <3>1, <3>2 DEF HandOver
  <2>2. owed' \subseteq Conns \X Events
    BY <1>2 DEF HandOver, Followers, ConnTypes
  <2>3. overtaken' \subseteq Events
    BY <1>2 DEF HandOver
  <2>4. UNCHANGED <<accessVars, grantVars, connVars, tabVars, turns>>
    BY <1>2 DEF HandOver
  <2> QED
    BY <2>1, <2>2, <2>3, <2>4, AccessFrame, GrantFrame, ConnFrame, TabFrame
<1>3. ASSUME TakeEvent  PROVE TypeOK'
  <2>1. Head(inbox) \in Events /\ Tail(inbox) \in Seq(Events) /\ Len(Tail(inbox)) <= InboxSize
    BY <1>3, Numbers DEF TakeEvent, ServerTypes
  <2>2. Candidates(Head(inbox)) \in SUBSET Conns
    BY DEF Candidates, ConnTypes
  <2>3. thread' \in ThreadStates
    BY <1>3, <2>1, <2>2, ThreadShapes, Routing DEF TakeEvent
  <2>4. ServerTypes'
    BY <1>3, <2>1, <2>3 DEF TakeEvent, ServerTypes
  <2> QED
    BY <1>3, <2>4, AccessFrame, GrantFrame, ConnFrame, TabFrame DEF TakeEvent
<1>4. ASSUME NEW c \in Conns, Skip(c)  PROVE TypeOK'
  <2>1. ServerTypes'
    BY <1>4, ServedShape DEF Skip, ServerTypes
  <2> QED
    BY <1>4, <2>1, AccessFrame, GrantFrame, ConnFrame, TabFrame DEF Skip
<1>5. ASSUME NEW c \in Conns, DeliverFresh(c)  PROVE TypeOK'
  <2>1. ServerTypes'
    BY <1>5, ServedShape DEF DeliverFresh, ServerTypes
  <2>2. thread.event \in Events
    BY <1>5, ThreadShapes DEF DeliverFresh, ServerTypes
  <2>3. ConnTypes'
    BY <1>5, <2>2, EnqueueTypes DEF DeliverFresh
  <2> QED
    BY <1>5, <2>1, <2>3, AccessFrame, GrantFrame, TabFrame DEF DeliverFresh
<1>6. ASSUME NEW c \in Conns, Recheck(c)  PROVE TypeOK'
  <2>1. thread.event \in Events /\ thread.todo \in (SUBSET Conns) \ {{}}
    BY <1>6, ThreadShapes DEF Recheck, ServerTypes
  <2>2. DeliveryTopic(c, thread.event) \in Topics
    BY <1>6, DeliveryTopicFollowed DEF Recheck
  <2>3. thread' \in ThreadStates
    BY <1>6, <2>1, <2>2 DEF Recheck, ThreadStates
  <2>4. turns' \in Nat
    BY <1>6 DEF Recheck, Decision
  <2>5. ServerTypes'
    BY <1>6, <2>3 DEF Recheck, ServerTypes
  <2> QED
    BY <1>6, <2>4, <2>5, AccessFrame, GrantFrame, ConnFrame, TabFrame DEF Recheck
<1>7. ASSUME NEW c \in Conns, Renew(c)  PROVE TypeOK'
  <2>1. thread.topic \in Topics /\ thread.event \in Events
    BY <1>7, ThreadShapes DEF Renew, ServerTypes
  <2>2. ServerTypes'
    BY <1>7, ServedShape DEF Renew, ServerTypes
  <2>3. ConnTypes'
    BY <1>7, <2>1, EnqueueTypes DEF Renew
  <2>4. following' \in [Conns -> SUBSET Topics] /\ age' \in [Conns -> [Topics -> 0..Ttl]]
    BY <1>7, <2>1, Numbers DEF Renew, GrantTypes
  <2>5. GrantTypes'
    BY <1>7, <2>1, <2>4 DEF Renew, GrantTypes
  <2> QED
    BY <1>7, <2>2, <2>3, <2>5, AccessFrame, TabFrame DEF Renew
<1>8. ASSUME NEW c \in Conns, Revoke(c)  PROVE TypeOK'
  <2>1. thread.topic \in Topics /\ thread.pc = "rechecked"
    BY <1>8, ThreadShapes DEF Revoke, ServerTypes
  <2>2. thread' \in ThreadStates
    <3>1. [thread EXCEPT !.pc = "revoked"] \in ThreadStates
      BY <2>1, ThreadShapes DEF ServerTypes, ThreadStates
    <3> QED
      BY <1>8, <2>1, <3>1, ServedShape DEF Revoke, ServerTypes
  <2>3. ServerTypes'
    BY <1>8, <2>2 DEF Revoke, ServerTypes
  <2>4. crossed' \subseteq Conns \X Topics
    BY <1>8, <2>1 DEF Revoke, GrantTypes
  <2>5. GrantTypes'
    BY <1>8, <2>4, TakeBackTypes DEF Revoke
  <2>6. owed' \subseteq owed
    BY <1>8 DEF Revoke, Without
  <2> QED
    BY <1>8, <2>3, <2>5, <2>6, AccessFrame, ConnFrame, TabFrame DEF Revoke
<1>9. ASSUME NEW c \in Conns, Resume(c)  PROVE TypeOK'
  <2>1. Head(commands[c]).last \in Nat /\ commands' \in [Conns -> Seq(Commands)]
    BY <1>9, HeadCommand, CommandShapes DEF Resume, Reads
  <2>2. [kind |-> "resumed", gap |-> Head(commands[c]).last > 0 /\ Len(log) > Head(commands[c]).last,
         upto |-> Len(log)] \in Frames
    <3>1. Len(log) \in 0..MaxEvents
      BY Numbers DEF ServerTypes
    <3>2. \A g \in BOOLEAN : [kind |-> "resumed", gap |-> g, upto |-> Len(log)] \in Frames
      BY <3>1 DEF Frames
    <3> QED
      BY <3>2
  <2>3. wire' \in [Conns -> Seq(Frames)]
    BY <1>9, <2>2 DEF Resume, ConnTypes
  <2>5. reader' \in [Conns -> Readers]
    BY <1>9, ReaderGoesOn DEF Resume
  <2>4. ConnTypes'
    BY <1>9, <2>1, <2>3, <2>5 DEF Resume, ConnTypes
  <2> QED
    BY <1>9, <2>4, ServerFrame, AccessFrame, GrantFrame, TabFrame DEF Resume
<1>10. ASSUME NEW c \in Conns, ReadSubscribe(c)  PROVE TypeOK'
  <2>1. Head(commands[c]).topics \subseteq Topics /\ commands' \in [Conns -> Seq(Commands)]
    BY <1>10, HeadCommand, CommandShapes DEF ReadSubscribe, Reads
  <2>2. reader' \in [Conns -> Readers]
    BY <1>10, <2>1, ReaderGoesOn DEF ReadSubscribe
  <2>3. ConnTypes'
    BY <1>10, <2>1, <2>2 DEF ReadSubscribe, ConnTypes
  <2> QED
    BY <1>10, <2>3, ServerFrame, AccessFrame, GrantFrame, TabFrame DEF ReadSubscribe
<1>11. ASSUME NEW c \in Conns, ReadUnsubscribe(c)  PROVE TypeOK'
  <2>1. commands' \in [Conns -> Seq(Commands)]
    BY <1>11, HeadCommand DEF ReadUnsubscribe
  <2>2. PICK t \in Topics : TakeBack(c, t) /\ reader' \in [Conns -> Readers]
    BY <1>11, ReaderUnsubscribes
  <2>3. ConnTypes'
    BY <1>11, <2>1, <2>2 DEF ReadUnsubscribe, ConnTypes
  <2>4. crossed' \subseteq Conns \X Topics /\ UNCHANGED <<index, age, unchecked>>
    BY <1>11 DEF ReadUnsubscribe, GrantTypes
  <2>5. GrantTypes'
    BY <2>2, <2>4, TakeBackTypes
  <2> QED
    BY <1>11, <2>3, <2>5, ServerFrame, AccessFrame, TabFrame DEF ReadUnsubscribe
<1>12. ASSUME NEW c \in Conns, Grant(c)  PROVE TypeOK'
  <2>1. reader[c].topic \in Topics /\ reader[c] \in Readers
    BY <1>12, ReaderShape DEF Grant, AtStep, ConnTypes
  <2>2. [reader[c] EXCEPT !.step = "indexes"] \in Readers
    BY <1>12, <2>1, ReaderShape DEF Grant, AtStep, Readers
  <2>3. ConnTypes'
    BY <1>12, <2>2 DEF Grant, ConnTypes
  <2>4. following' \in [Conns -> SUBSET Topics] /\ age' \in [Conns -> [Topics -> 0..Ttl]]
    BY <1>12, <2>1, Numbers DEF Grant, GrantTypes
  <2>5. GrantTypes'
    BY <1>12, <2>1, <2>4 DEF Grant, GrantTypes
  <2> QED
    BY <1>12, <2>3, <2>5, ServerFrame, AccessFrame, TabFrame DEF Grant
<1>13. ASSUME NEW c \in Conns, IndexGrant(c)  PROVE TypeOK'
  <2>1. ConnTypes'
    BY <1>13, ReaderDone DEF IndexGrant, ConnTypes
  <2>2. GrantTypes'
    BY <1>13 DEF IndexGrant, GrantTypes
  <2> QED
    BY <1>13, <2>1, <2>2, ServerFrame, AccessFrame, TabFrame DEF IndexGrant
<1>14. ASSUME NEW c \in Conns, RenewFollowed(c)  PROVE TypeOK'
  <2>1. reader[c].topic \in Topics
    BY <1>14, ReaderShape DEF RenewFollowed, AtStep, ConnTypes
  <2>2. following' \in [Conns -> SUBSET Topics] /\ age' \in [Conns -> [Topics -> 0..Ttl]]
    BY <1>14, <2>1, Numbers DEF RenewFollowed, GrantTypes
  <2>3. GrantTypes'
    BY <1>14, <2>1, <2>2 DEF RenewFollowed, GrantTypes
  <2>4. ConnTypes'
    BY <1>14, ReaderDone DEF RenewFollowed, ConnTypes
  <2> QED
    BY <1>14, <2>3, <2>4, ServerFrame, AccessFrame, TabFrame DEF RenewFollowed
<1>15. ASSUME NEW c \in Conns, NEW t \in Topics, Decide(c, t)  PROVE TypeOK'
  <2>1. turns' \in Nat
    BY <1>15 DEF Decide, Decision
  <2>2. reader' \in [Conns -> Readers]
    <3>1. reader[c].todo \ {t} \in SUBSET Topics
      BY ReaderShape DEF ConnTypes
    <3> QED
      BY <1>15, <3>1, ReaderGoesOn, ReaderTakesUp DEF Decide
  <2>3. ConnTypes'
    BY <1>15, <2>2 DEF Decide, ConnTypes
  <2> QED
    BY <1>15, <2>1, <2>3, ServerFrame, AccessFrame, GrantFrame, TabFrame DEF Decide
<1>16. ASSUME NEW c \in Conns, Write(c)  PROVE TypeOK'
  <2>1. /\ Head(sendq[c]) \in Events /\ Tail(sendq[c]) \in Seq(Events)
        /\ Len(Tail(sendq[c])) <= QueueSize
    BY <1>16, Numbers DEF Write, ConnTypes
  <2>2. [kind |-> "event", event |-> Head(sendq[c])] \in Frames
    BY <2>1 DEF Frames
  <2>3. wire' \in [Conns -> Seq(Frames)]
    BY <1>16, <2>2 DEF Write, ConnTypes
  <2>4. sendq' \in [Conns -> Seq(Events)] /\ \A d \in Conns : Len(sendq'[d]) <= QueueSize
    BY <1>16, <2>1 DEF Write, ConnTypes
  <2>5. ConnTypes'
    BY <1>16, <2>3, <2>4 DEF Write, ConnTypes
  <2> QED
    BY <1>16, <2>5, ServerFrame, AccessFrame, GrantFrame, TabFrame DEF Write
<1>17. ASSUME NEW c \in Conns, Release(c)  PROVE TypeOK'
  <2>1. sendq' \in [Conns -> Seq(Events)] /\ \A d \in Conns : Len(sendq'[d]) <= QueueSize
    BY <1>17, Numbers DEF Release, ConnTypes
  <2>2. commands' \in [Conns -> Seq(Commands)]
    BY <1>17 DEF Release, ConnTypes
  <2>3. ConnTypes'
    BY <1>17, <2>1, <2>2 DEF Release, ConnTypes
  <2>4. GrantTypes'
    BY <1>17 DEF Release, Removed, Overlapped, GrantTypes
  <2> QED
    BY <1>17, <2>3, <2>4, ServerFrame, AccessFrame, TabFrame DEF Release
<1>18. ASSUME Connect  PROVE TypeOK'
  <2> DEFINE c == tab.conn + 1
  <2>1. c \in Conns
    BY <1>18 DEF Connect
  <2>2. TabTypes'
    BY <1>18, <2>1, TabConnects, Numbers DEF Connect, TabTypes
  <2>3. index' \in [Topics -> SUBSET Conns]
    BY <1>18 DEF Connect, Removed, GrantTypes
  <2>4. GrantTypes'
    <3>1. Cardinality(live) >= MaxPerUser => Oldest \in Conns
      BY OldestIsLive DEF ConnTypes
    <3>2. crossed' \subseteq Conns \X Topics
      BY <1>18, <3>1 DEF Connect, Overlapped, GrantTypes
    <3> QED
      BY <1>18, <2>3, <3>2 DEF Connect, GrantTypes
  <2>5. wire' \in [Conns -> Seq(Frames)]
    <3>1. [kind |-> "ready"] \in Frames
      BY DEF Frames
    <3>2. <<[kind |-> "ready"]>> \in Seq(Frames)
      BY <3>1
    <3> QED
      BY <1>18, <3>2 DEF Connect, ConnTypes
  <2>6. Cardinality(live) >= MaxPerUser => Oldest \in live
    BY OldestIsLive
  <2>7. up' \subseteq Conns /\ live' \subseteq up' /\ closed' \subseteq Conns
    BY <1>18, <2>1, <2>6 DEF Connect, ConnTypes
  <2>8. ConnTypes'
    BY <1>18, <2>5, <2>7 DEF Connect, ConnTypes
  <2> QED
    BY <1>18, <2>2, <2>4, <2>8, ServerFrame, AccessFrame DEF Connect
<1>19. ASSUME HandleReady  PROVE TypeOK'
  <2>1. tab.conn \in Conns /\ wire' \in [Conns -> Seq(Frames)]
    BY <1>19, HeadFrame DEF HandleReady
  <2>2. TabTypes'
    BY <1>19, <2>1, TabReceives, Numbers DEF HandleReady, TabTypes
  <2>3. /\ tab.last > 0 => <<[kind |-> "resume", last |-> tab.last]>> \in Seq(Commands)
        /\ <<[kind |-> "subscribe", topics |-> tab.wanted]>> \in Seq(Commands)
        /\ <<>> \in Seq(Commands)
    BY TabShape, Numbers DEF Commands
  <2>4. commands[tab.conn] \in Seq(Commands)
    BY <2>1 DEF ConnTypes
  <2>5. ASSUME NEW r \in Seq(Commands), NEW s \in Seq(Commands)
        PROVE  commands[tab.conn] \o r \o s \in Seq(Commands)
    BY <2>4
  <2>6. commands' \in [Conns -> Seq(Commands)]
    BY <1>19, <2>1, <2>3, <2>5 DEF HandleReady, ConnTypes
  <2>7. ConnTypes'
    BY <1>19, <2>1, <2>6 DEF HandleReady, ConnTypes
  <2> QED
    BY <1>19, <2>2, <2>7, ServerFrame, AccessFrame, GrantFrame DEF HandleReady
<1>20. ASSUME HandleEvent  PROVE TypeOK'
  <2> DEFINE e == Head(wire[tab.conn]).event
  <2>1. e \in Events /\ wire' \in [Conns -> Seq(Frames)] /\ tab.conn \in Conns
    BY <1>20, HeadFrame, FrameShapes DEF HandleEvent, Receives
  <2>3. TabTypes'
    BY <1>20, <2>1, TabReceives, Numbers DEF HandleEvent, TabTypes
  <2>4. ConnTypes'
    BY <1>20, <2>1 DEF HandleEvent, ConnTypes
  <2>5. overtaken' \subseteq Events
    BY <1>20 DEF HandleEvent, PassedBy
  <2> QED
    BY <1>20, <2>3, <2>4, <2>5, ServerFrame, AccessFrame, GrantFrame DEF HandleEvent
<1>21. ASSUME HandleResumed  PROVE TypeOK'
  <2> DEFINE frame == Head(wire[tab.conn])
  <2>1. /\ frame.gap \in BOOLEAN /\ frame.upto \in 0..MaxEvents
        /\ wire' \in [Conns -> Seq(Frames)] /\ tab.conn \in Conns
    BY <1>21, HeadFrame, FrameShapes DEF HandleResumed, Receives
  <2>3. TabTypes'
    BY <1>21, <2>1, TabReceives, Numbers DEF HandleResumed, TabTypes
  <2>4. ConnTypes'
    BY <1>21, <2>1 DEF HandleResumed, ConnTypes
  <2> QED
    BY <1>21, <2>3, <2>4, ServerFrame, AccessFrame, GrantFrame DEF HandleResumed
<1>22. ASSUME RecoverFromGap  PROVE TypeOK'
  <2>1. DOMAIN log \subseteq Events
    BY Numbers DEF ServerTypes, Events
  <2>2. TabTypes'
    BY <1>22, <2>1, TabReceives DEF RecoverFromGap, TabTypes
  <2> QED
    BY <1>22, <2>2, ServerFrame, AccessFrame, GrantFrame, ConnFrame DEF RecoverFromGap
<1>23. ASSUME Lose  PROVE TypeOK'
  <2>1. TabTypes'
    <3>1. tab' \in TabStates /\ tab'.phase = "down"
      BY <1>23, TabConnects
    <3>2. known' = known
      BY <1>23 DEF Lose
    <3> QED
      BY <3>1, <3>2 DEF TabTypes
  <2>2. wire' \in [Conns -> Seq(Frames)] /\ commands' \in [Conns -> Seq(Commands)]
    <3>1. <<>> \in Seq(Frames) /\ <<>> \in Seq(Commands)
      OBVIOUS
    <3>2. wire' = [wire EXCEPT ![tab.conn] = <<>>]
          /\ commands' = [commands EXCEPT ![tab.conn] = <<>>]
      BY <1>23 DEF Lose
    <3> QED
      BY <3>1, <3>2 DEF ConnTypes
  <2>3. ConnTypes'
    BY <1>23, <2>2 DEF Lose, ConnTypes
  <2> QED
    BY <1>23, <2>1, <2>3, ServerFrame, AccessFrame, GrantFrame DEF Lose
<1>24. ASSUME NEW t \in Topics, Follow(t)  PROVE TypeOK'
  <2>1. DOMAIN log \subseteq Events
    BY Numbers DEF ServerTypes, Events
  <2>2. TabTypes'
    BY <1>24, <2>1, TabConnects DEF Follow, TabTypes
  <2>3. [kind |-> "subscribe", topics |-> {t}] \in Commands
    BY DEF Commands
  <2>4. ConnTypes'
    BY <1>24, <2>3, ToldCommands DEF Follow, ConnTypes
  <2> QED
    BY <1>24, <2>2, <2>4, ServerFrame, AccessFrame, GrantFrame DEF Follow
<1>25. ASSUME NEW t \in Topics, Unfollow(t)  PROVE TypeOK'
  <2>1. TabTypes'
    BY <1>25, TabConnects DEF Unfollow, TabTypes
  <2>2. [kind |-> "unsubscribe", topics |-> {t}] \in Commands
    BY DEF Commands
  <2>3. ConnTypes'
    BY <1>25, <2>2, ToldCommands DEF Unfollow, ConnTypes
  <2>4. owed' \subseteq owed
    BY <1>25 DEF Unfollow, Without
  <2> QED
    BY <1>25, <2>1, <2>3, <2>4, ServerFrame, AccessFrame, GrantFrame DEF Unfollow
<1>26. ASSUME NEW t \in Topics, Withdraw(t)  PROVE TypeOK'
  <2>1. AccessTypes'
    BY <1>26, Numbers DEF Withdraw, AccessTypes
  <2>2. owed' \subseteq owed
    BY <1>26 DEF Withdraw, Without
  <2> QED
    BY <1>26, <2>1, <2>2, ServerFrame, GrantFrame, ConnFrame, TabFrame DEF Withdraw
<1>27. ASSUME Tick  PROVE TypeOK'
  <2>1. 0 \in 0..Ttl /\ \A n \in 0..Ttl : Older(n) \in 0..Ttl
    BY Numbers DEF Older
  <2>2. AccessTypes'
    BY <1>27, <2>1 DEF Tick, AccessTypes
  <2>3. age' \in [Conns -> [Topics -> 0..Ttl]]
    BY <1>27, <2>1 DEF Tick, GrantTypes
  <2>4. GrantTypes'
    BY <1>27, <2>3 DEF Tick, GrantTypes
  <2> QED
    BY <1>27, <2>2, <2>4, ServerFrame, ConnFrame, TabFrame DEF Tick
<1>28. CASE UNCHANGED vars
  BY <1>28, ServerFrame, AccessFrame, GrantFrame, ConnFrame, TabFrame DEF vars
<1>29. ASSUME NEW c \in Conns, DropRevoked(c)  PROVE TypeOK'
  <2>1. ServerTypes'
    BY <1>29, ServedShape DEF DropRevoked, ServerTypes
  <2>2. GrantTypes' /\ owed' \subseteq Conns \X Events
    BY <1>29, DiscardTypes DEF DropRevoked, GrantTypes
  <2> QED
    BY <1>29, <2>1, <2>2, AccessFrame, ConnFrame, TabFrame DEF DropRevoked
<1>30. ASSUME NEW c \in Conns, DropUnsubscribed(c)  PROVE TypeOK'
  <2>1. ConnTypes'
    BY <1>30, ReaderDone DEF DropUnsubscribed, ConnTypes
  <2>2. crossed' \subseteq Conns \X Topics
    BY <1>30 DEF DropUnsubscribed, GrantTypes
  <2>3. GrantTypes' /\ owed' \subseteq Conns \X Events
    BY <1>30, <2>2, DiscardTypes DEF DropUnsubscribed
  <2> QED
    BY <1>30, <2>1, <2>3, ServerFrame, AccessFrame, TabFrame DEF DropUnsubscribed
<1>31. ASSUME NEW c \in Conns, NEW t \in Topics, FindFollowed(c, t)  PROVE TypeOK'
  <2>1. ConnTypes'
    BY <1>31, ReaderTakesUp DEF FindFollowed, ConnTypes
  <2> QED
    BY <1>31, <2>1, ServerFrame, AccessFrame, GrantFrame, TabFrame DEF FindFollowed
<1> QED
  BY <1>1, <1>2, <1>3, <1>4, <1>5, <1>6, <1>7, <1>8, <1>9, <1>10, <1>11, <1>12, <1>13, <1>14,
     <1>15, <1>16, <1>17, <1>18, <1>19, <1>20, <1>21, <1>22, <1>23, <1>24, <1>25, <1>26, <1>27,
     <1>28, <1>29, <1>30, <1>31, StepCases


(* The channel starts well typed.                                          *)
LEMMA TypeInit == Init => TypeOK
<1> SUFFICES ASSUME Init PROVE TypeOK
  OBVIOUS
<1>1. ServerTypes /\ AccessTypes
  BY Numbers, ThreadShapes DEF Init, ServerTypes, AccessTypes
<1>2. GrantTypes
  BY Numbers DEF Init, GrantTypes
<1>3. ConnTypes
  <2>1. Listening \in Readers
    BY DEF Listening, Readers
  <2> QED
    BY <2>1, Numbers DEF Init, ConnTypes
<1>4. TabTypes
  <2>1. PICK open \in SUBSET Topics : tab = [NewTab EXCEPT !.wanted = open]
    BY DEF Init
  <2>2. tab = [conn |-> NoConn, phase |-> "down", wanted |-> open, last |-> 0,
               missed |-> FALSE, effect |-> FALSE, resumed |-> 0]
    BY <2>1 DEF NewTab
  <2>3. tab \in TabStates
    BY <2>2, Numbers DEF TabStates
  <2> QED
    BY <2>2, <2>3 DEF Init, TabTypes
<1> QED
  BY <1>1, <1>2, <1>3, <1>4 DEF Init, TypeOK

(* Type correctness of the channel (websocket/manager.py, connection.py,   *)
(* client.ts), for every size and number of connections.                   *)
THEOREM TypeCorrect == Spec => []TypeOK
<1>1. Init => TypeOK
  BY TypeInit
<1>2. TypeOK /\ [Next]_vars => TypeOK'
  BY TypeStep
<1> QED
  BY <1>1, <1>2, PTL DEF Spec

-----------------------------------------------------------------------------
(* Connections that are not open                                           *)

(* The dispatch thread serves connections that were opened.                *)
ServesOpened ==
    /\ thread.todo \subseteq 1..tab.conn
    /\ thread.pc \in {"rechecked", "revoked"} => thread.conn \in thread.todo

(* Nothing travels on a connection the tab has lost or not yet opened.     *)
LinesEmpty ==
    \A c \in Conns : Abandoned(c) => commands[c] = <<>> /\ wire[c] = <<>>

(* The server knows nothing of a connection that was never opened.         *)
Unopened ==
    /\ up \subseteq 1..tab.conn /\ closed \subseteq 1..tab.conn
    /\ \A c \in Conns : c > tab.conn =>
         /\ following[c] = {} /\ sendq[c] = <<>>
         /\ reader[c].step = "waits" /\ reader[c].topic = NoTopic
         /\ \A t \in Topics : c \notin index[t]

Placed == ServesOpened /\ LinesEmpty /\ Unopened

(* A line that is read belongs to the open connection.                     *)
LEMMA ReadsOpen ==
    ASSUME TypeOK, LinesEmpty, NEW c \in Conns, NEW kind, Reads(c, kind)
    PROVE  c = tab.conn /\ tab.phase # "down"
BY DEF Reads, LinesEmpty, Abandoned

(* A reader at work belongs to a connection that was opened.               *)
LEMMA WorksOpened ==
    ASSUME TypeOK, Unopened, NEW c \in Conns, reader[c].step # "waits"
    PROVE  c <= tab.conn
<1>1. tab.conn \in Nat /\ c \in Nat
  BY TypeParts, Numbers
<1>2. ~(c > tab.conn)
  BY DEF Unopened
<1> QED
  BY <1>1, <1>2

(* What an endpoint does concerns a connection that was opened.            *)
LEMMA UnopenedKept ==
    ASSUME TypeOK, Unopened, UNCHANGED <<tab, up, closed, sendq>>,
           NEW c \in Conns, c <= tab.conn,
           \A d \in Conns \ {c} : reader'[d] = reader[d] /\ following'[d] = following[d],
           \A s \in Topics : index'[s] \subseteq index[s] \cup {c}
    PROVE  Unopened'
<1>1. tab.conn \in Nat /\ c \in Nat
  BY TypeParts, Numbers
<1>2. \A d \in Conns : d > tab.conn => d # c
  BY <1>1
<1> QED
  BY <1>2 DEF Unopened

(* Every step keeps them so.                                               *)
LEMMA PlacedStep ==
    ASSUME TypeOK, Placed, [Next]_vars
    PROVE  Placed'
<1> USE DEF Placed
<1> USE Numbers
<1>0. /\ ServerTypes /\ AccessTypes /\ GrantTypes /\ ConnTypes /\ TabTypes
      /\ tab.conn \in Nat
  BY TypeParts
<1>1. ASSUME NEW t \in Topics, Build(t)  PROVE Placed'
  BY <1>1 DEF Build, ServesOpened, LinesEmpty, Unopened, Abandoned, grantVars, connVars, tabVars
<1>2. ASSUME NEW e \in Events, HandOver(e)  PROVE Placed'
  BY <1>2 DEF HandOver, ServesOpened, LinesEmpty, Unopened, Abandoned, grantVars, connVars, tabVars
<1>3. ASSUME TakeEvent  PROVE Placed'
  <2>1. Candidates(Head(inbox)) \subseteq 1..tab.conn
    BY <1>0 DEF Candidates, ConnTypes, Unopened
  <2>2. Head(inbox) \in Events
    BY <1>0, <1>3 DEF TakeEvent, ServerTypes
  <2>3. ServesOpened'
    <3>1. CASE thread' = IdleThread
      BY <1>3, <3>1, ThreadShapes DEF TakeEvent, ServesOpened, tabVars
    <3>2. CASE thread' = RoutingTo(Head(inbox), Candidates(Head(inbox)))
      BY <1>3, <2>1, <3>2 DEF TakeEvent, ServesOpened, tabVars, RoutingTo
    <3> QED
      BY <1>3, <3>1, <3>2 DEF TakeEvent
  <2> QED
    BY <1>3, <2>3 DEF TakeEvent, LinesEmpty, Unopened, Abandoned, grantVars, connVars, tabVars
<1>4. ASSUME NEW c \in Conns, Skip(c)  PROVE Placed'
  <2>1. ServesOpened'
    BY <1>0, <1>4, ServedShape, ThreadShapes DEF Skip, ServerTypes, ServesOpened, tabVars
  <2> QED
    BY <1>4, <2>1 DEF Skip, LinesEmpty, Unopened, Abandoned, grantVars, connVars, tabVars
<1>5. ASSUME NEW c \in Conns, DeliverFresh(c)  PROVE Placed'
  <2>1. c \in thread.todo /\ c \in 1..tab.conn
    BY <1>5 DEF DeliverFresh, ServesOpened
  <2>2. ServesOpened'
    BY <1>0, <1>5, ServedShape, ThreadShapes DEF DeliverFresh, ServerTypes, ServesOpened, tabVars
  <2>3. closed' \subseteq 1..tab.conn /\ \A d \in Conns \ {c} : sendq'[d] = sendq[d]
    BY <1>0, <1>5, <2>1 DEF DeliverFresh, Enqueue, Unopened, ConnTypes
  <2> QED
    BY <1>0, <1>5, <2>1, <2>2, <2>3 DEF DeliverFresh, LinesEmpty, Unopened, Abandoned, grantVars, tabVars
<1>6. ASSUME NEW c \in Conns, Recheck(c)  PROVE Placed'
  <2>1. /\ thread'.pc = "rechecked" /\ thread'.todo = thread.todo /\ thread'.conn = c
        /\ c \in thread.todo
    BY <1>6 DEF Recheck
  <2> QED
    BY <1>6, <2>1 DEF Recheck, ServesOpened, LinesEmpty, Unopened, Abandoned, grantVars, connVars, tabVars
<1>7. ASSUME NEW c \in Conns, Renew(c)  PROVE Placed'
  <2>1. c \in thread.todo /\ c \in 1..tab.conn
    BY <1>7 DEF Renew, ServesOpened
  <2>2. ServesOpened'
    BY <1>0, <1>7, ServedShape, ThreadShapes DEF Renew, ServerTypes, ServesOpened, tabVars
  <2>3. closed' \subseteq 1..tab.conn /\ \A d \in Conns \ {c} : sendq'[d] = sendq[d]
    BY <1>0, <1>7, <2>1 DEF Renew, Enqueue, Unopened, ConnTypes
  <2>4. \A d \in Conns \ {c} : following'[d] = following[d]
    BY <1>0, <1>7 DEF Renew, GrantTypes
  <2> QED
    BY <1>0, <1>7, <2>1, <2>2, <2>3, <2>4 DEF Renew, LinesEmpty, Unopened, Abandoned, tabVars
<1>8. ASSUME NEW c \in Conns, Revoke(c)  PROVE Placed'
  <2>1. thread' = Served(c) \/ (thread'.todo = thread.todo /\ thread'.conn = thread.conn)
    <3>1. thread' = Served(c) \/ thread' = [thread EXCEPT !.pc = "revoked"]
      BY <1>8 DEF Revoke
    <3> QED
      BY <1>0, <1>8, <3>1, RevokedShape DEF Revoke, ServerTypes
  <2>2. ServesOpened'
    <3>1. CASE thread' = Served(c)
      BY <1>0, <1>8, <3>1, ServedShape, ThreadShapes DEF Revoke, ServerTypes, ServesOpened, tabVars
    <3>2. CASE thread'.todo = thread.todo /\ thread'.conn = thread.conn
      BY <1>8, <3>2 DEF Revoke, ServesOpened, tabVars
    <3> QED
      BY <2>1, <3>1, <3>2
  <2>3. \A d \in Conns : following'[d] \subseteq following[d]
    BY <1>0, <1>8 DEF Revoke, TakeBack, GrantTypes
  <2> QED
    BY <1>8, <2>2, <2>3 DEF Revoke, LinesEmpty, Unopened, Abandoned, connVars, tabVars
<1>9. ASSUME NEW c \in Conns, Resume(c)  PROVE Placed'
  <2>1. c = tab.conn /\ tab.phase # "down"
    BY <1>9, ReadsOpen DEF Resume
  <2>2. \A d \in Conns \ {c} : reader'[d] = reader[d]
    BY <1>0, <1>9, ReaderGoesOn DEF Resume
  <2>3. \A d \in Conns \ {c} : commands'[d] = commands[d] /\ wire'[d] = wire[d]
    BY <1>0, <1>9 DEF Resume, ConnTypes
  <2>4. UNCHANGED <<thread, tab, up, closed, following, sendq, index>>
    BY <1>9 DEF Resume, serverVars, tabVars, grantVars
  <2>5. Unopened'
    <3>1. c <= tab.conn
      BY <1>0, <2>1
    <3>2. \A d \in Conns \ {c} : reader'[d] = reader[d] /\ following'[d] = following[d]
      BY <2>2, <2>4
    <3>3. \A s \in Topics : index'[s] \subseteq index[s] \cup {c}
      BY <2>4
    <3> QED
      BY <2>4, <3>1, <3>2, <3>3, UnopenedKept
  <2> QED
    BY <2>1, <2>3, <2>4, <2>5 DEF ServesOpened, LinesEmpty, Abandoned
<1>10. ASSUME NEW c \in Conns, ReadSubscribe(c)  PROVE Placed'
  <2>1. c = tab.conn /\ tab.phase # "down"
    BY <1>10, ReadsOpen DEF ReadSubscribe
  <2>2. \A d \in Conns \ {c} : reader'[d] = reader[d] /\ commands'[d] = commands[d]
    BY <1>0, <1>10 DEF ReadSubscribe, GoesOnWith, ConnTypes
  <2>3. UNCHANGED <<thread, tab, up, closed, following, sendq, index, wire>>
    BY <1>10 DEF ReadSubscribe, serverVars, tabVars, grantVars
  <2>4. Unopened'
    BY <1>0, <2>1, <2>2, <2>3, UnopenedKept
  <2> QED
    BY <2>1, <2>2, <2>3, <2>4 DEF ServesOpened, LinesEmpty, Abandoned
<1>11. ASSUME NEW c \in Conns, ReadUnsubscribe(c)  PROVE Placed'
  <2>1. c = tab.conn /\ tab.phase # "down"
    BY <1>11, ReadsOpen DEF ReadUnsubscribe
  <2>2. \A d \in Conns \ {c} : commands'[d] = commands[d]
    BY <1>0, <1>11 DEF ReadUnsubscribe, ConnTypes
  <2>3. PICK t \in Topics : TakeBack(c, t) /\ \A d \in Conns \ {c} : reader'[d] = reader[d]
    BY <1>11, ReaderUnsubscribes
  <2>4. \A d \in Conns : following'[d] \subseteq following[d]
    BY <1>0, <2>3 DEF TakeBack, GrantTypes
  <2> QED
    BY <1>0, <1>11, <2>1, <2>2, <2>3, <2>4 DEF ReadUnsubscribe, ServesOpened, LinesEmpty, Unopened,
                            Abandoned, tabVars, serverVars
<1>12. ASSUME NEW c \in Conns, Grant(c)  PROVE Placed'
  <2>1. c <= tab.conn
    BY <1>12, WorksOpened DEF Grant, AtStep
  <2>2. \A d \in Conns \ {c} : reader'[d] = reader[d] /\ following'[d] = following[d]
    BY <1>0, <1>12 DEF Grant, ConnTypes, GrantTypes
  <2>8. UNCHANGED <<thread, tab, up, closed, sendq, index, commands, wire>>
    BY <1>12 DEF Grant, serverVars, tabVars
  <2>9. Unopened'
    BY <1>0, <2>1, <2>2, <2>8, UnopenedKept
  <2> QED
    BY <2>8, <2>9 DEF ServesOpened, LinesEmpty, Abandoned
<1>13. ASSUME NEW c \in Conns, IndexGrant(c)  PROVE Placed'
  <2>1. c <= tab.conn
    BY <1>13, WorksOpened DEF IndexGrant, AtStep
  <2>2. \A d \in Conns \ {c} : reader'[d] = reader[d]
    BY <1>0, <1>13, ReaderDone DEF IndexGrant
  <2>3. \A s \in Topics : index'[s] \subseteq index[s] \cup {c}
    BY <1>0, <1>13 DEF IndexGrant, GrantTypes
  <2>4. UNCHANGED <<thread, tab, up, closed, following, sendq, commands, wire>>
    BY <1>13 DEF IndexGrant, serverVars, tabVars
  <2>5. Unopened'
    BY <1>0, <2>1, <2>2, <2>3, <2>4, UnopenedKept
  <2> QED
    BY <2>4, <2>5 DEF ServesOpened, LinesEmpty, Abandoned
<1>14. ASSUME NEW c \in Conns, RenewFollowed(c)  PROVE Placed'
  <2>1. c <= tab.conn
    BY <1>14, WorksOpened DEF RenewFollowed, AtStep
  <2>2. \A d \in Conns \ {c} : reader'[d] = reader[d]
    BY <1>0, <1>14, ReaderDone DEF RenewFollowed
  <2>3. \A d \in Conns \ {c} : following'[d] = following[d]
    BY <1>0, <1>14 DEF RenewFollowed, GrantTypes
  <2>8. UNCHANGED <<thread, tab, up, closed, sendq, index, commands, wire>>
    BY <1>14 DEF RenewFollowed, serverVars, tabVars
  <2>9. Unopened'
    BY <1>0, <2>1, <2>2, <2>3, <2>8, UnopenedKept
  <2> QED
    BY <2>8, <2>9 DEF ServesOpened, LinesEmpty, Abandoned
<1>15. ASSUME NEW c \in Conns, NEW t \in Topics, Decide(c, t)  PROVE Placed'
  <2>1. c <= tab.conn
    BY <1>15, WorksOpened DEF Decide
  <2>2. \A d \in Conns \ {c} : reader'[d] = reader[d]
    BY <1>0, <1>15 DEF Decide, TakesUp, GoesOnWith, ConnTypes
  <2>8. UNCHANGED <<thread, tab, up, closed, following, sendq, index, commands, wire>>
    BY <1>15 DEF Decide, serverVars, grantVars, tabVars
  <2>9. Unopened'
    BY <1>0, <2>1, <2>2, <2>8, UnopenedKept
  <2> QED
    BY <2>8, <2>9 DEF ServesOpened, LinesEmpty, Abandoned
<1>16. ASSUME NEW c \in Conns, Write(c)  PROVE Placed'
  <2>1. c = tab.conn /\ tab.phase # "down"
    BY <1>16 DEF Write, Abandoned
  <2>2. \A d \in Conns \ {c} : sendq'[d] = sendq[d] /\ wire'[d] = wire[d]
    BY <1>0, <1>16 DEF Write, ConnTypes
  <2> QED
    BY <1>0, <1>16, <2>1, <2>2 DEF Write, ServesOpened, LinesEmpty, Unopened,
                            Abandoned, grantVars, tabVars, serverVars
<1>17. ASSUME NEW c \in Conns, Release(c)  PROVE Placed'
  <2>1. c \in 1..tab.conn
    BY <1>17 DEF Release, Unopened
  <2>2. /\ \A d \in Conns : sendq'[d] = sendq[d] \/ sendq'[d] = <<>>
        /\ \A d \in Conns : commands'[d] = commands[d] \/ commands'[d] = <<>>
    BY <1>0, <1>17 DEF Release, ConnTypes
  <2>3. \A s \in Topics : index'[s] \subseteq index[s]
    BY <1>0, <1>17 DEF Release, Removed, GrantTypes
  <2>4. up' \subseteq 1..tab.conn /\ closed' \subseteq 1..tab.conn
    BY <1>17, <2>1 DEF Release, Unopened
  <2> QED
    BY <1>0, <1>17, <2>2, <2>3, <2>4 DEF Release, ServesOpened, LinesEmpty, Unopened,
                            Abandoned, tabVars, serverVars
<1>18. ASSUME Connect  PROVE Placed'
  <2>1. /\ tab.phase = "down" /\ tab'.conn = tab.conn + 1 /\ tab'.phase = "open"
        /\ tab.conn + 1 \in Conns
    BY <1>0, <1>18, TabConnects DEF Connect
  <2>2. /\ up' \subseteq 1..tab'.conn
        /\ closed' \subseteq 1..tab'.conn
    <3>1. Cardinality(live) >= MaxPerUser => Oldest \in up
      BY <1>0, OldestIsLive DEF ConnTypes
    <3>2. 1..tab.conn \subseteq 1..tab'.conn /\ tab.conn + 1 \in 1..tab'.conn
      BY <1>0, <2>1
    <3> QED
      BY <1>18, <3>1, <3>2 DEF Connect, Unopened
  <2>3. \A s \in Topics : index'[s] \subseteq index[s]
    BY <1>0, <1>18 DEF Connect, Removed, GrantTypes
  <2>4. \A d \in Conns : d # tab'.conn => wire'[d] = wire[d]
    BY <1>0, <1>18, <2>1 DEF Connect, ConnTypes
  <2>5. LinesEmpty'
    BY <1>18, <2>1, <2>4 DEF Connect, LinesEmpty, Abandoned
  <2>6. ServesOpened'
    BY <1>0, <1>18, <2>1 DEF Connect, ServesOpened, serverVars
  <2>7. Unopened'
    BY <1>0, <1>18, <2>1, <2>2, <2>3 DEF Connect, Unopened
  <2> QED
    BY <2>5, <2>6, <2>7
<1>19. ASSUME HandleReady  PROVE Placed'
  <2>1. tab'.conn = tab.conn /\ tab'.phase # "down" /\ tab.phase # "down"
    BY <1>0, <1>19, TabReceives DEF HandleReady, Receives
  <2>2. \A d \in Conns : d # tab.conn => wire'[d] = wire[d] /\ commands'[d] = commands[d]
    BY <1>0, <1>19 DEF HandleReady, Receives, ConnTypes
  <2> QED
    BY <1>19, <2>1, <2>2 DEF HandleReady, ServesOpened, LinesEmpty, Unopened, Abandoned,
                             grantVars, serverVars
<1>20. ASSUME HandleEvent  PROVE Placed'
  <2>1. tab'.conn = tab.conn /\ tab'.phase = tab.phase /\ tab.phase # "down"
    BY <1>0, <1>20, TabReceives DEF HandleEvent, Receives
  <2>2. \A d \in Conns : d # tab.conn => wire'[d] = wire[d]
    BY <1>0, <1>20 DEF HandleEvent, Receives, ConnTypes
  <2> QED
    BY <1>20, <2>1, <2>2 DEF HandleEvent, ServesOpened, LinesEmpty, Unopened, Abandoned,
                             grantVars, serverVars
<1>21. ASSUME HandleResumed  PROVE Placed'
  <2>1. tab'.conn = tab.conn /\ tab'.phase = tab.phase /\ tab.phase # "down"
    BY <1>0, <1>21, TabReceives DEF HandleResumed, Receives
  <2>2. \A d \in Conns : d # tab.conn => wire'[d] = wire[d]
    BY <1>0, <1>21 DEF HandleResumed, Receives, ConnTypes
  <2> QED
    BY <1>21, <2>1, <2>2 DEF HandleResumed, ServesOpened, LinesEmpty, Unopened, Abandoned,
                             grantVars, serverVars
<1>22. ASSUME RecoverFromGap  PROVE Placed'
  <2>1. tab'.conn = tab.conn /\ tab'.phase = tab.phase
    BY <1>0, <1>22, TabReceives
  <2> QED
    BY <1>22, <2>1 DEF RecoverFromGap, ServesOpened, LinesEmpty, Unopened, Abandoned,
                       grantVars, serverVars, connVars
<1>23. ASSUME Lose  PROVE Placed'
  <2>1. tab'.conn = tab.conn
    BY <1>0, <1>23, TabConnects
  <2>2. \A d \in Conns :
          /\ wire'[d] = IF d = tab.conn THEN <<>> ELSE wire[d]
          /\ commands'[d] = IF d = tab.conn THEN <<>> ELSE commands[d]
    BY <1>0, <1>23 DEF Lose, ConnTypes
  <2> QED
    BY <1>23, <2>1, <2>2 DEF Lose, ServesOpened, LinesEmpty, Unopened, Abandoned,
                       grantVars, serverVars
<1>24. ASSUME NEW t \in Topics, Follow(t)  PROVE Placed'
  <2>1. tab'.conn = tab.conn /\ tab'.phase = tab.phase
    BY <1>0, <1>24, TabConnects
  <2>2. \A d \in Conns : Abandoned(d) => commands'[d] = commands[d]
    BY <1>0, <1>24 DEF Follow, Told, Abandoned, ConnTypes
  <2> QED
    BY <1>24, <2>1, <2>2 DEF Follow, ServesOpened, LinesEmpty, Unopened, Abandoned,
                       grantVars, serverVars
<1>25. ASSUME NEW t \in Topics, Unfollow(t)  PROVE Placed'
  <2>1. tab'.conn = tab.conn /\ tab'.phase = tab.phase
    BY <1>0, <1>25, TabConnects
  <2>2. \A d \in Conns : Abandoned(d) => commands'[d] = commands[d]
    BY <1>0, <1>25 DEF Unfollow, Told, Abandoned, ConnTypes
  <2> QED
    BY <1>25, <2>1, <2>2 DEF Unfollow, ServesOpened, LinesEmpty, Unopened, Abandoned,
                       grantVars, serverVars
<1>26. ASSUME NEW t \in Topics, Withdraw(t)  PROVE Placed'
  BY <1>26 DEF Withdraw, ServesOpened, LinesEmpty, Unopened, Abandoned, grantVars, connVars, tabVars,
               serverVars
<1>27. ASSUME Tick  PROVE Placed'
  BY <1>27 DEF Tick, ServesOpened, LinesEmpty, Unopened, Abandoned, connVars, tabVars, serverVars
<1>28. CASE UNCHANGED vars
  BY <1>28 DEF vars, ServesOpened, LinesEmpty, Unopened, Abandoned, grantVars, connVars, tabVars,
               serverVars
<1>29. ASSUME NEW c \in Conns, DropRevoked(c)  PROVE Placed'
  <2>1. ServesOpened'
    BY <1>0, <1>29, ServedShape, ThreadShapes DEF DropRevoked, ServerTypes, ServesOpened, tabVars
  <2>2. \A s \in Topics : index'[s] \subseteq index[s]
    BY <1>0, <1>29 DEF DropRevoked, Discard, GrantTypes
  <2> QED
    BY <1>29, <2>1, <2>2 DEF DropRevoked, LinesEmpty, Unopened, Abandoned, connVars, tabVars
<1>30. ASSUME NEW c \in Conns, DropUnsubscribed(c)  PROVE Placed'
  <2>1. c <= tab.conn
    BY <1>30, WorksOpened DEF DropUnsubscribed, AtStep
  <2>2. \A d \in Conns \ {c} : reader'[d] = reader[d]
    BY <1>0, <1>30, ReaderDone DEF DropUnsubscribed
  <2>3. \A s \in Topics : index'[s] \subseteq index[s]
    BY <1>0, <1>30 DEF DropUnsubscribed, Discard, GrantTypes
  <2>8. UNCHANGED <<thread, tab, up, closed, following, sendq, commands, wire>>
    BY <1>30 DEF DropUnsubscribed, serverVars, tabVars
  <2>9. Unopened'
    BY <1>0, <2>1, <2>2, <2>3, <2>8, UnopenedKept
  <2> QED
    BY <2>8, <2>9 DEF ServesOpened, LinesEmpty, Abandoned
<1>31. ASSUME NEW c \in Conns, NEW t \in Topics, FindFollowed(c, t)  PROVE Placed'
  <2>1. c <= tab.conn
    BY <1>31, WorksOpened DEF FindFollowed
  <2>2. \A d \in Conns \ {c} : reader'[d] = reader[d]
    BY <1>0, <1>31, ReaderTakesUp DEF FindFollowed
  <2>8. UNCHANGED <<thread, tab, up, closed, following, sendq, index, commands, wire>>
    BY <1>31 DEF FindFollowed, serverVars, grantVars, tabVars
  <2>9. Unopened'
    BY <1>0, <2>1, <2>2, <2>8, UnopenedKept
  <2> QED
    BY <2>8, <2>9 DEF ServesOpened, LinesEmpty, Abandoned
<1> QED
  BY <1>1, <1>2, <1>3, <1>4, <1>5, <1>6, <1>7, <1>8, <1>9, <1>10, <1>11, <1>12, <1>13, <1>14,
     <1>15, <1>16, <1>17, <1>18, <1>19, <1>20, <1>21, <1>22, <1>23, <1>24, <1>25, <1>26, <1>27,
     <1>28, <1>29, <1>30, <1>31, StepCases


-----------------------------------------------------------------------------
(* The index                                                               *)

(* Index and grants agree on a subscription, or one of its changes is under *)
(* way: nothing else has touched what that change will leave behind.       *)
PairInv(c, t) ==
    \/ <<c, t>> \in crossed
    \/ /\ \/ c \in index[t] <=> t \in following[c] /\ c \in live
          \/ Indexing(c, t) \/ Discarding(c, t) \/ Revoking(c, t)
       /\ Indexing(c, t) => t \in following[c] /\ c \in live /\ ~Revoking(c, t)
       /\ Discarding(c, t) \/ Revoking(c, t) => t \notin following[c]

IndexInv == \A c \in Conns, t \in Topics : PairInv(c, t)

(* A step elsewhere.                                                       *)
LEMMA IndexFrame ==
    ASSUME IndexInv, UNCHANGED <<index, following, live, crossed, reader, thread>>
    PROVE  IndexInv'
<1> SUFFICES ASSUME NEW d \in Conns, NEW s \in Topics PROVE PairInv(d, s)'
  BY DEF IndexInv
<1>1. PairInv(d, s)
  BY DEF IndexInv
<1> QED
  BY <1>1 DEF PairInv, Indexing, Discarding, Revoking

(* A step of the dispatch thread between its revocations.                  *)
LEMMA IndexThread ==
    ASSUME IndexInv, UNCHANGED <<index, following, live, crossed, reader>>,
           thread.pc # "revoked", thread'.pc # "revoked"
    PROVE  IndexInv'
<1> SUFFICES ASSUME NEW d \in Conns, NEW s \in Topics PROVE PairInv(d, s)'
  BY DEF IndexInv
<1>1. PairInv(d, s)
  BY DEF IndexInv
<1> QED
  BY <1>1 DEF PairInv, Indexing, Discarding, Revoking

(* A step of a reader between the changes it makes.                        *)
LEMMA IndexReader ==
    ASSUME IndexInv, UNCHANGED <<index, following, live, crossed, thread>>, NEW c \in Conns,
           \A d \in Conns \ {c} : reader'[d] = reader[d],
           reader[c].step \notin {"indexes", "discards"},
           reader'[c].step \notin {"indexes", "discards"}
    PROVE  IndexInv'
<1> SUFFICES ASSUME NEW d \in Conns, NEW s \in Topics PROVE PairInv(d, s)'
  BY DEF IndexInv
<1>1. PairInv(d, s)
  BY DEF IndexInv
<1> QED
  BY <1>1 DEF PairInv, Indexing, Discarding, Revoking

(* Every step keeps the index and the grants in agreement.                 *)
LEMMA IndexStep ==
    ASSUME TypeOK, Placed, IndexInv, [Next]_vars
    PROVE  IndexInv'
<1>0. /\ ServerTypes /\ AccessTypes /\ GrantTypes /\ ConnTypes /\ TabTypes
      /\ tab.conn \in Nat
  BY TypeParts
<1> USE DEF serverVars, grantVars, connVars
<1>1. ASSUME NEW t \in Topics, Build(t)  PROVE IndexInv'
  BY <1>1, IndexFrame DEF Build
<1>2. ASSUME NEW e \in Events, HandOver(e)  PROVE IndexInv'
  BY <1>2, IndexFrame DEF HandOver
<1>3. ASSUME TakeEvent  PROVE IndexInv'
  <2>1. thread.pc # "revoked" /\ thread'.pc # "revoked"
    BY <1>3, ThreadShapes DEF TakeEvent, RoutingTo
  <2> QED
    BY <1>3, <2>1, IndexThread DEF TakeEvent
<1>4. ASSUME NEW c \in Conns, Skip(c)  PROVE IndexInv'
  <2>1. thread.pc # "revoked" /\ thread'.pc # "revoked"
    BY <1>0, <1>4, ServedShape, ThreadShapes DEF Skip, ServerTypes
  <2> QED
    BY <1>4, <2>1, IndexThread DEF Skip
<1>5. ASSUME NEW c \in Conns, DeliverFresh(c)  PROVE IndexInv'
  <2>1. thread.pc # "revoked" /\ thread'.pc # "revoked"
    BY <1>0, <1>5, ServedShape, ThreadShapes DEF DeliverFresh, ServerTypes
  <2> QED
    BY <1>5, <2>1, IndexThread DEF DeliverFresh
<1>6. ASSUME NEW c \in Conns, Recheck(c)  PROVE IndexInv'
  <2>1. thread.pc # "revoked" /\ thread'.pc # "revoked"
    BY <1>6 DEF Recheck
  <2> QED
    BY <1>6, <2>1, IndexThread DEF Recheck
<1>7. ASSUME NEW c \in Conns, Renew(c)  PROVE IndexInv'
  <2> DEFINE t == thread.topic
  <2>1. thread.pc # "revoked" /\ thread'.pc # "revoked" /\ t \in Topics
    BY <1>0, <1>7, ServedShape, ThreadShapes DEF Renew, ServerTypes
  <2>2. /\ \A d \in Conns, s \in Topics :
             s \in following'[d] <=> s \in following[d] \/ (d = c /\ s = t)
        /\ crossed' = IF t \in following[c] THEN crossed ELSE crossed \cup {<<c, t>>}
        /\ UNCHANGED <<index, live, reader>>
    BY <1>0, <1>7, <2>1 DEF Renew, GrantTypes
  <2> QED
    <3> SUFFICES ASSUME NEW d \in Conns, NEW s \in Topics PROVE PairInv(d, s)'
      BY DEF IndexInv
    <3>1. PairInv(d, s)
      BY DEF IndexInv
    <3> QED
      BY <2>1, <2>2, <3>1 DEF PairInv, Indexing, Discarding, Revoking
<1>8. ASSUME NEW c \in Conns, Revoke(c)  PROVE IndexInv'
  <2> DEFINE t == thread.topic
  <2>1. thread.pc = "rechecked" /\ t \in Topics /\ c = thread.conn
    BY <1>0, <1>8, ThreadShapes DEF Revoke, ServerTypes
  <2>2. /\ \A d \in Conns, s \in Topics :
             s \in following'[d] <=> s \in following[d] /\ ~(d = c /\ s = t)
        /\ UNCHANGED <<index, live, reader>>
    BY <1>0, <1>8 DEF Revoke, TakeBack, GrantTypes
  <2>3. crossed' = IF Indexing(c, t) THEN crossed \cup {<<c, t>>} ELSE crossed
    BY <1>8 DEF Revoke
  <2>4. CASE t \in following[c]
    <3>1. thread'.pc = "revoked" /\ thread'.conn = c /\ thread'.topic = t
      BY <1>0, <1>8, <2>1, <2>4, RevokedShape DEF Revoke, ServerTypes
    <3> QED
      <4> SUFFICES ASSUME NEW d \in Conns, NEW s \in Topics PROVE PairInv(d, s)'
        BY DEF IndexInv
      <4>1. PairInv(d, s)
        BY DEF IndexInv
      <4> QED
        BY <2>1, <2>2, <2>3, <2>4, <3>1, <4>1 DEF PairInv, Indexing, Discarding, Revoking
  <2>5. CASE t \notin following[c]
    <3>1. thread'.pc # "revoked"
      BY <1>0, <1>8, <2>1, <2>5, ServedShape, ThreadShapes DEF Revoke, ServerTypes
    <3>2. \A d \in Conns, s \in Topics : s \in following'[d] <=> s \in following[d]
      BY <2>2, <2>5
    <3> QED
      <4> SUFFICES ASSUME NEW d \in Conns, NEW s \in Topics PROVE PairInv(d, s)'
        BY DEF IndexInv
      <4>1. PairInv(d, s)
        BY DEF IndexInv
      <4> QED
        BY <2>1, <2>2, <2>3, <3>1, <3>2, <4>1 DEF PairInv, Indexing, Discarding, Revoking
  <2> QED
    BY <2>4, <2>5
<1>9. ASSUME NEW c \in Conns, Resume(c)  PROVE IndexInv'
  <2>1. /\ \A d \in Conns \ {c} : reader'[d] = reader[d]
        /\ reader[c].step = "waits" /\ reader'[c].step \notin {"indexes", "discards"}
    BY <1>0, <1>9, ReaderGoesOn DEF Resume, Reads
  <2> QED
    BY <1>9, <2>1, IndexReader DEF Resume
<1>10. ASSUME NEW c \in Conns, ReadSubscribe(c)  PROVE IndexInv'
  <2>1. Head(commands[c]).topics \subseteq Topics
    BY <1>0, <1>10, HeadCommand, CommandShapes DEF ReadSubscribe, Reads
  <2>2. /\ \A d \in Conns \ {c} : reader'[d] = reader[d]
        /\ reader[c].step = "waits" /\ reader'[c].step \notin {"indexes", "discards"}
    BY <1>0, <1>10, <2>1, ReaderGoesOn DEF ReadSubscribe, Reads
  <2> QED
    BY <1>10, <2>2, IndexReader DEF ReadSubscribe
<1>11. ASSUME NEW c \in Conns, ReadUnsubscribe(c)  PROVE IndexInv'
  <2>1. PICK t \in Topics :
          /\ TakeBack(c, t)
          /\ \A d \in Conns \ {c} : reader'[d] = reader[d]
          /\ IF t \in following[c] THEN reader'[c].topic = t /\ reader'[c].step = "discards"
             ELSE reader'[c].step \in {"waits", "subscribes", "ended"}
    BY <1>11, ReaderUnsubscribes
  <2>2. /\ \A d \in Conns, s \in Topics :
             s \in following'[d] <=> s \in following[d] /\ ~(d = c /\ s = t)
        /\ UNCHANGED <<index, live, crossed, thread>>
    BY <1>0, <1>11, <2>1 DEF ReadUnsubscribe, TakeBack, GrantTypes
  <2>3. reader[c].step = "waits"
    BY <1>11 DEF ReadUnsubscribe, Reads
  <2> QED
    <3> SUFFICES ASSUME NEW d \in Conns, NEW s \in Topics PROVE PairInv(d, s)'
      BY DEF IndexInv
    <3>1. PairInv(d, s)
      BY DEF IndexInv
    <3> QED
      BY <2>1, <2>2, <2>3, <3>1 DEF PairInv, Indexing, Discarding, Revoking
<1>12. ASSUME NEW c \in Conns, Grant(c)  PROVE IndexInv'
  <2> DEFINE t == reader[c].topic
  <2>1. t \in Topics /\ reader[c].step = "grants"
    BY <1>0, <1>12, ReaderShape DEF Grant, AtStep, ConnTypes
  <2>2. /\ \A d \in Conns \ {c} : reader'[d] = reader[d]
        /\ reader'[c].topic = t /\ reader'[c].step = "indexes"
    <3>1. reader[c] \in Readers /\ reader' = [reader EXCEPT ![c] = [reader[c] EXCEPT !.step = "indexes"]]
      BY <1>0, <1>12 DEF Grant, ConnTypes
    <3>2. /\ [reader[c] EXCEPT !.step = "indexes"].topic = t
          /\ [reader[c] EXCEPT !.step = "indexes"].step = "indexes"
      BY <3>1 DEF Readers
    <3> QED
      BY <1>0, <3>1, <3>2 DEF ConnTypes
  <2>3. /\ \A d \in Conns, s \in Topics :
             s \in following'[d] <=> s \in following[d] \/ (d = c /\ s = t)
        /\ crossed' = IF c \in live /\ ~Revoking(c, t) THEN crossed ELSE crossed \cup {<<c, t>>}
        /\ UNCHANGED <<index, live, thread>>
    BY <1>0, <1>12, <2>1 DEF Grant, GrantTypes
  <2> QED
    <3> SUFFICES ASSUME NEW d \in Conns, NEW s \in Topics PROVE PairInv(d, s)'
      BY DEF IndexInv
    <3>1. PairInv(d, s)
      BY DEF IndexInv
    <3> QED
      BY <2>1, <2>2, <2>3, <3>1 DEF PairInv, Indexing, Discarding, Revoking
<1>13. ASSUME NEW c \in Conns, IndexGrant(c)  PROVE IndexInv'
  <2> DEFINE t == reader[c].topic
  <2>1. t \in Topics /\ reader[c].step = "indexes"
    BY <1>0, <1>13, ReaderShape DEF IndexGrant, AtStep, ConnTypes
  <2>2. /\ \A d \in Conns \ {c} : reader'[d] = reader[d]
        /\ reader'[c].step \notin {"indexes", "discards"}
    BY <1>0, <1>13, ReaderDone DEF IndexGrant
  <2>3. /\ \A d \in Conns, s \in Topics :
             d \in index'[s] <=> d \in index[s] \/ (d = c /\ s = t)
        /\ UNCHANGED <<following, live, crossed, thread>>
    BY <1>0, <1>13, <2>1 DEF IndexGrant, GrantTypes
  <2> QED
    <3> SUFFICES ASSUME NEW d \in Conns, NEW s \in Topics PROVE PairInv(d, s)'
      BY DEF IndexInv
    <3>1. PairInv(d, s)
      BY DEF IndexInv
    <3> QED
      BY <2>1, <2>2, <2>3, <3>1 DEF PairInv, Indexing, Discarding, Revoking
<1>14. ASSUME NEW c \in Conns, RenewFollowed(c)  PROVE IndexInv'
  <2> DEFINE t == reader[c].topic
  <2>1. t \in Topics /\ reader[c].step = "renews"
    BY <1>0, <1>14, ReaderShape DEF RenewFollowed, AtStep, ConnTypes
  <2>2. /\ \A d \in Conns \ {c} : reader'[d] = reader[d]
        /\ reader'[c].step \notin {"indexes", "discards"}
    BY <1>0, <1>14, ReaderDone DEF RenewFollowed
  <2>3. /\ \A d \in Conns, s \in Topics :
             s \in following'[d] <=> s \in following[d] \/ (d = c /\ s = t)
        /\ crossed' = IF t \in following[c] THEN crossed ELSE crossed \cup {<<c, t>>}
        /\ UNCHANGED <<index, live, thread>>
    BY <1>0, <1>14, <2>1 DEF RenewFollowed, GrantTypes
  <2> QED
    <3> SUFFICES ASSUME NEW d \in Conns, NEW s \in Topics PROVE PairInv(d, s)'
      BY DEF IndexInv
    <3>1. PairInv(d, s)
      BY DEF IndexInv
    <3> QED
      BY <2>1, <2>2, <2>3, <3>1 DEF PairInv, Indexing, Discarding, Revoking
<1>15. ASSUME NEW c \in Conns, NEW t \in Topics, Decide(c, t)  PROVE IndexInv'
  <2>1. reader[c].todo \ {t} \in SUBSET Topics
    BY <1>0, ReaderShape DEF ConnTypes
  <2>2. /\ \A d \in Conns \ {c} : reader'[d] = reader[d]
        /\ reader[c].step = "subscribes" /\ reader'[c].step \notin {"indexes", "discards"}
    BY <1>0, <1>15, <2>1, ReaderGoesOn, ReaderTakesUp DEF Decide
  <2> QED
    BY <1>15, <2>2, IndexReader DEF Decide
<1>16. ASSUME NEW c \in Conns, Write(c)  PROVE IndexInv'
  BY <1>16, IndexFrame DEF Write
<1>17. ASSUME NEW c \in Conns, Release(c)  PROVE IndexInv'
  <2>1. /\ \A d \in Conns, s \in Topics :
             d \in index'[s] <=> d \in index[s] /\ ~(d = c /\ c \in live /\ s \in following[c])
        /\ live' = live \ {c}
        /\ UNCHANGED <<following, reader, thread>>
    BY <1>0, <1>17 DEF Release, Removed, GrantTypes
  <2>2. \A d \in Conns, s \in Topics :
          <<d, s>> \in crossed' <=> <<d, s>> \in crossed \/ (d = c /\ Indexing(c, s))
    BY <1>17 DEF Release, Overlapped
  <2> QED
    <3> SUFFICES ASSUME NEW d \in Conns, NEW s \in Topics PROVE PairInv(d, s)'
      BY DEF IndexInv
    <3>1. PairInv(d, s)
      BY DEF IndexInv
    <3> QED
      BY <2>1, <2>2, <3>1 DEF PairInv, Indexing, Discarding, Revoking
<1>18. ASSUME Connect  PROVE IndexInv'
  <2> DEFINE n == tab.conn + 1
  <2>1. UNCHANGED <<following, reader, thread>>
    BY <1>18 DEF Connect
  <2>2. /\ n \in Conns /\ following[n] = {} /\ n \notin live /\ reader[n].step = "waits"
        /\ \A s \in Topics : n \notin index[s]
    <3>1. n \in Conns /\ n > tab.conn /\ n \notin 1..tab.conn
      BY <1>0, <1>18 DEF Connect
    <3> QED
      BY <1>0, <3>1 DEF Placed, Unopened, ConnTypes
  <2>3. CASE Cardinality(live) >= MaxPerUser
    <3>1. Oldest \in live /\ Oldest \in Conns
      BY <1>0, <2>3, OldestIsLive DEF ConnTypes
    <3>2. /\ \A d \in Conns, s \in Topics :
               d \in index'[s] <=> d \in index[s] /\ ~(d = Oldest /\ s \in following[d])
          /\ live' = (live \ {Oldest}) \cup {n}
      BY <1>0, <1>18, <2>3 DEF Connect, Removed, GrantTypes
    <3>3. \A d \in Conns, s \in Topics :
            <<d, s>> \in crossed' <=> <<d, s>> \in crossed \/ (d = Oldest /\ Indexing(Oldest, s))
      BY <1>18, <2>3 DEF Connect, Overlapped
    <3> QED
      <4> SUFFICES ASSUME NEW d \in Conns, NEW s \in Topics PROVE PairInv(d, s)'
        BY DEF IndexInv
      <4>1. PairInv(d, s)
        BY DEF IndexInv
      <4> QED
        BY <2>1, <2>2, <3>1, <3>2, <3>3, <4>1 DEF PairInv, Indexing, Discarding, Revoking
  <2>4. CASE ~(Cardinality(live) >= MaxPerUser)
    <3>1. live' = live \cup {n} /\ UNCHANGED <<index, crossed>>
      BY <1>18, <2>4 DEF Connect
    <3> QED
      <4> SUFFICES ASSUME NEW d \in Conns, NEW s \in Topics PROVE PairInv(d, s)'
        BY DEF IndexInv
      <4>1. PairInv(d, s)
        BY DEF IndexInv
      <4> QED
        BY <2>1, <2>2, <3>1, <4>1 DEF PairInv, Indexing, Discarding, Revoking
  <2> QED
    BY <2>3, <2>4
<1>19. ASSUME HandleReady  PROVE IndexInv'
  BY <1>19, IndexFrame DEF HandleReady
<1>20. ASSUME HandleEvent  PROVE IndexInv'
  BY <1>20, IndexFrame DEF HandleEvent
<1>21. ASSUME HandleResumed  PROVE IndexInv'
  BY <1>21, IndexFrame DEF HandleResumed
<1>22. ASSUME RecoverFromGap  PROVE IndexInv'
  BY <1>22, IndexFrame DEF RecoverFromGap
<1>23. ASSUME Lose  PROVE IndexInv'
  BY <1>23, IndexFrame DEF Lose
<1>24. ASSUME NEW t \in Topics, Follow(t)  PROVE IndexInv'
  BY <1>24, IndexFrame DEF Follow
<1>25. ASSUME NEW t \in Topics, Unfollow(t)  PROVE IndexInv'
  BY <1>25, IndexFrame DEF Unfollow
<1>26. ASSUME NEW t \in Topics, Withdraw(t)  PROVE IndexInv'
  BY <1>26, IndexFrame DEF Withdraw
<1>27. ASSUME Tick  PROVE IndexInv'
  BY <1>27, IndexFrame DEF Tick
<1>28. CASE UNCHANGED vars
  BY <1>28, IndexFrame DEF vars
<1>29. ASSUME NEW c \in Conns, DropRevoked(c)  PROVE IndexInv'
  <2> DEFINE t == thread.topic
  <2>1. thread.pc = "revoked" /\ c = thread.conn /\ thread'.pc # "revoked" /\ t \in Topics
    BY <1>0, <1>29, ServedShape, ThreadShapes DEF DropRevoked, ServerTypes
  <2>2. /\ \A d \in Conns, s \in Topics :
             d \in index'[s] <=> d \in index[s] /\ ~(d = c /\ s = t)
        /\ UNCHANGED <<following, live, crossed, reader>>
    BY <1>0, <1>29, <2>1 DEF DropRevoked, Discard, GrantTypes
  <2> QED
    <3> SUFFICES ASSUME NEW d \in Conns, NEW s \in Topics PROVE PairInv(d, s)'
      BY DEF IndexInv
    <3>1. PairInv(d, s)
      BY DEF IndexInv
    <3> QED
      BY <2>1, <2>2, <3>1 DEF PairInv, Indexing, Discarding, Revoking
<1>30. ASSUME NEW c \in Conns, DropUnsubscribed(c)  PROVE IndexInv'
  <2> DEFINE t == reader[c].topic
  <2>1. t \in Topics /\ reader[c].step = "discards"
    BY <1>0, <1>30, ReaderShape DEF DropUnsubscribed, AtStep, ConnTypes
  <2>2. /\ \A d \in Conns \ {c} : reader'[d] = reader[d]
        /\ reader'[c].step \notin {"indexes", "discards"}
    BY <1>0, <1>30, ReaderDone DEF DropUnsubscribed
  <2>3. /\ \A d \in Conns, s \in Topics :
             d \in index'[s] <=> d \in index[s] /\ ~(d = c /\ s = t)
        /\ crossed' = IF t \in following[c] THEN crossed ELSE crossed \ {<<c, t>>}
        /\ UNCHANGED <<following, live, thread>>
    BY <1>0, <1>30, <2>1 DEF DropUnsubscribed, Discard, GrantTypes
  <2> QED
    <3> SUFFICES ASSUME NEW d \in Conns, NEW s \in Topics PROVE PairInv(d, s)'
      BY DEF IndexInv
    <3>1. PairInv(d, s)
      BY DEF IndexInv
    <3> QED
      BY <2>1, <2>2, <2>3, <3>1 DEF PairInv, Indexing, Discarding, Revoking
<1>31. ASSUME NEW c \in Conns, NEW t \in Topics, FindFollowed(c, t)  PROVE IndexInv'
  <2>1. /\ \A d \in Conns \ {c} : reader'[d] = reader[d]
        /\ reader[c].step = "subscribes" /\ reader'[c].step \notin {"indexes", "discards"}
    BY <1>0, <1>31, ReaderTakesUp DEF FindFollowed
  <2> QED
    BY <1>31, <2>1, IndexReader DEF FindFollowed
<1> QED
  BY <1>1, <1>2, <1>3, <1>4, <1>5, <1>6, <1>7, <1>8, <1>9, <1>10, <1>11, <1>12, <1>13, <1>14,
     <1>15, <1>16, <1>17, <1>18, <1>19, <1>20, <1>21, <1>22, <1>23, <1>24, <1>25, <1>26, <1>27,
     <1>28, <1>29, <1>30, <1>31, StepCases

(* Before anything happens nothing is on its way.                          *)
LEMMA PlacedInit == Init => Placed
BY DEF Init, IdleThread, Listening, Placed, ServesOpened, LinesEmpty, Unopened

(* A granted subscription is in the index while its connection lives, and  *)
(* only then, while no thread is between the two, unless a grant met the   *)
(* end of the same subscription (manager.py: subscribe, unsubscribe,       *)
(* _remove_locked).                                                        *)
THEOREM IndexIsExact == Spec => []IndexAgrees
<1>1. Init => TypeOK /\ Placed /\ IndexInv
  <2>1. ASSUME Init, NEW d \in Conns, NEW t \in Topics  PROVE PairInv(d, t)
    <3>1. d \notin index[t] /\ t \notin following[d] /\ reader[d] = Listening /\ thread = IdleThread
      BY <2>1 DEF Init
    <3>2. Listening.step = "waits" /\ IdleThread.pc = "idle"
      BY DEF Listening, IdleThread
    <3> QED
      BY <3>1, <3>2 DEF PairInv, Indexing, Discarding, Revoking
  <2> QED
    BY <2>1, TypeInit, PlacedInit DEF IndexInv
<1>2. TypeOK /\ Placed /\ IndexInv /\ [Next]_vars => (TypeOK /\ Placed /\ IndexInv)'
  BY TypeStep, PlacedStep, IndexStep
<1>3. IndexInv => IndexAgrees
  BY DEF IndexInv, PairInv, IndexAgrees
<1> QED
  BY <1>1, <1>2, <1>3, PTL DEF Spec


-----------------------------------------------------------------------------
(* The age of a grant                                                      *)

(* Access that is there was not lost.                                      *)
AccessAge == access \subseteq Topics /\ \A t \in access : lostFor[t] = 0

(* A grant is at least as old as the loss of what it grants.               *)
GrantsAge ==
    \A c \in Conns, t \in Topics :
        t \in following[c] => <<c, t>> \in unchecked \/ lostFor[t] <= age[c][t]

(* What a lookup has just allowed was lost within the tick, if at all: the *)
(* dispatch thread's lookups, and those of the pool threads.               *)
LookupAge == thread.pc = "rechecked" /\ thread.allowed => lostFor[thread.topic] = 0
DecisionAge ==
    \A c \in Conns :
        reader[c].step = "grants" => lostFor[reader[c].topic] = 0

GrantAge == AccessAge /\ GrantsAge /\ LookupAge /\ DecisionAge

(* Every step keeps the ages.                                              *)
LEMMA GrantAgeStep ==
    ASSUME TypeOK, GrantAge, [Next]_vars
    PROVE  GrantAge'
<1> USE DEF GrantAge
<1>0. /\ ServerTypes /\ AccessTypes /\ GrantTypes /\ ConnTypes /\ TabTypes
      /\ tab.conn \in Nat
  BY TypeParts
<1>1. ASSUME NEW t \in Topics, Build(t)  PROVE GrantAge'
  BY <1>1 DEF Build, GrantAge, AccessAge, GrantsAge, LookupAge, DecisionAge,
     serverVars, accessVars, grantVars, connVars
<1>2. ASSUME NEW e \in Events, HandOver(e)  PROVE GrantAge'
  BY <1>2 DEF HandOver, GrantAge, AccessAge, GrantsAge, LookupAge, DecisionAge,
     serverVars, accessVars, grantVars, connVars
<1>3. ASSUME TakeEvent  PROVE GrantAge'
  <2>1. thread'.pc # "rechecked"
    BY <1>3, ThreadShapes DEF TakeEvent, RoutingTo
  <2> QED
    BY <1>3, <2>1 DEF TakeEvent, accessVars, grantVars, connVars, GrantAge, AccessAge, GrantsAge, LookupAge, DecisionAge
<1>4. ASSUME NEW c \in Conns, Skip(c)  PROVE GrantAge'
  <2>1. thread'.pc # "rechecked"
    BY <1>0, <1>4, ServedShape, ThreadShapes DEF Skip, ServerTypes
  <2> QED
    BY <1>4, <2>1 DEF Skip, accessVars, grantVars, connVars, GrantAge, AccessAge, GrantsAge, LookupAge, DecisionAge
<1>5. ASSUME NEW c \in Conns, DeliverFresh(c)  PROVE GrantAge'
  <2>1. thread'.pc # "rechecked"
    BY <1>0, <1>5, ServedShape, ThreadShapes DEF DeliverFresh, ServerTypes
  <2> QED
    BY <1>5, <2>1 DEF DeliverFresh, accessVars, grantVars, GrantAge, AccessAge, GrantsAge, LookupAge, DecisionAge
<1>6. ASSUME NEW c \in Conns, Recheck(c)  PROVE GrantAge'
  <2>1. DeliveryTopic(c, thread.event) \in Topics
    BY <1>0, <1>6, DeliveryTopicFollowed DEF Recheck
  <2>2. LookupAge'
    <3>1. thread'.topic = DeliveryTopic(c, thread.event)
          /\ (thread'.allowed => DeliveryTopic(c, thread.event) \in access)
      BY <1>6 DEF Recheck, Decision
    <3>2. lostFor' = lostFor
      BY <1>6 DEF Recheck, accessVars
    <3> QED
      BY <3>1, <3>2 DEF AccessAge, LookupAge
  <2> QED
    BY <1>6, <2>2 DEF Recheck, accessVars, grantVars, connVars, GrantAge, AccessAge, GrantsAge, DecisionAge
<1>7. ASSUME NEW c \in Conns, Renew(c)  PROVE GrantAge'
  <2>1. thread'.pc # "rechecked"
    BY <1>0, <1>7, ServedShape, ThreadShapes DEF Renew, ServerTypes
  <2>2. thread.topic \in Topics /\ lostFor[thread.topic] = 0
    BY <1>0, <1>7, ThreadShapes DEF Renew, ServerTypes, LookupAge
  <2>3. \A d \in Conns, s \in Topics : s \in following'[d] =>
          \/ d = c /\ s = thread.topic /\ age'[d][s] = 0
          \/ /\ s \in following[d] /\ age'[d][s] = age[d][s]
             /\ <<d, s>> \in unchecked => <<d, s>> \in unchecked'
    BY <1>0, <1>7, <2>2 DEF Renew, GrantTypes
  <2>4. GrantsAge'
    BY <1>0, <1>7, <2>2, <2>3 DEF Renew, GrantsAge, accessVars, AccessTypes
  <2> QED
    BY <1>7, <2>1, <2>4 DEF Renew, accessVars, GrantAge, AccessAge, LookupAge, DecisionAge
<1>8. ASSUME NEW c \in Conns, Revoke(c)  PROVE GrantAge'
  <2>1. thread'.pc # "rechecked"
    BY <1>0, <1>8, ServedShape, RevokedShape, ThreadShapes DEF Revoke, ServerTypes
  <2>2. \A d \in Conns : following'[d] \subseteq following[d]
    BY <1>0, <1>8 DEF Revoke, TakeBack, GrantTypes
  <2> QED
    BY <1>8, <2>1, <2>2 DEF Revoke, accessVars, connVars, GrantAge, AccessAge, GrantsAge, LookupAge, DecisionAge
<1>9. ASSUME NEW c \in Conns, Resume(c)  PROVE GrantAge'
  <2>1. \A d \in Conns : reader'[d] = reader[d] \/ reader'[d].step # "grants"
    BY <1>0, <1>9, ReaderGoesOn DEF Resume
  <2> QED
    BY <1>9, <2>1 DEF Resume, accessVars, grantVars, serverVars, GrantAge, AccessAge, GrantsAge, LookupAge, DecisionAge
<1>10. ASSUME NEW c \in Conns, ReadSubscribe(c)  PROVE GrantAge'
  <2>0. Head(commands[c]).topics \subseteq Topics
    BY <1>0, <1>10, HeadCommand, CommandShapes DEF ReadSubscribe, Reads
  <2>1. \A d \in Conns : reader'[d] = reader[d] \/ reader'[d].step # "grants"
    BY <1>0, <1>10, <2>0, ReaderGoesOn DEF ReadSubscribe
  <2> QED
    BY <1>10, <2>1 DEF ReadSubscribe, accessVars, grantVars, serverVars, GrantAge, AccessAge, GrantsAge, LookupAge, DecisionAge
<1>11. ASSUME NEW c \in Conns, ReadUnsubscribe(c)  PROVE GrantAge'
  <2>1. PICK t \in Topics :
          /\ TakeBack(c, t)
          /\ \A d \in Conns \ {c} : reader'[d] = reader[d]
          /\ reader'[c].step \in {"waits", "subscribes", "ended", "discards"}
    BY <1>11, ReaderUnsubscribes
  <2>2. \A d \in Conns : following'[d] \subseteq following[d]
    BY <1>0, <2>1 DEF TakeBack, GrantTypes
  <2>3. \A d \in Conns : reader'[d] = reader[d] \/ reader'[d].step # "grants"
    BY <2>1
  <2> QED
    BY <1>11, <2>2, <2>3 DEF ReadUnsubscribe, accessVars, serverVars, GrantAge, AccessAge, GrantsAge, LookupAge, DecisionAge
<1>12. ASSUME NEW c \in Conns, Grant(c)  PROVE GrantAge'
  <2>1. \A d \in Conns : reader'[d] = reader[d] \/ reader'[d].step # "grants"
    <3>1. reader[c] \in Readers /\ reader' = [reader EXCEPT ![c] = [reader[c] EXCEPT !.step = "indexes"]]
      BY <1>0, <1>12 DEF Grant, ConnTypes
    <3>2. [reader[c] EXCEPT !.step = "indexes"].step = "indexes"
      BY <3>1 DEF Readers
    <3> QED
      BY <1>0, <3>1, <3>2 DEF ConnTypes
  <2>2. reader[c].topic \in Topics /\ lostFor[reader[c].topic] = 0
    BY <1>0, <1>12, ReaderShape DEF Grant, AtStep, ConnTypes, DecisionAge
  <2>3. \A d \in Conns, s \in Topics : s \in following'[d] =>
          \/ d = c /\ s = reader[c].topic /\ age'[d][s] = 0
          \/ /\ s \in following[d] /\ age'[d][s] = age[d][s]
             /\ <<d, s>> \in unchecked => <<d, s>> \in unchecked'
    BY <1>0, <1>12, <2>2 DEF Grant, GrantTypes
  <2>4. GrantsAge'
    BY <1>0, <1>12, <2>2, <2>3 DEF Grant, GrantsAge, accessVars, AccessTypes
  <2> QED
    BY <1>12, <2>1, <2>4 DEF Grant, accessVars, serverVars, GrantAge, AccessAge, LookupAge, DecisionAge
<1>13. ASSUME NEW c \in Conns, IndexGrant(c)  PROVE GrantAge'
  <2>1. \A d \in Conns : reader'[d] = reader[d] \/ reader'[d].step # "grants"
    BY <1>0, <1>13, ReaderDone DEF IndexGrant
  <2> QED
    BY <1>13, <2>1 DEF IndexGrant, accessVars, serverVars, GrantAge, AccessAge, GrantsAge, LookupAge, DecisionAge
<1>14. ASSUME NEW c \in Conns, RenewFollowed(c)  PROVE GrantAge'
  <2>1. \A d \in Conns : reader'[d] = reader[d] \/ reader'[d].step # "grants"
    BY <1>0, <1>14, ReaderDone DEF RenewFollowed
  <2>2. reader[c].topic \in Topics
    BY <1>0, <1>14, ReaderShape DEF RenewFollowed, AtStep, ConnTypes
  <2>3. \A d \in Conns, s \in Topics : s \in following'[d] =>
          \/ <<d, s>> \in unchecked'
          \/ s \in following[d] /\ age'[d][s] = age[d][s]
    BY <1>0, <1>14, <2>2 DEF RenewFollowed, GrantTypes
  <2>4. unchecked \subseteq unchecked'
    BY <1>14 DEF RenewFollowed
  <2>5. GrantsAge'
    BY <1>14, <2>3, <2>4 DEF RenewFollowed, GrantsAge, accessVars
  <2> QED
    BY <1>14, <2>1, <2>5 DEF RenewFollowed, accessVars, serverVars, GrantAge, AccessAge, LookupAge, DecisionAge
<1>15. ASSUME NEW c \in Conns, NEW t \in Topics, Decide(c, t)  PROVE GrantAge'
  <2>1. DecisionAge'
    <3>1. reader[c].todo \ {t} \in SUBSET Topics
      BY <1>0, ReaderShape DEF ConnTypes
    <3>2. \A d \in Conns \ {c} : reader'[d] = reader[d]
      BY <1>0, <1>15, <3>1, ReaderGoesOn, ReaderTakesUp DEF Decide
    <3>3. reader'[c].step = "grants" => reader'[c].topic = t /\ t \in access
      BY <1>0, <1>15, <3>1, ReaderGoesOn, ReaderTakesUp DEF Decide, Decision
    <3>4. lostFor' = lostFor /\ (t \in access => lostFor[t] = 0)
      BY <1>15 DEF Decide, accessVars, AccessAge
    <3> QED
      BY <3>2, <3>3, <3>4 DEF DecisionAge
  <2> QED
    BY <1>15, <2>1 DEF Decide, accessVars, serverVars, grantVars, GrantAge, AccessAge, GrantsAge, LookupAge
<1>16. ASSUME NEW c \in Conns, Write(c)  PROVE GrantAge'
  BY <1>16 DEF Write, GrantAge, AccessAge, GrantsAge, LookupAge, DecisionAge,
     serverVars, accessVars, grantVars, connVars
<1>17. ASSUME NEW c \in Conns, Release(c)  PROVE GrantAge'
  BY <1>17 DEF Release, GrantAge, AccessAge, GrantsAge, LookupAge, DecisionAge,
     serverVars, accessVars, grantVars, connVars
<1>18. ASSUME Connect  PROVE GrantAge'
  BY <1>18 DEF Connect, GrantAge, AccessAge, GrantsAge, LookupAge, DecisionAge,
     serverVars, accessVars, grantVars, connVars
<1>19. ASSUME HandleReady  PROVE GrantAge'
  BY <1>19 DEF HandleReady, GrantAge, AccessAge, GrantsAge, LookupAge, DecisionAge,
     serverVars, accessVars, grantVars, connVars
<1>20. ASSUME HandleEvent  PROVE GrantAge'
  BY <1>20 DEF HandleEvent, GrantAge, AccessAge, GrantsAge, LookupAge, DecisionAge,
     serverVars, accessVars, grantVars, connVars
<1>21. ASSUME HandleResumed  PROVE GrantAge'
  BY <1>21 DEF HandleResumed, GrantAge, AccessAge, GrantsAge, LookupAge, DecisionAge,
     serverVars, accessVars, grantVars, connVars
<1>22. ASSUME RecoverFromGap  PROVE GrantAge'
  BY <1>22 DEF RecoverFromGap, GrantAge, AccessAge, GrantsAge, LookupAge, DecisionAge,
     serverVars, accessVars, grantVars, connVars
<1>23. ASSUME Lose  PROVE GrantAge'
  BY <1>23 DEF Lose, GrantAge, AccessAge, GrantsAge, LookupAge, DecisionAge,
     serverVars, accessVars, grantVars, connVars
<1>24. ASSUME NEW t \in Topics, Follow(t)  PROVE GrantAge'
  BY <1>24 DEF Follow, GrantAge, AccessAge, GrantsAge, LookupAge, DecisionAge,
     serverVars, accessVars, grantVars, connVars
<1>25. ASSUME NEW t \in Topics, Unfollow(t)  PROVE GrantAge'
  BY <1>25 DEF Unfollow, GrantAge, AccessAge, GrantsAge, LookupAge, DecisionAge,
     serverVars, accessVars, grantVars, connVars
<1>26. ASSUME NEW t \in Topics, Withdraw(t)  PROVE GrantAge'
  <2>1. /\ access' = access \ {t} /\ lostFor' = [lostFor EXCEPT ![t] = 0]
        /\ UNCHANGED <<thread, following, age, unchecked, reader>>
    BY <1>26 DEF Withdraw, serverVars, grantVars, connVars
  <2>2. \A s \in Topics : lostFor'[s] = IF s = t THEN 0 ELSE lostFor[s]
    BY <1>0, <2>1 DEF AccessTypes
  <2>3. \A d \in Conns, s \in Topics : age[d][s] >= 0
    BY <1>0, Numbers DEF GrantTypes
  <2>4. AccessAge' /\ GrantsAge'
    BY <1>0, <2>1, <2>2, <2>3 DEF GrantAge, AccessAge, GrantsAge, GrantTypes
  <2>5. LookupAge'
    BY <1>0, <2>1, <2>2, ThreadShapes DEF LookupAge, ServerTypes
  <2>6. DecisionAge'
    BY <1>0, <2>1, <2>2, ReaderShape DEF DecisionAge, ConnTypes
  <2> QED
    BY <2>4, <2>5, <2>6 DEF GrantAge
<1>27. ASSUME Tick  PROVE GrantAge'
  <2>1. \A m, n \in 0..Ttl : m <= n => Older(m) <= Older(n)
    BY Numbers DEF Older
  <2>2. /\ \A s \in Topics : lostFor'[s] = IF s \in access THEN 0 ELSE Older(lostFor[s])
        /\ \A d \in Conns, s \in Topics :
              s \in following[d] => age'[d][s] = Older(age[d][s])
        /\ UNCHANGED <<access, thread, following, unchecked, reader>>
    BY <1>27 DEF Tick, serverVars, connVars
  <2>3. \A n \in 0..Ttl : Older(n) >= 0
    BY Numbers DEF Older
  <2>4. GrantsAge'
    BY <1>0, <2>1, <2>2, <2>3 DEF GrantsAge, AccessTypes, GrantTypes
  <2>5. AccessAge'
    BY <2>2 DEF AccessAge
  <2>6. LookupAge' /\ DecisionAge'
    BY <1>0, <1>27, <2>2, Numbers, ReaderShape DEF Tick, LookupAge, DecisionAge, ConnTypes
  <2> QED
    BY <2>4, <2>5, <2>6 DEF GrantAge
<1>28. CASE UNCHANGED vars
  BY <1>28 DEF vars, GrantAge, AccessAge, GrantsAge, LookupAge, DecisionAge,
     serverVars, accessVars, grantVars, connVars
<1>29. ASSUME NEW c \in Conns, DropRevoked(c)  PROVE GrantAge'
  <2>1. thread'.pc # "rechecked"
    BY <1>0, <1>29, ServedShape, ThreadShapes DEF DropRevoked, ServerTypes
  <2> QED
    BY <1>29, <2>1 DEF DropRevoked, accessVars, connVars, GrantAge, AccessAge, GrantsAge, LookupAge, DecisionAge
<1>30. ASSUME NEW c \in Conns, DropUnsubscribed(c)  PROVE GrantAge'
  <2>1. \A d \in Conns : reader'[d] = reader[d] \/ reader'[d].step # "grants"
    BY <1>0, <1>30, ReaderDone DEF DropUnsubscribed
  <2> QED
    BY <1>30, <2>1 DEF DropUnsubscribed, accessVars, serverVars, GrantAge, AccessAge, GrantsAge, LookupAge, DecisionAge
<1>31. ASSUME NEW c \in Conns, NEW t \in Topics, FindFollowed(c, t)  PROVE GrantAge'
  <2>1. \A d \in Conns : reader'[d] = reader[d] \/ reader'[d].step # "grants"
    BY <1>0, <1>31, ReaderTakesUp DEF FindFollowed
  <2> QED
    BY <1>31, <2>1 DEF FindFollowed, accessVars, serverVars, grantVars, GrantAge, AccessAge, GrantsAge, LookupAge, DecisionAge
<1> QED
  BY <1>1, <1>2, <1>3, <1>4, <1>5, <1>6, <1>7, <1>8, <1>9, <1>10, <1>11, <1>12, <1>13, <1>14,
     <1>15, <1>16, <1>17, <1>18, <1>19, <1>20, <1>21, <1>22, <1>23, <1>24, <1>25, <1>26, <1>27,
     <1>28, <1>29, <1>30, <1>31, StepCases

(* Only the dispatch thread fills a queue, with a fresh grant or a new one. *)
LEMMA FillsQueue ==
    ASSUME TypeOK, Placed, [Next]_vars, NEW d \in Conns, Len(sendq'[d]) > Len(sendq[d])
    PROVE  \/ DeliverFresh(d) \/ Renew(d)
<1>0. /\ ServerTypes /\ AccessTypes /\ GrantTypes /\ ConnTypes /\ TabTypes
      /\ tab.conn \in Nat
  BY TypeParts
<1> DEFINE Goal == DeliverFresh(d) \/ Renew(d)
<1>1. ASSUME NEW t \in Topics, Build(t)  PROVE Goal
  BY <1>0, <1>1 DEF Build, ConnTypes, connVars
<1>2. ASSUME NEW e \in Events, HandOver(e)  PROVE Goal
  BY <1>0, <1>2 DEF HandOver, ConnTypes, connVars
<1>3. ASSUME TakeEvent  PROVE Goal
  BY <1>0, <1>3 DEF TakeEvent, ConnTypes, connVars
<1>4. ASSUME NEW c \in Conns, Skip(c)  PROVE Goal
  BY <1>0, <1>4 DEF Skip, ConnTypes, connVars
<1>5. ASSUME NEW c \in Conns, DeliverFresh(c)  PROVE Goal
  <2>1. \A b \in Conns \ {c} : sendq'[b] = sendq[b]
    BY <1>0, <1>5 DEF DeliverFresh, Enqueue, ConnTypes
  <2> QED
    BY <1>5, <2>1
<1>6. ASSUME NEW c \in Conns, Recheck(c)  PROVE Goal
  BY <1>0, <1>6 DEF Recheck, ConnTypes, connVars
<1>7. ASSUME NEW c \in Conns, Renew(c)  PROVE Goal
  <2>1. \A b \in Conns \ {c} : sendq'[b] = sendq[b]
    BY <1>0, <1>7 DEF Renew, Enqueue, ConnTypes
  <2> QED
    BY <1>7, <2>1
<1>8. ASSUME NEW c \in Conns, Revoke(c)  PROVE Goal
  BY <1>0, <1>8 DEF Revoke, ConnTypes, connVars
<1>9. ASSUME NEW c \in Conns, Resume(c)  PROVE Goal
  BY <1>0, <1>9 DEF Resume, ConnTypes, connVars
<1>10. ASSUME NEW c \in Conns, ReadSubscribe(c)  PROVE Goal
  BY <1>0, <1>10 DEF ReadSubscribe, ConnTypes, connVars
<1>11. ASSUME NEW c \in Conns, ReadUnsubscribe(c)  PROVE Goal
  BY <1>0, <1>11 DEF ReadUnsubscribe, ConnTypes, connVars
<1>12. ASSUME NEW c \in Conns, Grant(c)  PROVE Goal
  BY <1>0, <1>12 DEF Grant, ConnTypes, connVars
<1>13. ASSUME NEW c \in Conns, IndexGrant(c)  PROVE Goal
  BY <1>0, <1>13 DEF IndexGrant, ConnTypes, connVars
<1>14. ASSUME NEW c \in Conns, RenewFollowed(c)  PROVE Goal
  BY <1>0, <1>14 DEF RenewFollowed, ConnTypes, connVars
<1>15. ASSUME NEW c \in Conns, NEW t \in Topics, Decide(c, t)  PROVE Goal
  BY <1>0, <1>15 DEF Decide, ConnTypes, connVars
<1>16. ASSUME NEW c \in Conns, Write(c)  PROVE Goal
  <2>1. Len(Tail(sendq[c])) < Len(sendq[c])
    BY <1>0, <1>16 DEF Write, ConnTypes
  <2>2. sendq'[d] = IF d = c THEN Tail(sendq[c]) ELSE sendq[d]
    BY <1>0, <1>16 DEF Write, ConnTypes
  <2> QED
    BY <1>0, <2>1, <2>2 DEF ConnTypes
<1>17. ASSUME NEW c \in Conns, Release(c)  PROVE Goal
  <2>1. sendq'[d] = IF d = c THEN <<>> ELSE sendq[d]
    BY <1>0, <1>17 DEF Release, ConnTypes
  <2> QED
    BY <1>0, <2>1 DEF ConnTypes
<1>18. ASSUME Connect  PROVE Goal
  BY <1>0, <1>18 DEF Connect, ConnTypes, connVars
<1>19. ASSUME HandleReady  PROVE Goal
  BY <1>0, <1>19 DEF HandleReady, ConnTypes, connVars
<1>20. ASSUME HandleEvent  PROVE Goal
  BY <1>0, <1>20 DEF HandleEvent, ConnTypes, connVars
<1>21. ASSUME HandleResumed  PROVE Goal
  BY <1>0, <1>21 DEF HandleResumed, ConnTypes, connVars
<1>22. ASSUME RecoverFromGap  PROVE Goal
  BY <1>0, <1>22 DEF RecoverFromGap, ConnTypes, connVars
<1>23. ASSUME Lose  PROVE Goal
  BY <1>0, <1>23 DEF Lose, ConnTypes, connVars
<1>24. ASSUME NEW t \in Topics, Follow(t)  PROVE Goal
  BY <1>0, <1>24 DEF Follow, ConnTypes, connVars
<1>25. ASSUME NEW t \in Topics, Unfollow(t)  PROVE Goal
  BY <1>0, <1>25 DEF Unfollow, ConnTypes, connVars
<1>26. ASSUME NEW t \in Topics, Withdraw(t)  PROVE Goal
  BY <1>0, <1>26 DEF Withdraw, ConnTypes, connVars
<1>27. ASSUME Tick  PROVE Goal
  BY <1>0, <1>27 DEF Tick, ConnTypes, connVars
<1>28. CASE UNCHANGED vars
  BY <1>0, <1>28 DEF vars, ConnTypes, connVars
<1>29. ASSUME NEW c \in Conns, DropRevoked(c)  PROVE Goal
  BY <1>0, <1>29 DEF DropRevoked, ConnTypes, connVars
<1>30. ASSUME NEW c \in Conns, DropUnsubscribed(c)  PROVE Goal
  BY <1>0, <1>30 DEF DropUnsubscribed, ConnTypes, connVars
<1>31. ASSUME NEW c \in Conns, NEW t \in Topics, FindFollowed(c, t)  PROVE Goal
  BY <1>0, <1>31 DEF FindFollowed, ConnTypes, connVars
<1> QED
  BY <1>1, <1>2, <1>3, <1>4, <1>5, <1>6, <1>7, <1>8, <1>9, <1>10, <1>11, <1>12, <1>13, <1>14,
     <1>15, <1>16, <1>17, <1>18, <1>19, <1>20, <1>21, <1>22, <1>23, <1>24, <1>25, <1>26, <1>27,
     <1>28, <1>29, <1>30, <1>31, StepCases

(* No event goes out on a topic lost the TTL or longer before, unless its  *)
(* grant was renewed without a decision (realtime_access.py 45-57,         *)
(* manager._authorized).                                                   *)
THEOREM WithinTtl == Spec => DeliveredWithinTtl
<1>1. Init => TypeOK /\ Placed /\ GrantAge
  <2>1. Init => GrantAge
    BY ThreadShapes DEF Init, Listening, GrantAge, AccessAge, GrantsAge, LookupAge, DecisionAge
  <2> QED
    BY <2>1, TypeInit, PlacedInit
<1>2. TypeOK /\ Placed /\ GrantAge /\ [Next]_vars => (TypeOK /\ Placed /\ GrantAge)'
  BY TypeStep, PlacedStep, GrantAgeStep
<1>3. ASSUME TypeOK, Placed, GrantAge, [Next]_vars, NEW c \in Conns,
             Len(sendq'[c]) > Len(sendq[c])
      PROVE  LET t == IF thread.pc = "rechecked" THEN thread.topic ELSE DeliveryTopic(c, thread.event)
             IN  lostFor[t] = 0 \/ lostFor[t] < Ttl \/ <<c, t>> \in unchecked
  <2>0. ServerTypes /\ AccessTypes /\ GrantTypes
    BY <1>3, TypeParts
  <2>1. CASE DeliverFresh(c)
    <3> DEFINE t == DeliveryTopic(c, thread.event)
    <3>1. thread.pc # "rechecked" /\ t # NoTopic /\ age[c][t] < Ttl
      BY <2>1 DEF DeliverFresh, Fresh
    <3>2. t \in Topics /\ t \in following[c]
      BY <2>0, <3>1, DeliveryTopicFollowed
    <3>3. lostFor[t] \in Nat /\ age[c][t] \in Nat
      BY <2>0, <3>2, Numbers DEF AccessTypes, GrantTypes
    <3>4. <<c, t>> \in unchecked \/ lostFor[t] <= age[c][t]
      BY <1>3, <3>2 DEF GrantAge, GrantsAge
    <3> QED
      BY <3>1, <3>3, <3>4, Numbers
  <2>2. CASE Renew(c)
    BY <1>3, <2>2 DEF Renew, GrantAge, LookupAge
  <2> QED
    BY <1>3, <2>1, <2>2, FillsQueue
<1>4. TypeOK /\ Placed /\ GrantAge /\ [Next]_vars =>
        [\A c \in Conns : Len(sendq'[c]) > Len(sendq[c]) =>
           LET t == IF thread.pc = "rechecked" THEN thread.topic ELSE DeliveryTopic(c, thread.event)
           IN  lostFor[t] = 0 \/ lostFor[t] < Ttl \/ <<c, t>> \in unchecked]_vars
  BY <1>3
<1> QED
  BY <1>1, <1>2, <1>4, PTL DEF Spec, DeliveredWithinTtl


-----------------------------------------------------------------------------
(* The order of events on their way                                        *)

(* The items of a queue, and the events among the frames on a wire.        *)
Items(s) == {s[i] : i \in DOMAIN s}
IsEvent(w, i) == i \in DOMAIN w /\ w[i].kind = "event"
EventsOf(w) == {e \in Events : \E i \in DOMAIN w : IsEvent(w, i) /\ w[i].event = e}

(* Events of T come after those of S, but for the set O.                   *)
Before(S, T, O) == \A x \in S, y \in T : y \in O \/ x < y

InOrder(s, O) == \A i, j \in DOMAIN s : i < j => s[j] \in O \/ s[i] < s[j]

FramesInOrder(w, O) ==
    \A i, j \in DOMAIN w :
        i < j /\ IsEvent(w, i) /\ IsEvent(w, j) => w[j].event \in O \/ w[i].event < w[j].event

(* Taking the head of a queue.                                             *)
LEMMA TakesHead ==
    ASSUME NEW S, NEW s \in Seq(S), s # <<>>, NEW O
    PROVE  /\ Head(s) \in Items(s) /\ Items(Tail(s)) \subseteq Items(s)
           /\ \A x \in Items(s) : x = Head(s) \/ x \in Items(Tail(s))
           /\ InOrder(s, O) => InOrder(Tail(s), O) /\ Before({Head(s)}, Items(Tail(s)), O)
<1>1. /\ Len(s) \in Nat \ {0} /\ DOMAIN s = 1..Len(s) /\ Head(s) = s[1]
      /\ DOMAIN Tail(s) = 1..(Len(s) - 1)
      /\ \A i \in 1..(Len(s) - 1) : Tail(s)[i] = s[i + 1] /\ i + 1 \in DOMAIN s
  OBVIOUS
<1>2. Head(s) \in Items(s) /\ Items(Tail(s)) \subseteq Items(s)
  BY <1>1 DEF Items
<1>3. \A x \in Items(s) : x = Head(s) \/ x \in Items(Tail(s))
  <2> TAKE x \in Items(s)
  <2>1. PICK i \in DOMAIN s : x = s[i]
    BY DEF Items
  <2>2. CASE i = 1
    BY <1>1, <2>1, <2>2
  <2>3. CASE i # 1
    <3>1. i - 1 \in 1..(Len(s) - 1) /\ (i - 1) + 1 = i
      BY <1>1, <2>3
    <3>2. Tail(s)[i - 1] = x
      BY <1>1, <2>1, <3>1
    <3> QED
      BY <1>1, <3>1, <3>2 DEF Items
  <2> QED
    BY <2>2, <2>3
<1>4. ASSUME InOrder(s, O)
      PROVE  InOrder(Tail(s), O) /\ Before({Head(s)}, Items(Tail(s)), O)
  <2>1. ASSUME NEW i \in DOMAIN Tail(s), NEW j \in DOMAIN Tail(s), i < j
        PROVE  Tail(s)[j] \in O \/ Tail(s)[i] < Tail(s)[j]
    <3>1. i + 1 \in DOMAIN s /\ j + 1 \in DOMAIN s /\ i + 1 < j + 1
          /\ Tail(s)[i] = s[i + 1] /\ Tail(s)[j] = s[j + 1]
      BY <1>1, <2>1
    <3> QED
      BY <1>4, <3>1 DEF InOrder
  <2>2. ASSUME NEW j \in DOMAIN Tail(s)
        PROVE  Tail(s)[j] \in O \/ Head(s) < Tail(s)[j]
    <3>1. 1 \in DOMAIN s /\ j + 1 \in DOMAIN s /\ 1 < j + 1
          /\ Head(s) = s[1] /\ Tail(s)[j] = s[j + 1]
      BY <1>1
    <3> QED
      BY <1>4, <3>1 DEF InOrder
  <2> QED
    BY <2>1, <2>2 DEF InOrder, Before, Items
<1> QED
  BY <1>2, <1>3, <1>4

(* Appending to a queue.                                                   *)
LEMMA Appends ==
    ASSUME NEW s \in Seq(Events), NEW x \in Events, NEW O
    PROVE  /\ Items(Append(s, x)) = Items(s) \cup {x}
           /\ InOrder(s, O) /\ Before(Items(s), {x}, O) => InOrder(Append(s, x), O)
<1>1. /\ Len(s) \in Nat /\ DOMAIN s = 1..Len(s) /\ DOMAIN Append(s, x) = 1..(Len(s) + 1)
      /\ Append(s, x)[Len(s) + 1] = x
      /\ \A i \in 1..Len(s) : Append(s, x)[i] = s[i]
  OBVIOUS
<1>2. \A i \in 1..(Len(s) + 1) : i \in 1..Len(s) \/ i = Len(s) + 1
  BY <1>1
<1>3. Items(Append(s, x)) = Items(s) \cup {x}
  <2>1. Items(Append(s, x)) \subseteq Items(s) \cup {x}
    BY <1>1, <1>2 DEF Items
  <2>2. Items(s) \subseteq Items(Append(s, x))
    BY <1>1 DEF Items
  <2>3. x \in Items(Append(s, x))
    BY <1>1 DEF Items
  <2> QED
    BY <2>1, <2>2, <2>3
<1>4. ASSUME InOrder(s, O), Before(Items(s), {x}, O),
             NEW i \in DOMAIN Append(s, x), NEW j \in DOMAIN Append(s, x), i < j
      PROVE  Append(s, x)[j] \in O \/ Append(s, x)[i] < Append(s, x)[j]
  <2>1. i \in 1..Len(s)
    BY <1>1, <1>4
  <2>2. CASE j \in 1..Len(s)
    BY <1>1, <1>4, <2>1, <2>2 DEF InOrder
  <2>3. CASE j = Len(s) + 1
    BY <1>1, <1>4, <2>1, <2>3 DEF Before, Items
  <2> QED
    BY <1>1, <1>2, <2>2, <2>3
<1> QED
  BY <1>3, <1>4 DEF InOrder

(* Taking the head of a wire.                                              *)
LEMMA TakesFrame ==
    ASSUME NEW w \in Seq(Frames), w # <<>>, NEW O
    PROVE  /\ EventsOf(Tail(w)) \subseteq EventsOf(w)
           /\ Head(w).kind = "event" => Head(w).event \in EventsOf(w)
           /\ \A e \in EventsOf(w) : \/ Head(w).kind = "event" /\ Head(w).event = e
                                     \/ e \in EventsOf(Tail(w))
           /\ FramesInOrder(w, O) =>
                /\ FramesInOrder(Tail(w), O)
                /\ Head(w).kind = "event" => Before({Head(w).event}, EventsOf(Tail(w)), O)
<1>1. /\ Len(w) \in Nat \ {0} /\ DOMAIN w = 1..Len(w) /\ Head(w) = w[1] /\ w[1] \in Frames
      /\ DOMAIN Tail(w) = 1..(Len(w) - 1) /\ 1 \in DOMAIN w
      /\ \A i \in 1..(Len(w) - 1) : Tail(w)[i] = w[i + 1] /\ i + 1 \in DOMAIN w /\ 1 < i + 1
  OBVIOUS
<1>2. EventsOf(Tail(w)) \subseteq EventsOf(w)
  BY <1>1 DEF EventsOf, IsEvent
<1>3. Head(w).kind = "event" => Head(w).event \in EventsOf(w)
  BY <1>1, FrameShapes DEF EventsOf, IsEvent
<1>4. ASSUME NEW e \in EventsOf(w)
      PROVE  (Head(w).kind = "event" /\ Head(w).event = e) \/ e \in EventsOf(Tail(w))
  <2>1. PICK i \in DOMAIN w : w[i].kind = "event" /\ w[i].event = e
    BY DEF EventsOf, IsEvent
  <2>2. CASE i = 1
    BY <1>1, <2>1, <2>2
  <2>3. CASE i # 1
    <3>1. i - 1 \in 1..(Len(w) - 1) /\ (i - 1) + 1 = i
      BY <1>1, <2>3
    <3>2. Tail(w)[i - 1] = w[i] /\ i - 1 \in DOMAIN Tail(w)
      BY <1>1, <3>1
    <3>3. e \in Events
      BY DEF EventsOf
    <3> QED
      BY <2>1, <3>2, <3>3 DEF EventsOf, IsEvent
  <2> QED
    BY <2>2, <2>3
<1>5. ASSUME FramesInOrder(w, O)
      PROVE  /\ FramesInOrder(Tail(w), O)
             /\ Head(w).kind = "event" => Before({Head(w).event}, EventsOf(Tail(w)), O)
  <2>1. ASSUME NEW i \in DOMAIN Tail(w), NEW j \in DOMAIN Tail(w), i < j,
               IsEvent(Tail(w), i), IsEvent(Tail(w), j)
        PROVE  Tail(w)[j].event \in O \/ Tail(w)[i].event < Tail(w)[j].event
    <3>1. i + 1 \in DOMAIN w /\ j + 1 \in DOMAIN w /\ i + 1 < j + 1
          /\ Tail(w)[i] = w[i + 1] /\ Tail(w)[j] = w[j + 1]
      BY <1>1, <2>1
    <3> QED
      BY <1>5, <2>1, <3>1 DEF FramesInOrder, IsEvent
  <2>2. ASSUME NEW j \in DOMAIN Tail(w), IsEvent(Tail(w), j), Head(w).kind = "event"
        PROVE  Tail(w)[j].event \in O \/ Head(w).event < Tail(w)[j].event
    <3>1. 1 \in DOMAIN w /\ j + 1 \in DOMAIN w /\ 1 < j + 1
          /\ Head(w) = w[1] /\ Tail(w)[j] = w[j + 1]
      BY <1>1
    <3> QED
      BY <1>5, <2>2, <3>1 DEF FramesInOrder, IsEvent
  <2> QED
    BY <2>1, <2>2 DEF FramesInOrder, Before, EventsOf
<1> QED
  BY <1>2, <1>3, <1>4, <1>5

(* A frame is sent.                                                        *)
LEMMA AppendsFrame ==
    ASSUME NEW w \in Seq(Frames), NEW f \in Frames, NEW O
    PROVE  /\ EventsOf(w) \subseteq EventsOf(Append(w, f))
           /\ \A e \in EventsOf(Append(w, f)) : e \in EventsOf(w) \/ (f.kind = "event" /\ f.event = e)
           /\ f.kind = "event" => f.event \in EventsOf(Append(w, f))
           /\ /\ FramesInOrder(w, O)
              /\ f.kind = "event" => Before(EventsOf(w), {f.event}, O)
              => FramesInOrder(Append(w, f), O)
<1>1. /\ Len(w) \in Nat /\ DOMAIN w = 1..Len(w) /\ DOMAIN Append(w, f) = 1..(Len(w) + 1)
      /\ Append(w, f)[Len(w) + 1] = f /\ Len(w) + 1 \in 1..(Len(w) + 1)
      /\ \A i \in 1..Len(w) : Append(w, f)[i] = w[i] /\ w[i] \in Frames /\ i \in 1..(Len(w) + 1)
  OBVIOUS
<1>2. \A i \in 1..(Len(w) + 1) : i \in 1..Len(w) \/ i = Len(w) + 1
  BY <1>1
<1>3. EventsOf(w) \subseteq EventsOf(Append(w, f))
  BY <1>1 DEF EventsOf, IsEvent
<1>4. \A e \in EventsOf(Append(w, f)) : e \in EventsOf(w) \/ (f.kind = "event" /\ f.event = e)
  BY <1>1, <1>2 DEF EventsOf, IsEvent
<1>5. f.kind = "event" => f.event \in EventsOf(Append(w, f))
  BY <1>1, FrameShapes DEF EventsOf, IsEvent
<1>6. ASSUME FramesInOrder(w, O), f.kind = "event" => Before(EventsOf(w), {f.event}, O),
             NEW i \in DOMAIN Append(w, f), NEW j \in DOMAIN Append(w, f), i < j,
             IsEvent(Append(w, f), i), IsEvent(Append(w, f), j)
      PROVE  Append(w, f)[j].event \in O \/ Append(w, f)[i].event < Append(w, f)[j].event
  <2>1. i \in 1..Len(w)
    BY <1>1, <1>6
  <2>2. CASE j \in 1..Len(w)
    BY <1>1, <1>6, <2>1, <2>2 DEF FramesInOrder, IsEvent
  <2>3. CASE j = Len(w) + 1
    <3>1. w[i].event \in EventsOf(w)
      BY <1>1, <1>6, <2>1, FrameShapes DEF EventsOf, IsEvent
    <3> QED
      BY <1>1, <1>6, <2>1, <2>3, <3>1 DEF Before, IsEvent
  <2> QED
    BY <1>1, <1>2, <2>2, <2>3
<1> QED
  BY <1>3, <1>4, <1>5, <1>6 DEF FramesInOrder

(* Setting more events aside leaves the rest in order.                     *)
LEMMA AsideGrows ==
    ASSUME NEW O, NEW P, O \subseteq P
    PROVE  /\ \A s : InOrder(s, O) => InOrder(s, P)
           /\ \A w : FramesInOrder(w, O) => FramesInOrder(w, P)
           /\ \A S, T : Before(S, T, O) => Before(S, T, P)
BY DEF InOrder, FramesInOrder, Before


(* Where events wait: the inbox, the dispatch thread, a queue, the wire.   *)
Waiting == Items(inbox)
AtThread(c) == IF thread.pc # "idle" /\ c \in thread.todo THEN {thread.event} ELSE {}
Queued(c) == Items(sendq[c])
OnWire(c) == EventsOf(wire[c])

(* The events that were handed over.                                       *)
Out == DOMAIN log \ publishing

(* What waits, was received or is owed was handed over; nobody is owed an  *)
(* event on whose topic a subscription was revoked.                        *)
HandedOver ==
    /\ Waiting \subseteq Out
    /\ thread.pc # "idle" => thread.event \in Out
    /\ thread.pc = "rechecked" => thread.topic \in Routes(log[thread.event])
    /\ thread.pc = "revoked" => \A p \in owed : p[2] # thread.event
    /\ \A c \in Conns : Queued(c) \subseteq Out /\ OnWire(c) \subseteq Out
    /\ tab.last > 0 => tab.last \in Out
    /\ \A p \in owed : p[2] \in Out

(* Whatever is further on its way has a lower sequence, but for events     *)
(* that were overtaken.                                                    *)
Sequenced ==
    /\ InOrder(inbox, overtaken)
    /\ \A c \in Conns :
         /\ InOrder(sendq[c], overtaken) /\ FramesInOrder(wire[c], overtaken)
         /\ Before(AtThread(c), Waiting, overtaken)
         /\ Before(Queued(c), AtThread(c) \cup Waiting, overtaken)
         /\ Before(OnWire(c), Queued(c) \cup AtThread(c) \cup Waiting, overtaken)

Lined == HandedOver /\ Sequenced

(* A step that moves no event keeps them in line.                          *)
LEMMA StandsStill ==
    ASSUME Lined, UNCHANGED <<log, publishing, inbox, thread, sendq, wire, overtaken>>,
           owed' \subseteq owed, tab'.last = tab.last
    PROVE  Lined'
<1>1. HandedOver'
  BY DEF Lined, HandedOver, Waiting, Queued, OnWire, Out
<1>2. Sequenced'
  BY DEF Lined, Sequenced, Waiting, Queued, OnWire, AtThread
<1> QED
  BY <1>1, <1>2 DEF Lined

(* A connection that was served leaves the thread.                         *)
LEMMA ServedMoves ==
    ASSUME ServerTypes, thread.pc # "idle", NEW c \in Conns, thread' = Served(c)
    PROVE  \A d \in Conns : AtThread(d)' = IF d = c THEN {} ELSE AtThread(d)
<1>1. CASE thread' = IdleThread /\ thread.todo = {c}
  BY <1>1, ThreadShapes DEF AtThread
<1>2. CASE thread'.pc = "routing" /\ thread'.event = thread.event /\ thread'.todo = thread.todo \ {c}
  BY <1>2 DEF AtThread
<1> QED
  BY <1>1, <1>2, ServedShape DEF ServerTypes

(* An event joins the queue, or the connection is closed.                  *)
LEMMA EnqueueMoves ==
    ASSUME ConnTypes, NEW c \in Conns, NEW e \in Events, Enqueue(c, e)
    PROVE  /\ \A d \in Conns \ {c} : sendq'[d] = sendq[d]
           /\ \/ sendq'[c] = sendq[c] /\ c \in closed'
              \/ sendq'[c] = Append(sendq[c], e)
           /\ closed \subseteq closed' /\ closed' \subseteq closed \cup {c}
<1>1. CASE c \in closed /\ UNCHANGED <<sendq, closed>>
  BY <1>1
<1>2. CASE sendq' = [sendq EXCEPT ![c] = Append(@, e)] /\ UNCHANGED closed
  BY <1>2 DEF ConnTypes
<1>3. CASE closed' = closed \cup {c} /\ UNCHANGED sendq
  BY <1>3
<1> QED
  BY <1>1, <1>2, <1>3 DEF Enqueue

(* Every step keeps the events in line.                                    *)
LEMMA LinedStep ==
    ASSUME TypeOK, Placed, Lined, [Next]_vars
    PROVE  Lined'
<1> USE DEF Lined
<1>0. /\ ServerTypes /\ AccessTypes /\ GrantTypes /\ ConnTypes /\ TabTypes
      /\ tab.conn \in Nat
      /\ Lined
  BY TypeParts
<1>1. ASSUME NEW t \in Topics, Build(t)  PROVE Lined'
  <2>1. log' = Append(log, t) /\ publishing' = publishing \cup {Len(log) + 1}
        /\ UNCHANGED <<inbox, thread, sendq, wire, tab, owed, overtaken>>
    BY <1>1 DEF Build, connVars, tabVars
  <2>2. /\ Out \subseteq Out'
        /\ \A e \in Out : log'[e] = log[e]
    <3>1. /\ DOMAIN log = 1..Len(log) /\ Len(log) \in Nat /\ DOMAIN log' = 1..(Len(log) + 1)
          /\ \A i \in 1..Len(log) : log'[i] = log[i]
      BY <1>0, <2>1 DEF ServerTypes
    <3> QED
      BY <2>1, <3>1 DEF Out
  <2>3. HandedOver'
    BY <2>1, <2>2 DEF HandedOver, Waiting, Queued, OnWire, Routes
  <2>4. Sequenced'
    BY <2>1 DEF Sequenced, Waiting, Queued, OnWire, AtThread
  <2> QED
    BY <2>3, <2>4
<1>2. ASSUME NEW e \in Events, HandOver(e)  PROVE Lined'
  <2>1. /\ e \in publishing /\ publishing' = publishing \ {e}
        /\ UNCHANGED <<log, thread, sendq, wire, tab>>
        /\ overtaken \subseteq overtaken'
        /\ \A later \in Out : later > e => e \in overtaken'
        /\ \A p \in owed' : p \in owed \/ p[2] = e
    BY <1>2 DEF HandOver, connVars, tabVars, Out
  <2>2. /\ Out \subseteq Out' /\ e \in Out' /\ e \notin Out /\ e \in DOMAIN log
    BY <1>0, <2>1 DEF Out, ServerTypes
  <2>3. \A x \in Out : x < e \/ e \in overtaken'
    <3>1. Out \subseteq Nat /\ e \in Nat
      BY <1>0, <2>2 DEF Out, ServerTypes
    <3> QED
      BY <2>1, <2>2, <3>1
  <2>4. inbox' = inbox \/ inbox' = Append(inbox, e)
    BY <1>2 DEF HandOver
  <2>. inbox \in Seq(Events)
    BY <1>0 DEF ServerTypes
  <2>5. Waiting' = Waiting \/ Waiting' = Waiting \cup {e}
    <3>1. Items(Append(inbox, e)) = Items(inbox) \cup {e}
      BY Appends
    <3> QED
      BY <2>4, <3>1 DEF Waiting
  <2>6. InOrder(inbox', overtaken')
    <3>1. InOrder(inbox, overtaken')
      BY <2>1, AsideGrows DEF Sequenced
    <3>2. Before(Items(inbox), {e}, overtaken')
      BY <2>3 DEF HandedOver, Waiting, Before
    <3>3. InOrder(Append(inbox, e), overtaken')
      BY <3>1, <3>2, Appends
    <3> QED
      BY <2>4, <3>1, <3>3
  <2>7. \A c \in Conns : /\ Queued(c)' = Queued(c) /\ OnWire(c)' = OnWire(c)
                         /\ AtThread(c)' = AtThread(c)
    BY <2>1 DEF Queued, OnWire, AtThread
  <2>8. HandedOver'
    BY <2>1, <2>2, <2>5, <2>7 DEF HandedOver
  <2>9. \A c \in Conns : AtThread(c) \subseteq Out
    BY DEF HandedOver, AtThread
  <2>10. ASSUME NEW c \in Conns
         PROVE  /\ InOrder(sendq'[c], overtaken') /\ FramesInOrder(wire'[c], overtaken')
                /\ Before(AtThread(c)', Waiting', overtaken')
                /\ Before(Queued(c)', AtThread(c)' \cup Waiting', overtaken')
                /\ Before(OnWire(c)', Queued(c)' \cup AtThread(c)' \cup Waiting', overtaken')
    <3>1. InOrder(sendq'[c], overtaken') /\ FramesInOrder(wire'[c], overtaken')
      BY <2>1, AsideGrows DEF Sequenced
    <3>2. Queued(c) \subseteq Out /\ OnWire(c) \subseteq Out /\ AtThread(c) \subseteq Out
      BY <2>9 DEF HandedOver
    <3>3. /\ Before(AtThread(c), Waiting, overtaken)
          /\ Before(Queued(c), AtThread(c) \cup Waiting, overtaken)
          /\ Before(OnWire(c), Queued(c) \cup AtThread(c) \cup Waiting, overtaken)
      BY DEF Sequenced
    <3> QED
      BY <2>1, <2>3, <2>5, <2>7, <3>1, <3>2, <3>3 DEF Before
  <2> QED
    BY <2>6, <2>8, <2>10 DEF Sequenced
<1>3. ASSUME TakeEvent  PROVE Lined'
  <2>1. /\ inbox # <<>> /\ inbox' = Tail(inbox) /\ inbox \in Seq(Events)
        /\ UNCHANGED <<log, publishing, sendq, wire, tab, owed, overtaken>>
        /\ thread = IdleThread
        /\ \/ thread' = IdleThread
           \/ thread' = RoutingTo(Head(inbox), Candidates(Head(inbox)))
    BY <1>0, <1>3 DEF TakeEvent, connVars, tabVars, ServerTypes
  <2>2. /\ Head(inbox) \in Waiting /\ Waiting' \subseteq Waiting
        /\ InOrder(inbox', overtaken) /\ Before({Head(inbox)}, Waiting', overtaken)
    BY <2>1, TakesHead DEF Waiting, Sequenced
  <2>3. thread'.pc = "idle" \/ (thread'.pc = "routing" /\ thread'.event = Head(inbox))
    BY <2>1, ThreadShapes DEF RoutingTo
  <2>4. \A c \in Conns : /\ AtThread(c)' \subseteq {Head(inbox)}
                         /\ Queued(c)' = Queued(c) /\ OnWire(c)' = OnWire(c)
    BY <2>1, <2>3 DEF AtThread, Queued, OnWire
  <2>5. HandedOver'
    BY <2>1, <2>2, <2>3, <2>4 DEF HandedOver, Out
  <2>6. Sequenced'
    BY <2>1, <2>2, <2>4 DEF Sequenced, Before
  <2> QED
    BY <2>5, <2>6
<1>4. ASSUME NEW c \in Conns, Skip(c)  PROVE Lined'
  <2>1. /\ UNCHANGED <<log, publishing, inbox, wire, tab, overtaken>> /\ owed' \subseteq owed
        /\ c \in thread.todo /\ thread.pc # "idle" /\ thread' = Served(c)
    BY <1>0, <1>4 DEF Skip, connVars, tabVars, Without, Placed, ServesOpened
  <2>2. \A d \in Conns : /\ AtThread(d)' = (IF d = c THEN {} ELSE AtThread(d))
                         /\ OnWire(d)' = OnWire(d)
    BY <1>0, <2>1, ServedMoves DEF OnWire
  <2>3. thread'.pc = "idle" \/ (thread'.pc = "routing" /\ thread'.event = thread.event)
    BY <1>0, <2>1, ServedShape, ThreadShapes DEF ServerTypes
  <2>4. Waiting' = Waiting /\ Out' = Out
    BY <2>1 DEF Waiting, Out
  <2>5. AtThread(c) = {thread.event}
    BY <2>1 DEF AtThread
  <2>7. \A d \in Conns : Queued(d)' = Queued(d) /\ sendq'[d] = sendq[d]
    BY <1>4 DEF Skip, connVars, Queued
  <2>8. \A d \in Conns : InOrder(sendq'[d], overtaken)
    BY <2>7 DEF Sequenced
  <2>9. HandedOver'
    BY <2>1, <2>2, <2>3, <2>4, <2>5, <2>7 DEF HandedOver
  <2>10. Sequenced'
    <3>1. InOrder(inbox', overtaken') /\ \A d \in Conns : FramesInOrder(wire'[d], overtaken')
      BY <2>1 DEF Sequenced
    <3>2. ASSUME NEW d \in Conns
          PROVE  /\ Before(AtThread(d)', Waiting', overtaken')
                 /\ Before(Queued(d)', AtThread(d)' \cup Waiting', overtaken')
                 /\ Before(OnWire(d)', Queued(d)' \cup AtThread(d)' \cup Waiting', overtaken')
      <4>1. /\ Before(AtThread(d), Waiting, overtaken)
            /\ Before(Queued(d), AtThread(d) \cup Waiting, overtaken)
            /\ Before(OnWire(d), Queued(d) \cup AtThread(d) \cup Waiting, overtaken)
        BY DEF Sequenced
      <4>2. Before({thread.event}, Waiting, overtaken)
        BY <2>5 DEF Sequenced
      <4> QED
        BY <2>1, <2>2, <2>4, <2>5, <2>7, <4>1, <4>2 DEF Before
    <3> QED
      BY <2>1, <2>8, <3>1, <3>2 DEF Sequenced
  <2> QED
    BY <2>9, <2>10
<1>5. ASSUME NEW c \in Conns, DeliverFresh(c)  PROVE Lined'
  <2>1. /\ UNCHANGED <<log, publishing, inbox, wire, tab, overtaken>> /\ owed' \subseteq owed
        /\ c \in thread.todo /\ thread.pc # "idle" /\ thread' = Served(c)
    BY <1>0, <1>5 DEF DeliverFresh, connVars, tabVars, Without, Placed, ServesOpened
  <2>2. \A d \in Conns : /\ AtThread(d)' = (IF d = c THEN {} ELSE AtThread(d))
                         /\ OnWire(d)' = OnWire(d)
    BY <1>0, <2>1, ServedMoves DEF OnWire
  <2>3. thread'.pc = "idle" \/ (thread'.pc = "routing" /\ thread'.event = thread.event)
    BY <1>0, <2>1, ServedShape, ThreadShapes DEF ServerTypes
  <2>4. Waiting' = Waiting /\ Out' = Out
    BY <2>1 DEF Waiting, Out
  <2>5. AtThread(c) = {thread.event}
    BY <2>1 DEF AtThread
  <2>6. /\ \A d \in Conns \ {c} : sendq'[d] = sendq[d]
        /\ sendq'[c] = sendq[c] \/ sendq'[c] = Append(sendq[c], thread.event)
        /\ thread.event \in Events /\ sendq[c] \in Seq(Events)
    <3>1. thread.event \in Events
      BY <1>0, <2>1, ThreadShapes DEF ServerTypes
    <3> QED
      BY <1>0, <1>5, <3>1, EnqueueMoves DEF DeliverFresh, ConnTypes
  <2>7. \A d \in Conns : Queued(d)' = Queued(d) \/ (d = c /\ Queued(d)' = Queued(d) \cup {thread.event})
    <3>1. Items(Append(sendq[c], thread.event)) = Items(sendq[c]) \cup {thread.event}
      BY <2>6, Appends
    <3> QED
      BY <2>6, <3>1 DEF Queued
  <2>8. \A d \in Conns : InOrder(sendq'[d], overtaken)
    <3>1. Before(Items(sendq[c]), {thread.event}, overtaken) /\ InOrder(sendq[c], overtaken)
      BY <2>5 DEF Sequenced, Before, Queued
    <3>2. InOrder(Append(sendq[c], thread.event), overtaken)
      BY <2>6, <3>1, Appends
    <3> QED
      BY <2>6, <3>1, <3>2 DEF Sequenced
  <2>9. HandedOver'
    BY <2>1, <2>2, <2>3, <2>4, <2>5, <2>7 DEF HandedOver
  <2>10. Sequenced'
    <3>1. InOrder(inbox', overtaken') /\ \A d \in Conns : FramesInOrder(wire'[d], overtaken')
      BY <2>1 DEF Sequenced
    <3>2. ASSUME NEW d \in Conns
          PROVE  /\ Before(AtThread(d)', Waiting', overtaken')
                 /\ Before(Queued(d)', AtThread(d)' \cup Waiting', overtaken')
                 /\ Before(OnWire(d)', Queued(d)' \cup AtThread(d)' \cup Waiting', overtaken')
      <4>1. /\ Before(AtThread(d), Waiting, overtaken)
            /\ Before(Queued(d), AtThread(d) \cup Waiting, overtaken)
            /\ Before(OnWire(d), Queued(d) \cup AtThread(d) \cup Waiting, overtaken)
        BY DEF Sequenced
      <4>2. Before({thread.event}, Waiting, overtaken)
        BY <2>5 DEF Sequenced
      <4> QED
        BY <2>1, <2>2, <2>4, <2>5, <2>7, <4>1, <4>2 DEF Before
    <3> QED
      BY <2>1, <2>8, <3>1, <3>2 DEF Sequenced
  <2> QED
    BY <2>9, <2>10
<1>6. ASSUME NEW c \in Conns, Recheck(c)  PROVE Lined'
  <2>1. /\ UNCHANGED <<log, publishing, inbox, sendq, wire, tab, owed, overtaken>>
        /\ thread.pc = "routing" /\ thread'.pc = "rechecked" /\ thread'.event = thread.event
        /\ thread'.todo = thread.todo /\ thread'.topic = DeliveryTopic(c, thread.event)
    BY <1>6 DEF Recheck, connVars, tabVars
  <2>2. DeliveryTopic(c, thread.event) \in Routes(log[thread.event])
    BY <1>0, <1>6, DeliveryTopicFollowed DEF Recheck
  <2>3. \A d \in Conns : AtThread(d)' = AtThread(d)
    BY <2>1 DEF AtThread
  <2> QED
    BY <2>1, <2>2, <2>3 DEF HandedOver, Sequenced, Waiting, Queued, OnWire, Out
<1>7. ASSUME NEW c \in Conns, Renew(c)  PROVE Lined'
  <2>1. /\ UNCHANGED <<log, publishing, inbox, wire, tab, overtaken>> /\ owed' \subseteq owed
        /\ c \in thread.todo /\ thread.pc # "idle" /\ thread' = Served(c)
    BY <1>0, <1>7 DEF Renew, connVars, tabVars, Without, Placed, ServesOpened
  <2>2. \A d \in Conns : /\ AtThread(d)' = (IF d = c THEN {} ELSE AtThread(d))
                         /\ OnWire(d)' = OnWire(d)
    BY <1>0, <2>1, ServedMoves DEF OnWire
  <2>3. thread'.pc = "idle" \/ (thread'.pc = "routing" /\ thread'.event = thread.event)
    BY <1>0, <2>1, ServedShape, ThreadShapes DEF ServerTypes
  <2>4. Waiting' = Waiting /\ Out' = Out
    BY <2>1 DEF Waiting, Out
  <2>5. AtThread(c) = {thread.event}
    BY <2>1 DEF AtThread
  <2>6. /\ \A d \in Conns \ {c} : sendq'[d] = sendq[d]
        /\ sendq'[c] = sendq[c] \/ sendq'[c] = Append(sendq[c], thread.event)
        /\ thread.event \in Events /\ sendq[c] \in Seq(Events)
    <3>1. thread.event \in Events
      BY <1>0, <2>1, ThreadShapes DEF ServerTypes
    <3> QED
      BY <1>0, <1>7, <3>1, EnqueueMoves DEF Renew, ConnTypes
  <2>7. \A d \in Conns : Queued(d)' = Queued(d) \/ (d = c /\ Queued(d)' = Queued(d) \cup {thread.event})
    <3>1. Items(Append(sendq[c], thread.event)) = Items(sendq[c]) \cup {thread.event}
      BY <2>6, Appends
    <3> QED
      BY <2>6, <3>1 DEF Queued
  <2>8. \A d \in Conns : InOrder(sendq'[d], overtaken)
    <3>1. Before(Items(sendq[c]), {thread.event}, overtaken) /\ InOrder(sendq[c], overtaken)
      BY <2>5 DEF Sequenced, Before, Queued
    <3>2. InOrder(Append(sendq[c], thread.event), overtaken)
      BY <2>6, <3>1, Appends
    <3> QED
      BY <2>6, <3>1, <3>2 DEF Sequenced
  <2>9. HandedOver'
    BY <2>1, <2>2, <2>3, <2>4, <2>5, <2>7 DEF HandedOver
  <2>10. Sequenced'
    <3>1. InOrder(inbox', overtaken') /\ \A d \in Conns : FramesInOrder(wire'[d], overtaken')
      BY <2>1 DEF Sequenced
    <3>2. ASSUME NEW d \in Conns
          PROVE  /\ Before(AtThread(d)', Waiting', overtaken')
                 /\ Before(Queued(d)', AtThread(d)' \cup Waiting', overtaken')
                 /\ Before(OnWire(d)', Queued(d)' \cup AtThread(d)' \cup Waiting', overtaken')
      <4>1. /\ Before(AtThread(d), Waiting, overtaken)
            /\ Before(Queued(d), AtThread(d) \cup Waiting, overtaken)
            /\ Before(OnWire(d), Queued(d) \cup AtThread(d) \cup Waiting, overtaken)
        BY DEF Sequenced
      <4>2. Before({thread.event}, Waiting, overtaken)
        BY <2>5 DEF Sequenced
      <4> QED
        BY <2>1, <2>2, <2>4, <2>5, <2>7, <4>1, <4>2 DEF Before
    <3> QED
      BY <2>1, <2>8, <3>1, <3>2 DEF Sequenced
  <2> QED
    BY <2>9, <2>10
<1>8. ASSUME NEW c \in Conns, Revoke(c)  PROVE Lined'
  <2>1. /\ UNCHANGED <<log, publishing, inbox, wire, tab, overtaken>> /\ owed' \subseteq owed
        /\ c \in thread.todo /\ thread.pc = "rechecked"
        /\ thread' = Served(c) \/ thread' = [thread EXCEPT !.pc = "revoked"]
    BY <1>0, <1>8 DEF Revoke, connVars, tabVars, Without, Placed, ServesOpened
  <2>2. \A d \in Conns : /\ AtThread(d)' \subseteq AtThread(d)
                         /\ OnWire(d)' = OnWire(d)
    <3>1. CASE thread' = Served(c)
      BY <1>0, <2>1, <3>1, ServedMoves DEF OnWire
    <3>2. CASE thread' = [thread EXCEPT !.pc = "revoked"]
      BY <1>0, <2>1, <3>2, RevokedShape DEF OnWire, AtThread, ServerTypes
    <3> QED
      BY <2>1, <3>1, <3>2
  <2>3. \/ thread'.pc = "idle"
        \/ thread'.pc \in {"routing", "revoked"} /\ thread'.event = thread.event
    <3>1. CASE thread' = Served(c)
      BY <1>0, <2>1, <3>1, ServedShape, ThreadShapes DEF ServerTypes
    <3>2. CASE thread' = [thread EXCEPT !.pc = "revoked"]
      BY <1>0, <2>1, <3>2, RevokedShape DEF ServerTypes
    <3> QED
      BY <2>1, <3>1, <3>2
  <2>6. \A p \in owed' : p[2] # thread.event
    <3>1. thread.topic \in Routes(log[thread.event])
      BY <2>1 DEF HandedOver
    <3> QED
      BY <1>8, <3>1 DEF Revoke, Without
  <2>4. Waiting' = Waiting /\ Out' = Out
    BY <2>1 DEF Waiting, Out
  <2>5. AtThread(c) = {thread.event}
    BY <2>1 DEF AtThread
  <2>7. \A d \in Conns : Queued(d)' = Queued(d) /\ sendq'[d] = sendq[d]
    BY <1>8 DEF Revoke, connVars, Queued
  <2>8. \A d \in Conns : InOrder(sendq'[d], overtaken)
    BY <2>7 DEF Sequenced
  <2>9. HandedOver'
    BY <2>1, <2>2, <2>3, <2>4, <2>5, <2>6, <2>7 DEF HandedOver
  <2>10. Sequenced'
    <3>1. InOrder(inbox', overtaken') /\ \A d \in Conns : FramesInOrder(wire'[d], overtaken')
      BY <2>1 DEF Sequenced
    <3>2. ASSUME NEW d \in Conns
          PROVE  /\ Before(AtThread(d)', Waiting', overtaken')
                 /\ Before(Queued(d)', AtThread(d)' \cup Waiting', overtaken')
                 /\ Before(OnWire(d)', Queued(d)' \cup AtThread(d)' \cup Waiting', overtaken')
      <4>1. /\ Before(AtThread(d), Waiting, overtaken)
            /\ Before(Queued(d), AtThread(d) \cup Waiting, overtaken)
            /\ Before(OnWire(d), Queued(d) \cup AtThread(d) \cup Waiting, overtaken)
        BY DEF Sequenced
      <4>2. Before({thread.event}, Waiting, overtaken)
        BY <2>5 DEF Sequenced
      <4> QED
        BY <2>1, <2>2, <2>4, <2>5, <2>7, <4>1, <4>2 DEF Before
    <3> QED
      BY <2>1, <2>8, <3>1, <3>2 DEF Sequenced
  <2> QED
    BY <2>9, <2>10
<1>9. ASSUME NEW c \in Conns, Resume(c)  PROVE Lined'
  <2>1. /\ UNCHANGED <<log, publishing, inbox, thread, sendq, tab, owed>> /\ overtaken \subseteq overtaken'
    BY <1>9 DEF Resume, serverVars, tabVars
  <2>2. PICK f \in Frames : f.kind = "resumed" /\ wire' = [wire EXCEPT ![c] = Append(@, f)]
    <3> DEFINE f == [kind |-> "resumed", gap |-> Head(commands[c]).last > 0 /\ Len(log) > Head(commands[c]).last,
                     upto |-> Len(log)]
    <3>1. Len(log) \in 0..MaxEvents
      BY <1>0, Numbers DEF ServerTypes
    <3>2. \A g \in BOOLEAN : [kind |-> "resumed", gap |-> g, upto |-> Len(log)] \in Frames
      BY <3>1 DEF Frames
    <3>3. f \in Frames /\ f.kind = "resumed"
      BY <3>2
    <3>4. wire' = [wire EXCEPT ![c] = Append(@, f)]
      BY <1>9 DEF Resume
    <3> QED
      BY <3>3, <3>4
  <2>3. \A d \in Conns : /\ EventsOf(wire'[d]) \subseteq EventsOf(wire[d])
                         /\ FramesInOrder(wire'[d], overtaken)
    <3>1. wire[c] \in Seq(Frames) /\ wire'[c] = Append(wire[c], f)
          /\ \A d \in Conns \ {c} : wire'[d] = wire[d]
      BY <1>0, <2>2 DEF ConnTypes
    <3>2. FramesInOrder(wire[c], overtaken)
      BY DEF Sequenced
    <3>3. /\ \A e \in EventsOf(Append(wire[c], f)) : e \in EventsOf(wire[c])
          /\ FramesInOrder(Append(wire[c], f), overtaken)
      BY <2>2, <3>1, <3>2, AppendsFrame
    <3> QED
      BY <3>1, <3>3 DEF Sequenced
  <2>4. \A d \in Conns : /\ AtThread(d)' = AtThread(d) /\ Queued(d)' = Queued(d)
                         /\ OnWire(d)' \subseteq OnWire(d)
    BY <2>1, <2>2, <2>3 DEF AtThread, Queued, OnWire
  <2>5. Waiting' = Waiting /\ Out' = Out
    BY <2>1 DEF Waiting, Out
  <2>6. HandedOver'
    BY <2>1, <2>3, <2>4, <2>5 DEF HandedOver
  <2>7. \A d \in Conns : FramesInOrder(wire'[d], overtaken')
    BY <2>1, <2>3, AsideGrows
  <2>8. InOrder(inbox', overtaken') /\ \A d \in Conns : InOrder(sendq'[d], overtaken')
    BY <2>1, AsideGrows DEF Sequenced
  <2>9. ASSUME NEW d \in Conns
        PROVE  /\ Before(AtThread(d)', Waiting', overtaken')
               /\ Before(Queued(d)', AtThread(d)' \cup Waiting', overtaken')
               /\ Before(OnWire(d)', Queued(d)' \cup AtThread(d)' \cup Waiting', overtaken')
    <3>1. /\ Before(AtThread(d), Waiting, overtaken)
          /\ Before(Queued(d), AtThread(d) \cup Waiting, overtaken)
          /\ Before(OnWire(d), Queued(d) \cup AtThread(d) \cup Waiting, overtaken)
      BY DEF Sequenced
    <3> QED
      BY <2>1, <2>4, <2>5, <3>1 DEF Before
  <2> QED
    BY <2>6, <2>7, <2>8, <2>9 DEF Sequenced
<1>10. ASSUME NEW c \in Conns, ReadSubscribe(c)  PROVE Lined'
  <2>1. UNCHANGED <<log, publishing, inbox, thread, sendq, wire, overtaken>> /\ owed' \subseteq owed
    BY <1>10 DEF ReadSubscribe, serverVars, connVars, grantVars, accessVars, tabVars, Without
  <2>2. tab'.last = tab.last
    BY <1>10 DEF ReadSubscribe, tabVars
  <2> QED
    BY <1>0, <2>1, <2>2, StandsStill
<1>11. ASSUME NEW c \in Conns, ReadUnsubscribe(c)  PROVE Lined'
  <2>1. UNCHANGED <<log, publishing, inbox, thread, sendq, wire, overtaken>> /\ owed' \subseteq owed
    BY <1>11 DEF ReadUnsubscribe, serverVars, connVars, grantVars, accessVars, tabVars, Without
  <2>2. tab'.last = tab.last
    BY <1>11 DEF ReadUnsubscribe, tabVars
  <2> QED
    BY <1>0, <2>1, <2>2, StandsStill
<1>12. ASSUME NEW c \in Conns, Grant(c)  PROVE Lined'
  <2>1. UNCHANGED <<log, publishing, inbox, thread, sendq, wire, overtaken>> /\ owed' \subseteq owed
    BY <1>12 DEF Grant, serverVars, connVars, grantVars, accessVars, tabVars, Without
  <2>2. tab'.last = tab.last
    BY <1>12 DEF Grant, tabVars
  <2> QED
    BY <1>0, <2>1, <2>2, StandsStill
<1>13. ASSUME NEW c \in Conns, IndexGrant(c)  PROVE Lined'
  <2>1. UNCHANGED <<log, publishing, inbox, thread, sendq, wire, overtaken>> /\ owed' \subseteq owed
    BY <1>13 DEF IndexGrant, serverVars, connVars, grantVars, accessVars, tabVars, Without
  <2>2. tab'.last = tab.last
    BY <1>13 DEF IndexGrant, tabVars
  <2> QED
    BY <1>0, <2>1, <2>2, StandsStill
<1>14. ASSUME NEW c \in Conns, RenewFollowed(c)  PROVE Lined'
  <2>1. UNCHANGED <<log, publishing, inbox, thread, sendq, wire, overtaken>> /\ owed' \subseteq owed
    BY <1>14 DEF RenewFollowed, serverVars, connVars, grantVars, accessVars, tabVars, Without
  <2>2. tab'.last = tab.last
    BY <1>14 DEF RenewFollowed, tabVars
  <2> QED
    BY <1>0, <2>1, <2>2, StandsStill
<1>15. ASSUME NEW c \in Conns, NEW t \in Topics, Decide(c, t)  PROVE Lined'
  <2>1. UNCHANGED <<log, publishing, inbox, thread, sendq, wire, overtaken>> /\ owed' \subseteq owed
    BY <1>15 DEF Decide, serverVars, connVars, grantVars, accessVars, tabVars, Without
  <2>2. tab'.last = tab.last
    BY <1>15 DEF Decide, tabVars
  <2> QED
    BY <1>0, <2>1, <2>2, StandsStill
<1>16. ASSUME NEW c \in Conns, Write(c)  PROVE Lined'
  <2>1. /\ UNCHANGED <<log, publishing, inbox, thread, tab, owed, overtaken>>
        /\ sendq[c] # <<>> /\ sendq[c] \in Seq(Events) /\ wire[c] \in Seq(Frames)
        /\ sendq' = [sendq EXCEPT ![c] = Tail(@)]
        /\ wire' = [wire EXCEPT ![c] = Append(@, [kind |-> "event", event |-> Head(sendq[c])])]
    BY <1>0, <1>16 DEF Write, serverVars, tabVars, ConnTypes
  <2>2. PICK f \in Frames : /\ f.kind = "event" /\ f.event = Head(sendq[c])
                            /\ wire'[c] = Append(wire[c], f)
    <3>1. Head(sendq[c]) \in Events
      BY <2>1
    <3>2. [kind |-> "event", event |-> Head(sendq[c])] \in Frames
      BY <3>1 DEF Frames
    <3> QED
      BY <1>0, <2>1, <3>2 DEF ConnTypes
  <2>3. /\ sendq'[c] = Tail(sendq[c])
        /\ \A d \in Conns \ {c} : sendq'[d] = sendq[d] /\ wire'[d] = wire[d]
    BY <1>0, <2>1 DEF ConnTypes
  <2>4. /\ Head(sendq[c]) \in Queued(c) /\ Queued(c)' \subseteq Queued(c)
        /\ InOrder(sendq'[c], overtaken) /\ Before({Head(sendq[c])}, Queued(c)', overtaken)
    BY <2>1, <2>3, TakesHead DEF Queued, Sequenced
  <2>5. \A e \in OnWire(c)' : e \in OnWire(c) \/ e = Head(sendq[c])
    <3>1. \A e \in EventsOf(Append(wire[c], f)) : e \in EventsOf(wire[c]) \/ e = f.event
      BY <2>1, AppendsFrame
    <3> QED
      BY <2>2, <3>1 DEF OnWire
  <2>6. FramesInOrder(wire'[c], overtaken)
    <3>1. Before(EventsOf(wire[c]), {f.event}, overtaken) /\ FramesInOrder(wire[c], overtaken)
      BY <2>2, <2>4 DEF Sequenced, Before, OnWire
    <3>2. FramesInOrder(Append(wire[c], f), overtaken)
      BY <2>1, <3>1, AppendsFrame
    <3> QED
      BY <2>2, <3>2
  <2>7. \A d \in Conns : /\ AtThread(d)' = AtThread(d)
                         /\ d # c => Queued(d)' = Queued(d) /\ OnWire(d)' = OnWire(d)
    BY <2>1, <2>3 DEF AtThread, Queued, OnWire
  <2>8. Waiting' = Waiting /\ Out' = Out
    BY <2>1 DEF Waiting, Out
  <2>9. HandedOver'
    BY <2>1, <2>4, <2>5, <2>7, <2>8 DEF HandedOver
  <2>10. ASSUME NEW d \in Conns
         PROVE  /\ Before(AtThread(d)', Waiting', overtaken')
                /\ Before(Queued(d)', AtThread(d)' \cup Waiting', overtaken')
                /\ Before(OnWire(d)', Queued(d)' \cup AtThread(d)' \cup Waiting', overtaken')
    <3>1. /\ Before(AtThread(d), Waiting, overtaken)
          /\ Before(Queued(d), AtThread(d) \cup Waiting, overtaken)
          /\ Before(OnWire(d), Queued(d) \cup AtThread(d) \cup Waiting, overtaken)
      BY DEF Sequenced
    <3>2. CASE d = c
      BY <2>1, <2>4, <2>5, <2>7, <2>8, <3>1, <3>2 DEF Before
    <3>3. CASE d # c
      BY <2>1, <2>7, <2>8, <3>1, <3>3
    <3> QED
      BY <3>2, <3>3
  <2>11. Sequenced'
    BY <2>1, <2>3, <2>4, <2>6, <2>10 DEF Sequenced
  <2> QED
    BY <2>9, <2>11
<1>17. ASSUME NEW c \in Conns, Release(c)  PROVE Lined'
  <2>1. UNCHANGED <<log, publishing, inbox, thread, wire, tab, owed, overtaken>>
    BY <1>17 DEF Release, serverVars, tabVars
  <2>2. \A d \in Conns : sendq'[d] = IF d = c THEN <<>> ELSE sendq[d]
    BY <1>0, <1>17 DEF Release, ConnTypes
  <2>3. \A d \in Conns : /\ AtThread(d)' = AtThread(d) /\ OnWire(d)' = OnWire(d)
                         /\ Queued(d)' = IF d = c THEN {} ELSE Queued(d)
    BY <2>1, <2>2 DEF AtThread, OnWire, Queued, Items
  <2>4. Waiting' = Waiting /\ Out' = Out
    BY <2>1 DEF Waiting, Out
  <2>5. HandedOver'
    BY <2>1, <2>3, <2>4 DEF HandedOver
  <2>6. \A d \in Conns : InOrder(sendq'[d], overtaken)
    <3>1. InOrder(<<>>, overtaken)
      BY DEF InOrder
    <3> QED
      BY <2>2, <3>1 DEF Sequenced
  <2>7. Sequenced'
    BY <2>1, <2>3, <2>4, <2>6 DEF Sequenced, Before
  <2> QED
    BY <2>5, <2>7
<1>18. ASSUME Connect  PROVE Lined'
  <2>1. /\ UNCHANGED <<log, publishing, inbox, thread, sendq, owed>> /\ overtaken \subseteq overtaken'
        /\ tab'.last = tab.last
    BY <1>0, <1>18, TabConnects DEF Connect, serverVars
  <2>2. \A d \in Conns : wire'[d] = wire[d] \/ wire'[d] = <<[kind |-> "ready"]>>
    BY <1>0, <1>18 DEF Connect, ConnTypes
  <2>3. \A d \in Conns : /\ EventsOf(wire'[d]) \subseteq EventsOf(wire[d])
                         /\ FramesInOrder(wire'[d], overtaken)
    <3>1. EventsOf(<<[kind |-> "ready"]>>) = {} /\ FramesInOrder(<<[kind |-> "ready"]>>, overtaken)
      BY DEF EventsOf, FramesInOrder, IsEvent
    <3> QED
      BY <2>2, <3>1 DEF Sequenced
  <2>4. \A d \in Conns : /\ AtThread(d)' = AtThread(d) /\ Queued(d)' = Queued(d)
                         /\ OnWire(d)' \subseteq OnWire(d)
    BY <2>1, <2>2, <2>3 DEF AtThread, Queued, OnWire
  <2>5. Waiting' = Waiting /\ Out' = Out
    BY <2>1 DEF Waiting, Out
  <2>6. HandedOver'
    BY <2>1, <2>3, <2>4, <2>5 DEF HandedOver
  <2>7. \A d \in Conns : FramesInOrder(wire'[d], overtaken')
    BY <2>1, <2>3, AsideGrows
  <2>8. InOrder(inbox', overtaken') /\ \A d \in Conns : InOrder(sendq'[d], overtaken')
    BY <2>1, AsideGrows DEF Sequenced
  <2>9. ASSUME NEW d \in Conns
        PROVE  /\ Before(AtThread(d)', Waiting', overtaken')
               /\ Before(Queued(d)', AtThread(d)' \cup Waiting', overtaken')
               /\ Before(OnWire(d)', Queued(d)' \cup AtThread(d)' \cup Waiting', overtaken')
    <3>1. /\ Before(AtThread(d), Waiting, overtaken)
          /\ Before(Queued(d), AtThread(d) \cup Waiting, overtaken)
          /\ Before(OnWire(d), Queued(d) \cup AtThread(d) \cup Waiting, overtaken)
      BY DEF Sequenced
    <3> QED
      BY <2>1, <2>4, <2>5, <3>1 DEF Before
  <2> QED
    BY <2>6, <2>7, <2>8, <2>9 DEF Sequenced
<1>19. ASSUME HandleReady  PROVE Lined'
  <2>1. UNCHANGED <<log, publishing, inbox, thread, sendq, owed>> /\ overtaken \subseteq overtaken'
    BY <1>19 DEF HandleReady, serverVars
  <2>2. /\ tab.conn \in Conns /\ wire[tab.conn] \in Seq(Frames) /\ wire[tab.conn] # <<>>
        /\ wire' = [wire EXCEPT ![tab.conn] = Tail(@)]
    BY <1>0, <1>19, HeadFrame DEF HandleReady
  <2>3. /\ \A d \in Conns : /\ EventsOf(wire'[d]) \subseteq EventsOf(wire[d])
                            /\ FramesInOrder(wire'[d], overtaken)
        /\ tab'.last > 0 => tab'.last \in Out
    <3>1. /\ wire'[tab.conn] = Tail(wire[tab.conn])
          /\ \A d \in Conns \ {tab.conn} : wire'[d] = wire[d]
      BY <1>0, <2>2 DEF ConnTypes
    <3>2. EventsOf(wire'[tab.conn]) \subseteq EventsOf(wire[tab.conn])
          /\ FramesInOrder(wire'[tab.conn], overtaken)
      BY <2>2, <3>1, TakesFrame DEF Sequenced
    <3>3. tab'.last > 0 => tab'.last \in Out
      BY <1>0, <1>19, TabReceives DEF HandedOver
    <3> QED
      BY <3>1, <3>2, <3>3 DEF Sequenced
  <2>4. \A d \in Conns : /\ AtThread(d)' = AtThread(d) /\ Queued(d)' = Queued(d)
                         /\ OnWire(d)' \subseteq OnWire(d)
    BY <2>1, <2>2, <2>3 DEF AtThread, Queued, OnWire
  <2>5. Waiting' = Waiting /\ Out' = Out
    BY <2>1 DEF Waiting, Out
  <2>6. HandedOver'
    BY <2>1, <2>3, <2>4, <2>5 DEF HandedOver
  <2>7. \A d \in Conns : FramesInOrder(wire'[d], overtaken')
    BY <2>1, <2>3, AsideGrows
  <2>8. InOrder(inbox', overtaken') /\ \A d \in Conns : InOrder(sendq'[d], overtaken')
    BY <2>1, AsideGrows DEF Sequenced
  <2>9. ASSUME NEW d \in Conns
        PROVE  /\ Before(AtThread(d)', Waiting', overtaken')
               /\ Before(Queued(d)', AtThread(d)' \cup Waiting', overtaken')
               /\ Before(OnWire(d)', Queued(d)' \cup AtThread(d)' \cup Waiting', overtaken')
    <3>1. /\ Before(AtThread(d), Waiting, overtaken)
          /\ Before(Queued(d), AtThread(d) \cup Waiting, overtaken)
          /\ Before(OnWire(d), Queued(d) \cup AtThread(d) \cup Waiting, overtaken)
      BY DEF Sequenced
    <3> QED
      BY <2>1, <2>4, <2>5, <3>1 DEF Before
  <2> QED
    BY <2>6, <2>7, <2>8, <2>9 DEF Sequenced
<1>20. ASSUME HandleEvent  PROVE Lined'
  <2>1. UNCHANGED <<log, publishing, inbox, thread, sendq, owed>> /\ overtaken \subseteq overtaken'
    BY <1>20 DEF HandleEvent, serverVars
  <2>2. /\ tab.conn \in Conns /\ wire[tab.conn] \in Seq(Frames) /\ wire[tab.conn] # <<>>
        /\ wire' = [wire EXCEPT ![tab.conn] = Tail(@)]
    BY <1>0, <1>20, HeadFrame DEF HandleEvent
  <2>3. /\ \A d \in Conns : /\ EventsOf(wire'[d]) \subseteq EventsOf(wire[d])
                            /\ FramesInOrder(wire'[d], overtaken)
        /\ tab'.last > 0 => tab'.last \in Out
    <3>1. /\ wire'[tab.conn] = Tail(wire[tab.conn])
          /\ \A d \in Conns \ {tab.conn} : wire'[d] = wire[d]
      BY <1>0, <2>2 DEF ConnTypes
    <3>2. EventsOf(wire'[tab.conn]) \subseteq EventsOf(wire[tab.conn])
          /\ FramesInOrder(wire'[tab.conn], overtaken)
      BY <2>2, <3>1, TakesFrame DEF Sequenced
    <3>3. tab'.last > 0 => tab'.last \in Out
      <4>1. Head(wire[tab.conn]).event \in Out
        BY <1>20, <2>2, TakesFrame DEF HandleEvent, Receives, HandedOver, OnWire
      <4>2. tab'.last = tab.last \/ tab'.last = Head(wire[tab.conn]).event
        BY <1>0, <1>20, TabReceives
      <4> QED
        BY <4>1, <4>2 DEF HandedOver
    <3> QED
      BY <3>1, <3>2, <3>3 DEF Sequenced
  <2>4. \A d \in Conns : /\ AtThread(d)' = AtThread(d) /\ Queued(d)' = Queued(d)
                         /\ OnWire(d)' \subseteq OnWire(d)
    BY <2>1, <2>2, <2>3 DEF AtThread, Queued, OnWire
  <2>5. Waiting' = Waiting /\ Out' = Out
    BY <2>1 DEF Waiting, Out
  <2>6. HandedOver'
    BY <2>1, <2>3, <2>4, <2>5 DEF HandedOver
  <2>7. \A d \in Conns : FramesInOrder(wire'[d], overtaken')
    BY <2>1, <2>3, AsideGrows
  <2>8. InOrder(inbox', overtaken') /\ \A d \in Conns : InOrder(sendq'[d], overtaken')
    BY <2>1, AsideGrows DEF Sequenced
  <2>9. ASSUME NEW d \in Conns
        PROVE  /\ Before(AtThread(d)', Waiting', overtaken')
               /\ Before(Queued(d)', AtThread(d)' \cup Waiting', overtaken')
               /\ Before(OnWire(d)', Queued(d)' \cup AtThread(d)' \cup Waiting', overtaken')
    <3>1. /\ Before(AtThread(d), Waiting, overtaken)
          /\ Before(Queued(d), AtThread(d) \cup Waiting, overtaken)
          /\ Before(OnWire(d), Queued(d) \cup AtThread(d) \cup Waiting, overtaken)
      BY DEF Sequenced
    <3> QED
      BY <2>1, <2>4, <2>5, <3>1 DEF Before
  <2> QED
    BY <2>6, <2>7, <2>8, <2>9 DEF Sequenced
<1>21. ASSUME HandleResumed  PROVE Lined'
  <2>1. UNCHANGED <<log, publishing, inbox, thread, sendq, owed>> /\ overtaken \subseteq overtaken'
    BY <1>21 DEF HandleResumed, serverVars
  <2>2. /\ tab.conn \in Conns /\ wire[tab.conn] \in Seq(Frames) /\ wire[tab.conn] # <<>>
        /\ wire' = [wire EXCEPT ![tab.conn] = Tail(@)]
    BY <1>0, <1>21, HeadFrame DEF HandleResumed
  <2>3. /\ \A d \in Conns : /\ EventsOf(wire'[d]) \subseteq EventsOf(wire[d])
                            /\ FramesInOrder(wire'[d], overtaken)
        /\ tab'.last > 0 => tab'.last \in Out
    <3>1. /\ wire'[tab.conn] = Tail(wire[tab.conn])
          /\ \A d \in Conns \ {tab.conn} : wire'[d] = wire[d]
      BY <1>0, <2>2 DEF ConnTypes
    <3>2. EventsOf(wire'[tab.conn]) \subseteq EventsOf(wire[tab.conn])
          /\ FramesInOrder(wire'[tab.conn], overtaken)
      BY <2>2, <3>1, TakesFrame DEF Sequenced
    <3>3. tab'.last > 0 => tab'.last \in Out
      BY <1>0, <1>21, TabReceives DEF HandedOver
    <3> QED
      BY <3>1, <3>2, <3>3 DEF Sequenced
  <2>4. \A d \in Conns : /\ AtThread(d)' = AtThread(d) /\ Queued(d)' = Queued(d)
                         /\ OnWire(d)' \subseteq OnWire(d)
    BY <2>1, <2>2, <2>3 DEF AtThread, Queued, OnWire
  <2>5. Waiting' = Waiting /\ Out' = Out
    BY <2>1 DEF Waiting, Out
  <2>6. HandedOver'
    BY <2>1, <2>3, <2>4, <2>5 DEF HandedOver
  <2>7. \A d \in Conns : FramesInOrder(wire'[d], overtaken')
    BY <2>1, <2>3, AsideGrows
  <2>8. InOrder(inbox', overtaken') /\ \A d \in Conns : InOrder(sendq'[d], overtaken')
    BY <2>1, AsideGrows DEF Sequenced
  <2>9. ASSUME NEW d \in Conns
        PROVE  /\ Before(AtThread(d)', Waiting', overtaken')
               /\ Before(Queued(d)', AtThread(d)' \cup Waiting', overtaken')
               /\ Before(OnWire(d)', Queued(d)' \cup AtThread(d)' \cup Waiting', overtaken')
    <3>1. /\ Before(AtThread(d), Waiting, overtaken)
          /\ Before(Queued(d), AtThread(d) \cup Waiting, overtaken)
          /\ Before(OnWire(d), Queued(d) \cup AtThread(d) \cup Waiting, overtaken)
      BY DEF Sequenced
    <3> QED
      BY <2>1, <2>4, <2>5, <3>1 DEF Before
  <2> QED
    BY <2>6, <2>7, <2>8, <2>9 DEF Sequenced
<1>22. ASSUME RecoverFromGap  PROVE Lined'
  <2>1. UNCHANGED <<log, publishing, inbox, thread, sendq, wire, overtaken>> /\ owed' \subseteq owed
    BY <1>22 DEF RecoverFromGap, serverVars, connVars, grantVars, accessVars, tabVars, Without
  <2>2. tab'.last = tab.last
    BY <1>0, <1>22, TabReceives
  <2> QED
    BY <1>0, <2>1, <2>2, StandsStill
<1>23. ASSUME Lose  PROVE Lined'
  <2>1. /\ UNCHANGED <<log, publishing, inbox, thread, sendq, owed>> /\ overtaken \subseteq overtaken'
        /\ tab'.last = tab.last
    BY <1>0, <1>23, TabConnects DEF Lose, serverVars
  <2>2. \A d \in Conns : wire'[d] = wire[d] \/ wire'[d] = <<>>
    BY <1>0, <1>23 DEF Lose, ConnTypes
  <2>3. \A d \in Conns : /\ EventsOf(wire'[d]) \subseteq EventsOf(wire[d])
                         /\ FramesInOrder(wire'[d], overtaken)
    <3>1. EventsOf(<<>>) = {} /\ FramesInOrder(<<>>, overtaken)
      BY DEF EventsOf, FramesInOrder, IsEvent
    <3> QED
      BY <2>2, <3>1 DEF Sequenced
  <2>4. \A d \in Conns : /\ AtThread(d)' = AtThread(d) /\ Queued(d)' = Queued(d)
                         /\ OnWire(d)' \subseteq OnWire(d)
    BY <2>1, <2>2, <2>3 DEF AtThread, Queued, OnWire
  <2>5. Waiting' = Waiting /\ Out' = Out
    BY <2>1 DEF Waiting, Out
  <2>6. HandedOver'
    BY <2>1, <2>3, <2>4, <2>5 DEF HandedOver
  <2>7. \A d \in Conns : FramesInOrder(wire'[d], overtaken')
    BY <2>1, <2>3, AsideGrows
  <2>8. InOrder(inbox', overtaken') /\ \A d \in Conns : InOrder(sendq'[d], overtaken')
    BY <2>1, AsideGrows DEF Sequenced
  <2>9. ASSUME NEW d \in Conns
        PROVE  /\ Before(AtThread(d)', Waiting', overtaken')
               /\ Before(Queued(d)', AtThread(d)' \cup Waiting', overtaken')
               /\ Before(OnWire(d)', Queued(d)' \cup AtThread(d)' \cup Waiting', overtaken')
    <3>1. /\ Before(AtThread(d), Waiting, overtaken)
          /\ Before(Queued(d), AtThread(d) \cup Waiting, overtaken)
          /\ Before(OnWire(d), Queued(d) \cup AtThread(d) \cup Waiting, overtaken)
      BY DEF Sequenced
    <3> QED
      BY <2>1, <2>4, <2>5, <3>1 DEF Before
  <2> QED
    BY <2>6, <2>7, <2>8, <2>9 DEF Sequenced
<1>24. ASSUME NEW t \in Topics, Follow(t)  PROVE Lined'
  <2>1. UNCHANGED <<log, publishing, inbox, thread, sendq, wire, overtaken>> /\ owed' \subseteq owed
    BY <1>24 DEF Follow, serverVars, connVars, grantVars, accessVars, tabVars, Without
  <2>2. tab'.last = tab.last
    BY <1>0, <1>24, TabConnects
  <2> QED
    BY <1>0, <2>1, <2>2, StandsStill
<1>25. ASSUME NEW t \in Topics, Unfollow(t)  PROVE Lined'
  <2>1. UNCHANGED <<log, publishing, inbox, thread, sendq, wire, overtaken>> /\ owed' \subseteq owed
    BY <1>25 DEF Unfollow, serverVars, connVars, grantVars, accessVars, tabVars, Without
  <2>2. tab'.last = tab.last
    BY <1>0, <1>25, TabConnects
  <2> QED
    BY <1>0, <2>1, <2>2, StandsStill
<1>26. ASSUME NEW t \in Topics, Withdraw(t)  PROVE Lined'
  <2>1. UNCHANGED <<log, publishing, inbox, thread, sendq, wire, overtaken>> /\ owed' \subseteq owed
    BY <1>26 DEF Withdraw, serverVars, connVars, grantVars, accessVars, tabVars, Without
  <2>2. tab'.last = tab.last
    BY <1>26 DEF Withdraw, tabVars
  <2> QED
    BY <1>0, <2>1, <2>2, StandsStill
<1>27. ASSUME Tick  PROVE Lined'
  <2>1. UNCHANGED <<log, publishing, inbox, thread, sendq, wire, overtaken>> /\ owed' \subseteq owed
    BY <1>27 DEF Tick, serverVars, connVars, grantVars, accessVars, tabVars, Without
  <2>2. tab'.last = tab.last
    BY <1>27 DEF Tick, tabVars
  <2> QED
    BY <1>0, <2>1, <2>2, StandsStill
<1>28. CASE UNCHANGED vars
  BY <1>28, StandsStill DEF vars, serverVars, connVars, tabVars
<1>29. ASSUME NEW c \in Conns, DropRevoked(c)  PROVE Lined'
  <2>1. /\ UNCHANGED <<log, publishing, inbox, wire, tab, overtaken>> /\ owed' \subseteq owed
        /\ c \in thread.todo /\ thread.pc # "idle" /\ thread' = Served(c)
    BY <1>0, <1>29 DEF DropRevoked, Discard, connVars, tabVars, Without, Placed, ServesOpened
  <2>2. \A d \in Conns : /\ AtThread(d)' = (IF d = c THEN {} ELSE AtThread(d))
                         /\ OnWire(d)' = OnWire(d)
    BY <1>0, <2>1, ServedMoves DEF OnWire
  <2>3. thread'.pc = "idle" \/ (thread'.pc = "routing" /\ thread'.event = thread.event)
    BY <1>0, <2>1, ServedShape, ThreadShapes DEF ServerTypes
  <2>4. Waiting' = Waiting /\ Out' = Out
    BY <2>1 DEF Waiting, Out
  <2>5. AtThread(c) = {thread.event}
    BY <2>1 DEF AtThread
  <2>7. \A d \in Conns : Queued(d)' = Queued(d) /\ sendq'[d] = sendq[d]
    BY <1>29 DEF DropRevoked, connVars, Queued
  <2>8. \A d \in Conns : InOrder(sendq'[d], overtaken)
    BY <2>7 DEF Sequenced
  <2>9. HandedOver'
    BY <2>1, <2>2, <2>3, <2>4, <2>5, <2>7 DEF HandedOver
  <2>10. Sequenced'
    <3>1. InOrder(inbox', overtaken') /\ \A d \in Conns : FramesInOrder(wire'[d], overtaken')
      BY <2>1 DEF Sequenced
    <3>2. ASSUME NEW d \in Conns
          PROVE  /\ Before(AtThread(d)', Waiting', overtaken')
                 /\ Before(Queued(d)', AtThread(d)' \cup Waiting', overtaken')
                 /\ Before(OnWire(d)', Queued(d)' \cup AtThread(d)' \cup Waiting', overtaken')
      <4>1. /\ Before(AtThread(d), Waiting, overtaken)
            /\ Before(Queued(d), AtThread(d) \cup Waiting, overtaken)
            /\ Before(OnWire(d), Queued(d) \cup AtThread(d) \cup Waiting, overtaken)
        BY DEF Sequenced
      <4>2. Before({thread.event}, Waiting, overtaken)
        BY <2>5 DEF Sequenced
      <4> QED
        BY <2>1, <2>2, <2>4, <2>5, <2>7, <4>1, <4>2 DEF Before
    <3> QED
      BY <2>1, <2>8, <3>1, <3>2 DEF Sequenced
  <2> QED
    BY <2>9, <2>10
<1>30. ASSUME NEW c \in Conns, DropUnsubscribed(c)  PROVE Lined'
  <2>1. UNCHANGED <<log, publishing, inbox, thread, sendq, wire, overtaken>> /\ owed' \subseteq owed
    BY <1>30 DEF DropUnsubscribed, serverVars, connVars, grantVars, accessVars, tabVars, Without, Discard
  <2>2. tab'.last = tab.last
    BY <1>30 DEF DropUnsubscribed, tabVars
  <2> QED
    BY <1>0, <2>1, <2>2, StandsStill
<1>31. ASSUME NEW c \in Conns, NEW t \in Topics, FindFollowed(c, t)  PROVE Lined'
  <2>1. UNCHANGED <<log, publishing, inbox, thread, sendq, wire, overtaken>> /\ owed' \subseteq owed
    BY <1>31 DEF FindFollowed, serverVars, connVars, grantVars, accessVars, tabVars, Without
  <2>2. tab'.last = tab.last
    BY <1>31 DEF FindFollowed, tabVars
  <2> QED
    BY <1>0, <2>1, <2>2, StandsStill
<1> QED
  BY <1>1, <1>2, <1>3, <1>4, <1>5, <1>6, <1>7, <1>8, <1>9, <1>10, <1>11, <1>12, <1>13, <1>14,
     <1>15, <1>16, <1>17, <1>18, <1>19, <1>20, <1>21, <1>22, <1>23, <1>24, <1>25, <1>26, <1>27,
     <1>28, <1>29, <1>30, <1>31, StepCases

-----------------------------------------------------------------------------
(* What is owed on the tab's connection is on its way                      *)

(* The commands the endpoint has not read.                                 *)
Sent(c) == Items(commands[c])

(* The endpoint of a connection has ended or will end.                     *)
Down(c) == c \in closed \/ c \notin up \/ tab.phase = "down"

(* A subscription that brings event e, and that no "unsubscribe" awaits.   *)
Held(c, e) ==
    \E t \in Routes(log[e]) \cap tab.wanted : c \in index[t] /\ t \in following[c] /\ ~Leaving(c, t)

(* Event e is on the wire, or will be unless the connection ends.          *)
Reaches(c, e) ==
    \/ e \in OnWire(c)
    \/ /\ \A f \in OnWire(c) : f < e
       /\ \/ Down(c)
          \/ e \in Queued(c)
          \/ (e \in AtThread(c) \/ e \in Waiting) /\ Held(c, e)

Due(c, e) == <<c, e>> \in owed /\ e \notin known /\ e \notin overtaken

OnTheWay ==
    /\ up \ closed \subseteq live
    /\ \A p \in owed : p[1] <= tab.conn
    /\ \A c \in Conns, e \in Events : c = tab.conn /\ Due(c, e) => Reaches(c, e)

(* An "unsubscribe" of t among the commands.                               *)
LEMMA LeavingIsSent ==
    ASSUME NEW c, NEW t
    PROVE  /\ Leaving(c, t) <=> \E q \in Sent(c) : q.kind = "unsubscribe" /\ t \in q.topics
           /\ Leaving(c, t)' <=> \E q \in Sent(c)' : q.kind = "unsubscribe" /\ t \in q.topics
BY DEF Leaving, Sent, Items

(* A command is read.                                                      *)
LEMMA ReadsShrink ==
    ASSUME ConnTypes, NEW c \in Conns, NEW kind, Reads(c, kind),
           commands' = [commands EXCEPT ![c] = Tail(@)]
    PROVE  /\ Head(commands[c]) \in Sent(c)
           /\ \A d \in Conns : Sent(d)' \subseteq Sent(d)
<1>1. commands[c] \in Seq(Commands) /\ commands[c] # <<>>
  BY HeadCommand
<1>2. Head(commands[c]) \in Items(commands[c]) /\ Items(Tail(commands[c])) \subseteq Items(commands[c])
  BY <1>1, TakesHead
<1>3. \A d \in Conns : commands'[d] = IF d = c THEN Tail(commands[c]) ELSE commands[d]
  BY DEF ConnTypes
<1> QED
  BY <1>2, <1>3 DEF Sent

(* The commands of a sequence that goes on.                                *)
LEMMA GoesOn ==
    ASSUME NEW s \in Seq(Commands), NEW r \in Seq(Commands)
    PROVE  Items(s \o r) \subseteq Items(s) \cup Items(r)
<1>1. /\ Len(s) \in Nat /\ Len(r) \in Nat /\ DOMAIN s = 1..Len(s) /\ DOMAIN r = 1..Len(r)
      /\ DOMAIN (s \o r) = 1..(Len(s) + Len(r))
      /\ \A i \in 1..(Len(s) + Len(r)) :
           (s \o r)[i] = IF i <= Len(s) THEN s[i] ELSE r[i - Len(s)]
  OBVIOUS
<1>2. ASSUME NEW i \in 1..(Len(s) + Len(r))  PROVE (s \o r)[i] \in Items(s) \cup Items(r)
  <2>1. CASE i <= Len(s)
    <3>1. i \in DOMAIN s
      BY <1>1, <2>1
    <3> QED
      BY <1>1, <2>1, <3>1 DEF Items
  <2>2. CASE ~(i <= Len(s))
    <3>1. i - Len(s) \in DOMAIN r
      BY <1>1, <2>2
    <3> QED
      BY <1>1, <2>2, <3>1 DEF Items
  <2> QED
    BY <2>1, <2>2
<1> QED
  BY <1>1, <1>2 DEF Items

(* The tab tells the endpoint something.                                   *)
LEMMA ToldAdds ==
    ASSUME ConnTypes, TabTypes, NEW q \in Commands, commands' = Told(q)
    PROVE  \A d \in Conns : \A x \in Sent(d)' : x \in Sent(d) \/ (x = q /\ d = tab.conn)
<1>1. ASSUME NEW d \in Conns
      PROVE  commands'[d] = commands[d] \/ (d = tab.conn /\ commands'[d] = Append(commands[d], q))
  <2>1. CASE commands' = commands
    BY <2>1
  <2>2. CASE commands' = [commands EXCEPT ![tab.conn] = Append(@, q)]
    BY <2>2 DEF ConnTypes
  <2> QED
    BY <2>1, <2>2 DEF Told
<1>2. ASSUME NEW d \in Conns  PROVE \A x \in Items(Append(commands[d], q)) : x \in Items(commands[d]) \/ x = q
  <2>1. commands[d] \in Seq(Commands)
    BY DEF ConnTypes
  <2>2. /\ Len(commands[d]) \in Nat /\ DOMAIN commands[d] = 1..Len(commands[d])
        /\ DOMAIN Append(commands[d], q) = 1..(Len(commands[d]) + 1)
        /\ Append(commands[d], q)[Len(commands[d]) + 1] = q
        /\ \A i \in 1..Len(commands[d]) : Append(commands[d], q)[i] = commands[d][i]
    BY <2>1
  <2>3. \A i \in 1..(Len(commands[d]) + 1) : i \in 1..Len(commands[d]) \/ i = Len(commands[d]) + 1
    BY <2>2
  <2> QED
    BY <2>2, <2>3 DEF Items
<1> QED
  BY <1>1, <1>2 DEF Sent

(* What the tab says when it is connected.                                 *)
LEMMA ReadyAdds ==
    ASSUME ConnTypes, TabTypes, HandleReady
    PROVE  \A d \in Conns : \A q \in Sent(d)' :
             \/ q \in Sent(d)
             \/ q.kind = "subscribe"
             \/ q.kind = "resume" /\ q.last = tab.last /\ tab.last > 0
<1> DEFINE resume    == IF tab.last > 0 THEN <<[kind |-> "resume", last |-> tab.last]>> ELSE <<>>
           subscribe == IF tab.wanted # {} THEN <<[kind |-> "subscribe", topics |-> tab.wanted]>> ELSE <<>>
           c == tab.conn
<1>1. c \in Conns /\ commands[c] \in Seq(Commands)
  BY HeadFrame DEF HandleReady, ConnTypes
<1>2. /\ [kind |-> "resume", last |-> tab.last] \in Commands
      /\ [kind |-> "subscribe", topics |-> tab.wanted] \in Commands
  <2>1. tab.last \in Nat /\ tab.wanted \in SUBSET Topics
    BY TabShape, Numbers
  <2> QED
    BY <2>1 DEF Commands
<1>3. /\ resume \in Seq(Commands) /\ \A q \in Items(resume) : q.kind = "resume" /\ q.last = tab.last /\ tab.last > 0
  <2>1. CASE tab.last > 0
    BY <1>2, <2>1 DEF Items
  <2>2. CASE ~(tab.last > 0)
    <3>1. <<>> \in Seq(Commands) /\ Items(<<>>) = {}
      BY DEF Items
    <3> QED
      BY <2>2, <3>1
  <2> QED
    BY <2>1, <2>2
<1>4. /\ subscribe \in Seq(Commands) /\ \A q \in Items(subscribe) : q.kind = "subscribe"
  <2>1. CASE tab.wanted # {}
    BY <1>2, <2>1 DEF Items
  <2>2. CASE tab.wanted = {}
    <3>1. <<>> \in Seq(Commands) /\ Items(<<>>) = {}
      BY DEF Items
    <3> QED
      BY <2>2, <3>1
  <2> QED
    BY <2>1, <2>2
<1>5. commands' = [commands EXCEPT ![c] = (@ \o resume) \o subscribe]
  BY DEF HandleReady
<1>6. /\ commands'[c] = (commands[c] \o resume) \o subscribe
      /\ \A d \in Conns \ {c} : commands'[d] = commands[d]
  BY <1>1, <1>5 DEF ConnTypes
<1> HIDE DEF resume, subscribe
<1>7. commands[c] \o resume \in Seq(Commands)
  BY <1>1, <1>3
<1>8. Items((commands[c] \o resume) \o subscribe) \subseteq Items(commands[c] \o resume) \cup Items(subscribe)
  <2>1. subscribe \in Seq(Commands)
    BY <1>4
  <2> QED
    BY ONLY <1>7, <2>1, GoesOn
<1>9. Items(commands[c] \o resume) \subseteq Items(commands[c]) \cup Items(resume)
  BY <1>1, <1>3, GoesOn
<1> QED
  BY <1>3, <1>4, <1>6, <1>8, <1>9 DEF Sent

(* The answer to "resume" adds no event to a wire.                         *)
LEMMA AnswerIsNoEvent ==
    ASSUME ServerTypes, ConnTypes, NEW c \in Conns, Resume(c)
    PROVE  \A d \in Conns : EventsOf(wire'[d]) = EventsOf(wire[d])
<1>1. PICK g \in BOOLEAN : wire' = [wire EXCEPT ![c] = Append(@, [kind |-> "resumed", gap |-> g, upto |-> Len(log)])]
  <2>1. (Head(commands[c]).last > 0 /\ Len(log) > Head(commands[c]).last) \in BOOLEAN
    OBVIOUS
  <2> QED
    BY <2>1 DEF Resume
<1>2. PICK f \in Frames : f.kind = "resumed" /\ wire' = [wire EXCEPT ![c] = Append(@, f)]
  <2>1. Len(log) \in 0..MaxEvents
    BY Numbers DEF ServerTypes
  <2>2. [kind |-> "resumed", gap |-> g, upto |-> Len(log)] \in Frames
    BY <2>1 DEF Frames
  <2> QED
    BY <1>1, <2>2
<1>3. wire[c] \in Seq(Frames) /\ wire'[c] = Append(wire[c], f)
      /\ \A d \in Conns \ {c} : wire'[d] = wire[d]
  BY <1>2 DEF ConnTypes
<1>4. EventsOf(Append(wire[c], f)) = EventsOf(wire[c])
  <2>1. EventsOf(wire[c]) \subseteq EventsOf(Append(wire[c], f))
    BY <1>3, AppendsFrame
  <2>2. \A e \in EventsOf(Append(wire[c], f)) : e \in EventsOf(wire[c])
    BY <1>2, <1>3, AppendsFrame
  <2> QED
    BY <2>1, <2>2
<1> QED
  BY <1>3, <1>4

(* A frame is read: the wire keeps the other events.                       *)
LEMMA FrameRead ==
    ASSUME ConnTypes, TabTypes, NEW kind, Receives(kind)
    PROVE  \A d \in Conns : /\ OnWire(d)' \subseteq OnWire(d)
                            /\ \A e \in OnWire(d) :
                                 \/ e \in OnWire(d)'
                                 \/ kind = "event" /\ e = Head(wire[tab.conn]).event
<1>1. /\ tab.conn \in Conns /\ wire[tab.conn] \in Seq(Frames) /\ wire[tab.conn] # <<>>
      /\ wire' = [wire EXCEPT ![tab.conn] = Tail(@)] /\ Head(wire[tab.conn]).kind = kind
  BY HeadFrame DEF Receives
<1>2. /\ EventsOf(Tail(wire[tab.conn])) \subseteq EventsOf(wire[tab.conn])
      /\ \A e \in EventsOf(wire[tab.conn]) :
           \/ Head(wire[tab.conn]).kind = "event" /\ Head(wire[tab.conn]).event = e
           \/ e \in EventsOf(Tail(wire[tab.conn]))
  BY <1>1, TakesFrame
<1>3. \A d \in Conns : wire'[d] = IF d = tab.conn THEN Tail(wire[tab.conn]) ELSE wire[d]
  BY <1>1 DEF ConnTypes
<1> QED
  BY <1>1, <1>2, <1>3 DEF OnWire

(* A grant that is taken back leaves the others.                           *)
LEMMA TakeBackKeeps ==
    ASSUME GrantTypes, NEW c \in Conns, NEW u, TakeBack(c, u),
           NEW d \in Conns, NEW t \in Topics, d = c => t # u, t \in following[d]
    PROVE  t \in following'[d]
<1>1. following'[d] = IF d = c THEN following[c] \ {u} ELSE following[d]
  BY DEF GrantTypes, TakeBack
<1> QED
  BY <1>1

(* A connection that leaves the index of a topic still follows what brings *)
(* the events it is owed.                                                  *)
LEMMA DiscardHolds ==
    ASSUME GrantTypes, TabTypes, NEW c \in Conns, NEW u, Discard(c, u),
           UNCHANGED <<log, tab, following>>,
           NEW d \in Conns, NEW e, <<d, e>> \in owed',
           \A x \in Conns : Sent(x)' \subseteq Sent(x), Held(d, e)
    PROVE  Held(d, e)'
<1>1. PICK t \in Routes(log[e]) \cap tab.wanted : d \in index[t] /\ t \in following[d] /\ ~Leaving(d, t)
  BY DEF Held
<1>2. t \in Topics
  BY <1>1, TabShape
<1>3. d = c => t # u
  BY <1>1 DEF Discard, Without
<1>4. d \in index'[t]
  BY <1>1, <1>2, <1>3 DEF Discard, GrantTypes
<1>5. ~Leaving(d, t)'
  BY <1>1, LeavingIsSent
<1> QED
  BY <1>1, <1>4, <1>5 DEF Held, Routes

(* An event that has not been overtaken comes after those on the wire.     *)
LEMMA ComesAfterNext ==
    ASSUME Sequenced', NEW c \in Conns, NEW e, e \notin overtaken',
           e \in Queued(c)' \/ e \in AtThread(c)' \/ e \in Waiting'
    PROVE  \A f \in OnWire(c)' : f < e
BY DEF Sequenced, Before

(* A subscription the step leaves alone.                                   *)
LEMMA StillHeld ==
    ASSUME NEW c \in Conns, NEW e, TabTypes, log'[e] = log[e],
           tab.wanted \subseteq tab'.wanted /\ following[c] \subseteq following'[c],
           \A t \in Topics : c \in index[t] => c \in index'[t],
           \A q \in Sent(c)' : q.kind = "unsubscribe" => q \in Sent(c)
    PROVE  Held(c, e) => Held(c, e)'
<1>1. ASSUME NEW t \in Routes(log[e]) \cap tab.wanted, c \in index[t], t \in following[c], ~Leaving(c, t)
      PROVE  /\ t \in Routes(log'[e]) \cap tab'.wanted
             /\ c \in index'[t] /\ t \in following'[c] /\ ~Leaving(c, t)'
  <2>1. t \in Topics
    BY TabShape
  <2>2. ~Leaving(c, t)'
    BY <1>1, LeavingIsSent
  <2> QED
    BY <1>1, <2>1, <2>2
<1> QED
  BY <1>1 DEF Held, Routes

(* An event is carried on when no part of its way is cut.                  *)
LEMMA Carried ==
    ASSUME NEW c \in Conns, NEW e, Reaches(c, e),
           OnWire(c)' \subseteq OnWire(c), e \in OnWire(c) => e \in OnWire(c)',
           Queued(c) \subseteq Queued(c)', Down(c) => Down(c)',
           Held(c, e) => Held(c, e)',
           (e \in AtThread(c) \/ e \in Waiting) /\ Held(c, e) =>
               \/ e \in AtThread(c)' \/ e \in Waiting'
               \/ e \in Queued(c)' \/ Down(c) \/ Down(c)'
    PROVE  Reaches(c, e)'
BY DEF Reaches

(* What keeps each event on its way keeps them all.                        *)
LEMMA KeepsWay ==
    ASSUME OnTheWay, tab'.conn = tab.conn, owed' \subseteq owed, up' \ closed' \subseteq live',
           \A c \in Conns, e \in Events :
              /\ Due(c, e)' => Due(c, e)
              /\ c = tab.conn /\ Due(c, e) /\ Due(c, e)' /\ Reaches(c, e) => Reaches(c, e)'
    PROVE  OnTheWay'
BY DEF OnTheWay

(* Every step keeps what is owed on its way.                               *)
LEMMA WayStep ==
    ASSUME TypeOK, Placed, Lined, Lined', OnTheWay, [Next]_vars
    PROVE  OnTheWay'
<1> USE DEF Lined
<1>0. /\ ServerTypes /\ AccessTypes /\ GrantTypes /\ ConnTypes /\ TabTypes
      /\ tab.conn \in Nat
      /\ Lined
  BY TypeParts
<1>1. ASSUME NEW t \in Topics, Build(t)  PROVE OnTheWay'
  <2>1. /\ tab'.conn = tab.conn /\ up' \ closed' \subseteq live'
    BY <1>0, <1>1 DEF Build, OnTheWay, serverVars, accessVars, grantVars, connVars, tabVars, Without
  <2>2. /\ owed' \subseteq owed /\ overtaken \subseteq overtaken'
        /\ \A d \in Conns, e \in Events : Due(d, e)' => Due(d, e)
    BY <1>0, <1>1 DEF Build, Due, serverVars, accessVars, grantVars, connVars, tabVars, Without
  <2>3. ASSUME NEW d \in Conns, NEW e \in Events, d = tab.conn, Due(d, e), Due(d, e)', Reaches(d, e)
        PROVE  Reaches(d, e)'
    <3>0. e \in Out /\ e \in DOMAIN log
      BY <2>3 DEF Due, HandedOver, Out
    <3>1. log'[e] = log[e]
      BY <1>0, <1>1, <3>0 DEF Build, ServerTypes
    <3>2. /\ Waiting \subseteq Waiting' /\ AtThread(d) \subseteq AtThread(d)'
          /\ Queued(d) \subseteq Queued(d)' /\ (Down(d) => Down(d)')
      BY <1>0, <1>1 DEF Build, serverVars, accessVars, grantVars, connVars, tabVars, Without, Waiting, AtThread, Queued, Down
    <3>3. OnWire(d)' \subseteq OnWire(d) /\ (e \in OnWire(d) => e \in OnWire(d)')
      BY <1>1 DEF Build, serverVars, accessVars, grantVars, connVars, tabVars, Without, OnWire
    <3>4. /\ tab.wanted \subseteq tab'.wanted /\ following[d] \subseteq following'[d]
          /\ \A t1 \in Topics : d \in index[t1] => d \in index'[t1]
      BY <1>0, <1>1 DEF Build, serverVars, accessVars, grantVars, connVars, tabVars, Without, GrantTypes
    <3>5. \A q \in Sent(d)' : q.kind = "unsubscribe" => q \in Sent(d)
      BY <1>1 DEF Build, serverVars, accessVars, grantVars, connVars, tabVars, Without, Sent
    <3>6. Held(d, e) => Held(d, e)'
      BY <1>0, <3>1, <3>4, <3>5, StillHeld
    <3>7. e \in AtThread(d) \/ e \in Waiting => e \in AtThread(d)' \/ e \in Waiting'
      BY <3>2
    <3> QED
      BY <2>3, <3>2, <3>3, <3>6, <3>7, Carried
  <2> QED
    BY <2>1, <2>2, <2>3, KeepsWay
<1>2. ASSUME NEW e \in Events, HandOver(e)  PROVE OnTheWay'
  <2>1. /\ UNCHANGED <<log, thread, up, live, closed, sendq, wire, commands, tab, known, index, following>>
        /\ overtaken \subseteq overtaken'
        /\ \/ inbox' = Append(inbox, e) /\ owed' = owed \cup (Followers(e) \X {e})
           \/ inbox' = inbox /\ owed' = owed
    BY <1>2 DEF HandOver, connVars, tabVars, accessVars, grantVars
  <2>2. Items(Append(inbox, e)) = Items(inbox) \cup {e}
    <3>1. inbox \in Seq(Events)
      BY <1>0 DEF ServerTypes
    <3> QED
      BY <3>1, Appends
  <2>3. ASSUME NEW d \in Followers(e)  PROVE d = tab.conn /\ Held(d, e)
    BY <2>3 DEF Followers, Abandoned, Held
  <2>4. \A p \in owed' : p[1] <= tab'.conn
    <3>1. \A p \in owed' : p \in owed \/ p[1] \in Followers(e)
      BY <2>1
    <3>2. tab.conn <= tab.conn
      BY <1>0
    <3> QED
      BY <2>1, <2>3, <3>1, <3>2 DEF OnTheWay
  <2>5. ASSUME NEW d \in Conns, NEW x \in Events, d = tab.conn, Due(d, x)'
        PROVE  Reaches(d, x)'
    <3>1. Waiting \subseteq Waiting'
      BY <2>1, <2>2 DEF Waiting
    <3>2. /\ OnWire(d)' = OnWire(d) /\ Queued(d)' = Queued(d) /\ AtThread(d)' = AtThread(d)
          /\ (Down(d) <=> Down(d)') /\ (Held(d, x) <=> Held(d, x)')
      BY <2>1 DEF OnWire, Queued, AtThread, Down, Held, Leaving
    <3>3. CASE <<d, x>> \in owed
      <4>1. Due(d, x)
        BY <2>1, <2>5, <3>3 DEF Due
      <4>2. Reaches(d, x)
        BY <2>5, <4>1 DEF OnTheWay
      <4> QED
        BY <3>1, <3>2, <4>2, Carried
    <3>4. CASE <<d, x>> \notin owed
      <4>1. x = e /\ d \in Followers(e) /\ Waiting' = Waiting \cup {e}
        BY <2>1, <2>2, <2>5, <3>4 DEF Due, Waiting
      <4>2. Held(d, x)' /\ x \in Waiting'
        BY <2>3, <3>2, <4>1
      <4>3. \A f \in OnWire(d)' : f < x
        BY <2>5, <4>2, ComesAfterNext DEF Due
      <4> QED
        BY <4>2, <4>3 DEF Reaches
    <3> QED
      BY <3>3, <3>4
  <2> QED
    BY <2>1, <2>4, <2>5 DEF OnTheWay
<1>3. ASSUME TakeEvent  PROVE OnTheWay'
  <2>1. /\ tab'.conn = tab.conn /\ up' \ closed' \subseteq live'
    BY <1>0, <1>3 DEF TakeEvent, OnTheWay, serverVars, accessVars, grantVars, connVars, tabVars, Without
  <2>2. /\ owed' \subseteq owed /\ overtaken \subseteq overtaken'
        /\ \A d \in Conns, e \in Events : Due(d, e)' => Due(d, e)
    BY <1>0, <1>3 DEF TakeEvent, Due, serverVars, accessVars, grantVars, connVars, tabVars, Without
  <2>3. ASSUME NEW d \in Conns, NEW e \in Events, d = tab.conn, Due(d, e), Due(d, e)', Reaches(d, e)
        PROVE  Reaches(d, e)'
    <3>0. e \in Out /\ e \in DOMAIN log
      BY <2>3 DEF Due, HandedOver, Out
    <3>1. /\ thread = IdleThread /\ inbox # <<>> /\ inbox \in Seq(Events) /\ inbox' = Tail(inbox)
          /\ thread' = IF Candidates(Head(inbox)) = {} THEN IdleThread
                       ELSE RoutingTo(Head(inbox), Candidates(Head(inbox)))
          /\ UNCHANGED <<log, up, closed, sendq, wire, commands, tab, index, following>>
      BY <1>0, <1>3 DEF TakeEvent, ServerTypes, serverVars, accessVars, grantVars, connVars, tabVars, Without
    <3>2. /\ OnWire(d)' = OnWire(d) /\ Queued(d)' = Queued(d)
          /\ (Down(d) <=> Down(d)') /\ (Held(d, e) <=> Held(d, e)')
      BY <3>1 DEF OnWire, Queued, Down, Held, Leaving
    <3>3. AtThread(d) = {} /\ (e \in Waiting => e = Head(inbox) \/ e \in Waiting')
      BY <3>1, TakesHead, ThreadShapes DEF AtThread, Waiting
    <3>4. ASSUME e = Head(inbox), Held(d, e), ~Down(d)  PROVE e \in AtThread(d)'
      <4>1. d \in live \ closed
        BY <3>4 DEF Down, OnTheWay
      <4>2. d \in Candidates(e)
        BY <3>4, <4>1 DEF Held, Candidates
      <4>3. thread' = RoutingTo(e, Candidates(e))
        BY <3>1, <3>4, <4>2
      <4> QED
        BY <4>2, <4>3 DEF RoutingTo, AtThread
    <3> QED
      BY <2>3, <3>2, <3>3, <3>4, Carried
  <2> QED
    BY <2>1, <2>2, <2>3, KeepsWay
<1>4. ASSUME NEW c \in Conns, Skip(c)  PROVE OnTheWay'
  <2>1. /\ tab'.conn = tab.conn /\ up' \ closed' \subseteq live'
    BY <1>0, <1>4 DEF Skip, OnTheWay, serverVars, accessVars, grantVars, connVars, tabVars, Without
  <2>2. /\ owed' \subseteq owed /\ overtaken \subseteq overtaken'
        /\ \A d \in Conns, e \in Events : Due(d, e)' => Due(d, e)
    BY <1>0, <1>4 DEF Skip, Due, serverVars, accessVars, grantVars, connVars, tabVars, Without
  <2>3. ASSUME NEW d \in Conns, NEW e \in Events, d = tab.conn, Due(d, e), Due(d, e)', Reaches(d, e)
        PROVE  Reaches(d, e)'
    <3>0. e \in Out /\ e \in DOMAIN log
      BY <2>3 DEF Due, HandedOver, Out
    <3>1. /\ c \in thread.todo /\ thread.pc # "idle" /\ thread' = Served(c)
          /\ UNCHANGED <<log, inbox, up, wire, commands, tab>>
      BY <1>0, <1>4 DEF Skip, serverVars, accessVars, grantVars, connVars, tabVars, Without, Placed, ServesOpened
    <3>2. /\ OnWire(d)' = OnWire(d) /\ Waiting' = Waiting
          /\ AtThread(d)' = IF d = c THEN {} ELSE AtThread(d)
      BY <1>0, <3>1, ServedMoves DEF OnWire, Waiting
    <3>3. Queued(d) \subseteq Queued(d)' /\ (Down(d) => Down(d)')
      BY <1>4, <3>1 DEF Skip, connVars, Queued, Down
    <3>4. Held(d, e) => Held(d, e)'
      BY <1>4, <3>1 DEF Skip, Held, Leaving, grantVars
    <3>5. d = c /\ e = thread.event /\ Held(d, e) => e \in Queued(d)' \/ Down(d)'
      <4>1. DeliveryTopic(c, thread.event) = NoTopic /\ following[c] \subseteq Topics
        BY <1>0, <1>4 DEF Skip, GrantTypes
      <4>2. \A t \in Routes(log[thread.event]) : t \notin following[c]
        BY <4>1, Numbers DEF DeliveryTopic, Routes
      <4> QED
        BY <4>2 DEF Held
    <3> QED
      BY <2>3, <3>2, <3>3, <3>4, <3>5, Carried DEF AtThread
  <2> QED
    BY <2>1, <2>2, <2>3, KeepsWay
<1>5. ASSUME NEW c \in Conns, DeliverFresh(c)  PROVE OnTheWay'
  <2>1. /\ tab'.conn = tab.conn /\ up' \ closed' \subseteq live'
    BY <1>0, <1>5 DEF DeliverFresh, Enqueue, OnTheWay, serverVars, accessVars, grantVars, connVars, tabVars, Without
  <2>2. /\ owed' \subseteq owed /\ overtaken \subseteq overtaken'
        /\ \A d \in Conns, e \in Events : Due(d, e)' => Due(d, e)
    BY <1>0, <1>5 DEF DeliverFresh, Due, serverVars, accessVars, grantVars, connVars, tabVars, Without
  <2>3. ASSUME NEW d \in Conns, NEW e \in Events, d = tab.conn, Due(d, e), Due(d, e)', Reaches(d, e)
        PROVE  Reaches(d, e)'
    <3>0. e \in Out /\ e \in DOMAIN log
      BY <2>3 DEF Due, HandedOver, Out
    <3>1. /\ c \in thread.todo /\ thread.pc # "idle" /\ thread' = Served(c)
          /\ UNCHANGED <<log, inbox, up, wire, commands, tab>>
      BY <1>0, <1>5 DEF DeliverFresh, serverVars, accessVars, grantVars, connVars, tabVars, Without, Placed, ServesOpened
    <3>2. /\ OnWire(d)' = OnWire(d) /\ Waiting' = Waiting
          /\ AtThread(d)' = IF d = c THEN {} ELSE AtThread(d)
      BY <1>0, <3>1, ServedMoves DEF OnWire, Waiting
    <3>3. Queued(d) \subseteq Queued(d)' /\ (Down(d) => Down(d)')
      <4>1. thread.event \in Events /\ sendq[c] \in Seq(Events)
        BY <1>0, <3>1, ThreadShapes DEF ServerTypes, ConnTypes
      <4>2. Items(Append(sendq[c], thread.event)) = Items(sendq[c]) \cup {thread.event}
        BY <4>1, Appends
      <4>3. Enqueue(c, thread.event)
        BY <1>5 DEF DeliverFresh
      <4>4. /\ closed \subseteq closed'
            /\ d # c => sendq'[d] = sendq[d]
            /\ (sendq'[c] = sendq[c] /\ c \in closed') \/ sendq'[c] = Append(sendq[c], thread.event)
        BY <1>0, <4>1, <4>3, EnqueueMoves
      <4> QED
        BY <3>1, <4>2, <4>4 DEF Queued, Down
    <3>4. Held(d, e) => Held(d, e)'
      BY <1>5, <3>1 DEF DeliverFresh, Held, Leaving, grantVars
    <3>5. d = c /\ e = thread.event /\ Held(d, e) => e \in Queued(d)' \/ Down(d)'
      <4>1. thread.event \in Events /\ sendq[c] \in Seq(Events)
        BY <1>0, <3>1, ThreadShapes DEF ServerTypes, ConnTypes
      <4>2. Items(Append(sendq[c], thread.event)) = Items(sendq[c]) \cup {thread.event}
        BY <4>1, Appends
      <4>3. Enqueue(c, thread.event)
        BY <1>5 DEF DeliverFresh
      <4>4. /\ closed \subseteq closed'
            /\ d # c => sendq'[d] = sendq[d]
            /\ (sendq'[c] = sendq[c] /\ c \in closed') \/ sendq'[c] = Append(sendq[c], thread.event)
        BY <1>0, <4>1, <4>3, EnqueueMoves
      <4> QED
        BY <3>1, <4>2, <4>4 DEF Queued, Down
    <3> QED
      BY <2>3, <3>2, <3>3, <3>4, <3>5, Carried DEF AtThread
  <2> QED
    BY <2>1, <2>2, <2>3, KeepsWay
<1>6. ASSUME NEW c \in Conns, Recheck(c)  PROVE OnTheWay'
  <2>1. /\ tab'.conn = tab.conn /\ up' \ closed' \subseteq live'
    BY <1>0, <1>6 DEF Recheck, OnTheWay, serverVars, accessVars, grantVars, connVars, tabVars, Without
  <2>2. /\ owed' \subseteq owed /\ overtaken \subseteq overtaken'
        /\ \A d \in Conns, e \in Events : Due(d, e)' => Due(d, e)
    BY <1>0, <1>6 DEF Recheck, Due, serverVars, accessVars, grantVars, connVars, tabVars, Without
  <2>3. ASSUME NEW d \in Conns, NEW e \in Events, d = tab.conn, Due(d, e), Due(d, e)', Reaches(d, e)
        PROVE  Reaches(d, e)'
    <3>0. e \in Out /\ e \in DOMAIN log
      BY <2>3 DEF Due, HandedOver, Out
    <3>1. log'[e] = log[e]
      BY <1>6 DEF Recheck, serverVars, accessVars, grantVars, connVars, tabVars, Without
    <3>2. /\ Waiting \subseteq Waiting' /\ AtThread(d) \subseteq AtThread(d)'
          /\ Queued(d) \subseteq Queued(d)' /\ (Down(d) => Down(d)')
      BY <1>0, <1>6 DEF Recheck, serverVars, accessVars, grantVars, connVars, tabVars, Without, Waiting, AtThread, Queued, Down
    <3>3. OnWire(d)' \subseteq OnWire(d) /\ (e \in OnWire(d) => e \in OnWire(d)')
      BY <1>6 DEF Recheck, serverVars, accessVars, grantVars, connVars, tabVars, Without, OnWire
    <3>4. /\ tab.wanted \subseteq tab'.wanted /\ following[d] \subseteq following'[d]
          /\ \A t1 \in Topics : d \in index[t1] => d \in index'[t1]
      BY <1>0, <1>6 DEF Recheck, serverVars, accessVars, grantVars, connVars, tabVars, Without, GrantTypes
    <3>5. \A q \in Sent(d)' : q.kind = "unsubscribe" => q \in Sent(d)
      BY <1>6 DEF Recheck, serverVars, accessVars, grantVars, connVars, tabVars, Without, Sent
    <3>6. Held(d, e) => Held(d, e)'
      BY <1>0, <3>1, <3>4, <3>5, StillHeld
    <3>7. e \in AtThread(d) \/ e \in Waiting => e \in AtThread(d)' \/ e \in Waiting'
      BY <3>2
    <3> QED
      BY <2>3, <3>2, <3>3, <3>6, <3>7, Carried
  <2> QED
    BY <2>1, <2>2, <2>3, KeepsWay
<1>7. ASSUME NEW c \in Conns, Renew(c)  PROVE OnTheWay'
  <2>1. /\ tab'.conn = tab.conn /\ up' \ closed' \subseteq live'
    BY <1>0, <1>7 DEF Renew, Enqueue, OnTheWay, serverVars, accessVars, grantVars, connVars, tabVars, Without
  <2>2. /\ owed' \subseteq owed /\ overtaken \subseteq overtaken'
        /\ \A d \in Conns, e \in Events : Due(d, e)' => Due(d, e)
    BY <1>0, <1>7 DEF Renew, Due, serverVars, accessVars, grantVars, connVars, tabVars, Without
  <2>3. ASSUME NEW d \in Conns, NEW e \in Events, d = tab.conn, Due(d, e), Due(d, e)', Reaches(d, e)
        PROVE  Reaches(d, e)'
    <3>0. e \in Out /\ e \in DOMAIN log
      BY <2>3 DEF Due, HandedOver, Out
    <3>1. /\ c \in thread.todo /\ thread.pc # "idle" /\ thread' = Served(c)
          /\ UNCHANGED <<log, inbox, up, wire, commands, tab>>
      BY <1>0, <1>7 DEF Renew, serverVars, accessVars, grantVars, connVars, tabVars, Without, Placed, ServesOpened
    <3>2. /\ OnWire(d)' = OnWire(d) /\ Waiting' = Waiting
          /\ AtThread(d)' = IF d = c THEN {} ELSE AtThread(d)
      BY <1>0, <3>1, ServedMoves DEF OnWire, Waiting
    <3>3. Queued(d) \subseteq Queued(d)' /\ (Down(d) => Down(d)')
      <4>1. thread.event \in Events /\ sendq[c] \in Seq(Events)
        BY <1>0, <3>1, ThreadShapes DEF ServerTypes, ConnTypes
      <4>2. Items(Append(sendq[c], thread.event)) = Items(sendq[c]) \cup {thread.event}
        BY <4>1, Appends
      <4>3. Enqueue(c, thread.event)
        BY <1>7 DEF Renew
      <4>4. /\ closed \subseteq closed'
            /\ d # c => sendq'[d] = sendq[d]
            /\ (sendq'[c] = sendq[c] /\ c \in closed') \/ sendq'[c] = Append(sendq[c], thread.event)
        BY <1>0, <4>1, <4>3, EnqueueMoves
      <4> QED
        BY <3>1, <4>2, <4>4 DEF Queued, Down
    <3>4. Held(d, e) => Held(d, e)'
      <4>1. following[d] \subseteq following'[d] /\ index' = index
        BY <1>0, <1>7 DEF Renew, GrantTypes
      <4> QED
        BY <3>1, <4>1 DEF Held, Leaving
    <3>5. d = c /\ e = thread.event /\ Held(d, e) => e \in Queued(d)' \/ Down(d)'
      <4>1. thread.event \in Events /\ sendq[c] \in Seq(Events)
        BY <1>0, <3>1, ThreadShapes DEF ServerTypes, ConnTypes
      <4>2. Items(Append(sendq[c], thread.event)) = Items(sendq[c]) \cup {thread.event}
        BY <4>1, Appends
      <4>3. Enqueue(c, thread.event)
        BY <1>7 DEF Renew
      <4>4. /\ closed \subseteq closed'
            /\ d # c => sendq'[d] = sendq[d]
            /\ (sendq'[c] = sendq[c] /\ c \in closed') \/ sendq'[c] = Append(sendq[c], thread.event)
        BY <1>0, <4>1, <4>3, EnqueueMoves
      <4> QED
        BY <3>1, <4>2, <4>4 DEF Queued, Down
    <3> QED
      BY <2>3, <3>2, <3>3, <3>4, <3>5, Carried DEF AtThread
  <2> QED
    BY <2>1, <2>2, <2>3, KeepsWay
<1>8. ASSUME NEW c \in Conns, Revoke(c)  PROVE OnTheWay'
  <2>1. /\ tab'.conn = tab.conn /\ up' \ closed' \subseteq live'
    BY <1>0, <1>8 DEF Revoke, OnTheWay, serverVars, accessVars, grantVars, connVars, tabVars, Without
  <2>2. /\ owed' \subseteq owed /\ overtaken \subseteq overtaken'
        /\ \A d \in Conns, e \in Events : Due(d, e)' => Due(d, e)
    BY <1>0, <1>8 DEF Revoke, Due, serverVars, accessVars, grantVars, connVars, tabVars, Without
  <2>3. ASSUME NEW d \in Conns, NEW e \in Events, d = tab.conn, Due(d, e), Due(d, e)', Reaches(d, e)
        PROVE  Reaches(d, e)'
    <3>0. e \in Out /\ e \in DOMAIN log
      BY <2>3 DEF Due, HandedOver, Out
    <3>1. /\ c \in thread.todo /\ thread.pc = "rechecked"
          /\ thread' = Served(c) \/ thread' = [thread EXCEPT !.pc = "revoked"]
          /\ UNCHANGED <<log, inbox, up, wire, commands, tab>>
      BY <1>0, <1>8 DEF Revoke, serverVars, accessVars, grantVars, connVars, tabVars, Without, Placed, ServesOpened
    <3>2. OnWire(d)' = OnWire(d) /\ Waiting' = Waiting
      BY <3>1 DEF OnWire, Waiting
    <3>6. AtThread(d)' = AtThread(d) \/ d = c
      <4>1. CASE thread' = Served(c)
        BY <1>0, <3>1, <4>1, ServedMoves
      <4>2. CASE thread' = [thread EXCEPT !.pc = "revoked"]
        BY <1>0, <3>1, <4>2, RevokedShape DEF AtThread, ServerTypes
      <4> QED
        BY <3>1, <4>1, <4>2
    <3>3. Queued(d) \subseteq Queued(d)' /\ (Down(d) => Down(d)')
      BY <1>8, <3>1 DEF Revoke, connVars, Queued, Down
    <3>4. Held(d, e) => Held(d, e)'
      <4>1. /\ TakeBack(c, thread.topic) /\ index' = index
            /\ thread.topic \notin Routes(log[e])
        BY <1>8, <2>3 DEF Revoke, Due, Without
      <4>2. ASSUME NEW t \in Routes(log[e]) \cap tab.wanted, d \in index[t], t \in following[d], ~Leaving(d, t)
            PROVE  d \in index'[t] /\ t \in following'[d] /\ ~Leaving(d, t)'
        <5>1. t \in Topics /\ t # thread.topic
          BY <1>0, <4>1, TabShape
        <5> QED
          BY <1>0, <3>1, <4>1, <4>2, <5>1, TakeBackKeeps DEF Leaving
      <4> QED
        BY <3>1, <4>2 DEF Held
    <3>5. e # thread.event
      <4>1. thread.topic \in Routes(log[thread.event])
        BY <3>1 DEF HandedOver
      <4> QED
        BY <1>8, <2>3, <4>1 DEF Revoke, Due, Without
    <3> QED
      BY <2>3, <3>2, <3>3, <3>4, <3>5, <3>6, Carried DEF AtThread
  <2> QED
    BY <2>1, <2>2, <2>3, KeepsWay
<1>9. ASSUME NEW c \in Conns, Resume(c)  PROVE OnTheWay'
  <2>1. /\ tab'.conn = tab.conn /\ up' \ closed' \subseteq live'
    BY <1>0, <1>9 DEF Resume, OnTheWay, serverVars, accessVars, grantVars, connVars, tabVars, Without
  <2>2. /\ owed' \subseteq owed /\ overtaken \subseteq overtaken'
        /\ \A d \in Conns, e \in Events : Due(d, e)' => Due(d, e)
    BY <1>0, <1>9 DEF Resume, Due, serverVars, accessVars, grantVars, connVars, tabVars, Without
  <2>3. ASSUME NEW d \in Conns, NEW e \in Events, d = tab.conn, Due(d, e), Due(d, e)', Reaches(d, e)
        PROVE  Reaches(d, e)'
    <3>0. e \in Out /\ e \in DOMAIN log
      BY <2>3 DEF Due, HandedOver, Out
    <3>1. log'[e] = log[e]
      BY <1>9 DEF Resume, serverVars, accessVars, grantVars, connVars, tabVars, Without
    <3>2. /\ Waiting \subseteq Waiting' /\ AtThread(d) \subseteq AtThread(d)'
          /\ Queued(d) \subseteq Queued(d)' /\ (Down(d) => Down(d)')
      BY <1>0, <1>9 DEF Resume, serverVars, accessVars, grantVars, connVars, tabVars, Without, Waiting, AtThread, Queued, Down
    <3>3. OnWire(d)' \subseteq OnWire(d) /\ (e \in OnWire(d) => e \in OnWire(d)')
      BY <1>0, <1>9, AnswerIsNoEvent DEF OnWire
    <3>4. /\ tab.wanted \subseteq tab'.wanted /\ following[d] \subseteq following'[d]
          /\ \A t1 \in Topics : d \in index[t1] => d \in index'[t1]
      BY <1>0, <1>9 DEF Resume, serverVars, accessVars, grantVars, connVars, tabVars, Without, GrantTypes
    <3>5. \A q \in Sent(d)' : q.kind = "unsubscribe" => q \in Sent(d)
      BY <1>0, <1>9, ReadsShrink DEF Resume
    <3>6. Held(d, e) => Held(d, e)'
      BY <1>0, <3>1, <3>4, <3>5, StillHeld
    <3>7. e \in AtThread(d) \/ e \in Waiting => e \in AtThread(d)' \/ e \in Waiting'
      BY <3>2
    <3> QED
      BY <2>3, <3>2, <3>3, <3>6, <3>7, Carried
  <2> QED
    BY <2>1, <2>2, <2>3, KeepsWay
<1>10. ASSUME NEW c \in Conns, ReadSubscribe(c)  PROVE OnTheWay'
  <2>1. /\ tab'.conn = tab.conn /\ up' \ closed' \subseteq live'
    BY <1>0, <1>10 DEF ReadSubscribe, OnTheWay, serverVars, accessVars, grantVars, connVars, tabVars, Without
  <2>2. /\ owed' \subseteq owed /\ overtaken \subseteq overtaken'
        /\ \A d \in Conns, e \in Events : Due(d, e)' => Due(d, e)
    BY <1>0, <1>10 DEF ReadSubscribe, Due, serverVars, accessVars, grantVars, connVars, tabVars, Without
  <2>3. ASSUME NEW d \in Conns, NEW e \in Events, d = tab.conn, Due(d, e), Due(d, e)', Reaches(d, e)
        PROVE  Reaches(d, e)'
    <3>0. e \in Out /\ e \in DOMAIN log
      BY <2>3 DEF Due, HandedOver, Out
    <3>1. log'[e] = log[e]
      BY <1>10 DEF ReadSubscribe, serverVars, accessVars, grantVars, connVars, tabVars, Without
    <3>2. /\ Waiting \subseteq Waiting' /\ AtThread(d) \subseteq AtThread(d)'
          /\ Queued(d) \subseteq Queued(d)' /\ (Down(d) => Down(d)')
      BY <1>0, <1>10 DEF ReadSubscribe, serverVars, accessVars, grantVars, connVars, tabVars, Without, Waiting, AtThread, Queued, Down
    <3>3. OnWire(d)' \subseteq OnWire(d) /\ (e \in OnWire(d) => e \in OnWire(d)')
      BY <1>10 DEF ReadSubscribe, serverVars, accessVars, grantVars, connVars, tabVars, Without, OnWire
    <3>4. /\ tab.wanted \subseteq tab'.wanted /\ following[d] \subseteq following'[d]
          /\ \A t1 \in Topics : d \in index[t1] => d \in index'[t1]
      BY <1>0, <1>10 DEF ReadSubscribe, serverVars, accessVars, grantVars, connVars, tabVars, Without, GrantTypes
    <3>5. \A q \in Sent(d)' : q.kind = "unsubscribe" => q \in Sent(d)
      BY <1>0, <1>10, ReadsShrink DEF ReadSubscribe
    <3>6. Held(d, e) => Held(d, e)'
      BY <1>0, <3>1, <3>4, <3>5, StillHeld
    <3>7. e \in AtThread(d) \/ e \in Waiting => e \in AtThread(d)' \/ e \in Waiting'
      BY <3>2
    <3> QED
      BY <2>3, <3>2, <3>3, <3>6, <3>7, Carried
  <2> QED
    BY <2>1, <2>2, <2>3, KeepsWay
<1>11. ASSUME NEW c \in Conns, ReadUnsubscribe(c)  PROVE OnTheWay'
  <2>1. /\ tab'.conn = tab.conn /\ up' \ closed' \subseteq live'
    BY <1>0, <1>11 DEF ReadUnsubscribe, OnTheWay, serverVars, accessVars, grantVars, connVars, tabVars, Without
  <2>2. /\ owed' \subseteq owed /\ overtaken \subseteq overtaken'
        /\ \A d \in Conns, e \in Events : Due(d, e)' => Due(d, e)
    BY <1>0, <1>11 DEF ReadUnsubscribe, Due, serverVars, accessVars, grantVars, connVars, tabVars, Without
  <2>3. ASSUME NEW d \in Conns, NEW e \in Events, d = tab.conn, Due(d, e), Due(d, e)', Reaches(d, e)
        PROVE  Reaches(d, e)'
    <3>0. e \in Out /\ e \in DOMAIN log
      BY <2>3 DEF Due, HandedOver, Out
    <3>1. /\ UNCHANGED <<log, inbox, thread, up, closed, sendq, wire>>
          /\ tab'.phase = tab.phase
      BY <1>0, <1>11 DEF ReadUnsubscribe, serverVars, accessVars, grantVars, connVars, tabVars, Without
    <3>2. /\ OnWire(d)' = OnWire(d) /\ Waiting' = Waiting /\ AtThread(d)' = AtThread(d)
          /\ Queued(d)' = Queued(d) /\ (Down(d) => Down(d)')
      BY <3>1 DEF OnWire, Waiting, AtThread, Queued, Down
    <3>3. Held(d, e) => Held(d, e)'
      <4>1. PICK u \in Head(commands[c]).topics : TakeBack(c, u) /\ index' = index
        BY <1>11 DEF ReadUnsubscribe
      <4>2. /\ Head(commands[c]) \in Sent(c) /\ Head(commands[c]).kind = "unsubscribe"
            /\ \A x \in Conns : Sent(x)' \subseteq Sent(x)
        BY <1>0, <1>11, ReadsShrink DEF ReadUnsubscribe, Reads
      <4>3. ASSUME NEW t \in Routes(log[e]) \cap tab.wanted, d \in index[t], t \in following[d], ~Leaving(d, t)
            PROVE  d \in index'[t] /\ t \in following'[d] /\ ~Leaving(d, t)'
        <5>1. t \in Topics /\ (d = c => t # u)
          BY <1>0, <4>2, <4>3, LeavingIsSent, TabShape
        <5>2. ~Leaving(d, t)'
          BY <4>2, <4>3, LeavingIsSent
        <5> QED
          BY <1>0, <4>1, <4>3, <5>1, <5>2, TakeBackKeeps
      <4>4. UNCHANGED <<log, tab>>
        BY <1>11 DEF ReadUnsubscribe, serverVars, tabVars
      <4> QED
        BY <4>3, <4>4 DEF Held
    <3> QED
      BY <2>3, <3>2, <3>3, Carried
  <2> QED
    BY <2>1, <2>2, <2>3, KeepsWay
<1>12. ASSUME NEW c \in Conns, Grant(c)  PROVE OnTheWay'
  <2>1. /\ tab'.conn = tab.conn /\ up' \ closed' \subseteq live'
    BY <1>0, <1>12 DEF Grant, OnTheWay, serverVars, accessVars, grantVars, connVars, tabVars, Without
  <2>2. /\ owed' \subseteq owed /\ overtaken \subseteq overtaken'
        /\ \A d \in Conns, e \in Events : Due(d, e)' => Due(d, e)
    BY <1>0, <1>12 DEF Grant, Due, serverVars, accessVars, grantVars, connVars, tabVars, Without
  <2>3. ASSUME NEW d \in Conns, NEW e \in Events, d = tab.conn, Due(d, e), Due(d, e)', Reaches(d, e)
        PROVE  Reaches(d, e)'
    <3>0. e \in Out /\ e \in DOMAIN log
      BY <2>3 DEF Due, HandedOver, Out
    <3>1. log'[e] = log[e]
      BY <1>12 DEF Grant, serverVars, accessVars, grantVars, connVars, tabVars, Without
    <3>2. /\ Waiting \subseteq Waiting' /\ AtThread(d) \subseteq AtThread(d)'
          /\ Queued(d) \subseteq Queued(d)' /\ (Down(d) => Down(d)')
      BY <1>0, <1>12 DEF Grant, serverVars, accessVars, grantVars, connVars, tabVars, Without, Waiting, AtThread, Queued, Down
    <3>3. OnWire(d)' \subseteq OnWire(d) /\ (e \in OnWire(d) => e \in OnWire(d)')
      BY <1>12 DEF Grant, serverVars, accessVars, grantVars, connVars, tabVars, Without, OnWire
    <3>4. /\ tab.wanted \subseteq tab'.wanted /\ following[d] \subseteq following'[d]
          /\ \A t1 \in Topics : d \in index[t1] => d \in index'[t1]
      BY <1>0, <1>12 DEF Grant, serverVars, accessVars, grantVars, connVars, tabVars, Without, GrantTypes
    <3>5. \A q \in Sent(d)' : q.kind = "unsubscribe" => q \in Sent(d)
      BY <1>12 DEF Grant, serverVars, accessVars, grantVars, connVars, tabVars, Without, Sent
    <3>6. Held(d, e) => Held(d, e)'
      BY <1>0, <3>1, <3>4, <3>5, StillHeld
    <3>7. e \in AtThread(d) \/ e \in Waiting => e \in AtThread(d)' \/ e \in Waiting'
      BY <3>2
    <3> QED
      BY <2>3, <3>2, <3>3, <3>6, <3>7, Carried
  <2> QED
    BY <2>1, <2>2, <2>3, KeepsWay
<1>13. ASSUME NEW c \in Conns, IndexGrant(c)  PROVE OnTheWay'
  <2>1. /\ tab'.conn = tab.conn /\ up' \ closed' \subseteq live'
    BY <1>0, <1>13 DEF IndexGrant, OnTheWay, serverVars, accessVars, grantVars, connVars, tabVars, Without
  <2>2. /\ owed' \subseteq owed /\ overtaken \subseteq overtaken'
        /\ \A d \in Conns, e \in Events : Due(d, e)' => Due(d, e)
    BY <1>0, <1>13 DEF IndexGrant, Due, serverVars, accessVars, grantVars, connVars, tabVars, Without
  <2>3. ASSUME NEW d \in Conns, NEW e \in Events, d = tab.conn, Due(d, e), Due(d, e)', Reaches(d, e)
        PROVE  Reaches(d, e)'
    <3>0. e \in Out /\ e \in DOMAIN log
      BY <2>3 DEF Due, HandedOver, Out
    <3>1. log'[e] = log[e]
      BY <1>13 DEF IndexGrant, serverVars, accessVars, grantVars, connVars, tabVars, Without
    <3>2. /\ Waiting \subseteq Waiting' /\ AtThread(d) \subseteq AtThread(d)'
          /\ Queued(d) \subseteq Queued(d)' /\ (Down(d) => Down(d)')
      BY <1>0, <1>13 DEF IndexGrant, serverVars, accessVars, grantVars, connVars, tabVars, Without, Waiting, AtThread, Queued, Down
    <3>3. OnWire(d)' \subseteq OnWire(d) /\ (e \in OnWire(d) => e \in OnWire(d)')
      BY <1>13 DEF IndexGrant, serverVars, accessVars, grantVars, connVars, tabVars, Without, OnWire
    <3>4. /\ tab.wanted \subseteq tab'.wanted /\ following[d] \subseteq following'[d]
          /\ \A t1 \in Topics : d \in index[t1] => d \in index'[t1]
      BY <1>0, <1>13 DEF IndexGrant, serverVars, accessVars, grantVars, connVars, tabVars, Without, GrantTypes
    <3>5. \A q \in Sent(d)' : q.kind = "unsubscribe" => q \in Sent(d)
      BY <1>13 DEF IndexGrant, serverVars, accessVars, grantVars, connVars, tabVars, Without, Sent
    <3>6. Held(d, e) => Held(d, e)'
      BY <1>0, <3>1, <3>4, <3>5, StillHeld
    <3>7. e \in AtThread(d) \/ e \in Waiting => e \in AtThread(d)' \/ e \in Waiting'
      BY <3>2
    <3> QED
      BY <2>3, <3>2, <3>3, <3>6, <3>7, Carried
  <2> QED
    BY <2>1, <2>2, <2>3, KeepsWay
<1>14. ASSUME NEW c \in Conns, RenewFollowed(c)  PROVE OnTheWay'
  <2>1. /\ tab'.conn = tab.conn /\ up' \ closed' \subseteq live'
    BY <1>0, <1>14 DEF RenewFollowed, OnTheWay, serverVars, accessVars, grantVars, connVars, tabVars, Without
  <2>2. /\ owed' \subseteq owed /\ overtaken \subseteq overtaken'
        /\ \A d \in Conns, e \in Events : Due(d, e)' => Due(d, e)
    BY <1>0, <1>14 DEF RenewFollowed, Due, serverVars, accessVars, grantVars, connVars, tabVars, Without
  <2>3. ASSUME NEW d \in Conns, NEW e \in Events, d = tab.conn, Due(d, e), Due(d, e)', Reaches(d, e)
        PROVE  Reaches(d, e)'
    <3>0. e \in Out /\ e \in DOMAIN log
      BY <2>3 DEF Due, HandedOver, Out
    <3>1. log'[e] = log[e]
      BY <1>14 DEF RenewFollowed, serverVars, accessVars, grantVars, connVars, tabVars, Without
    <3>2. /\ Waiting \subseteq Waiting' /\ AtThread(d) \subseteq AtThread(d)'
          /\ Queued(d) \subseteq Queued(d)' /\ (Down(d) => Down(d)')
      BY <1>0, <1>14 DEF RenewFollowed, serverVars, accessVars, grantVars, connVars, tabVars, Without, Waiting, AtThread, Queued, Down
    <3>3. OnWire(d)' \subseteq OnWire(d) /\ (e \in OnWire(d) => e \in OnWire(d)')
      BY <1>14 DEF RenewFollowed, serverVars, accessVars, grantVars, connVars, tabVars, Without, OnWire
    <3>4. /\ tab.wanted \subseteq tab'.wanted /\ following[d] \subseteq following'[d]
          /\ \A t1 \in Topics : d \in index[t1] => d \in index'[t1]
      BY <1>0, <1>14 DEF RenewFollowed, serverVars, accessVars, grantVars, connVars, tabVars, Without, GrantTypes
    <3>5. \A q \in Sent(d)' : q.kind = "unsubscribe" => q \in Sent(d)
      BY <1>14 DEF RenewFollowed, serverVars, accessVars, grantVars, connVars, tabVars, Without, Sent
    <3>6. Held(d, e) => Held(d, e)'
      BY <1>0, <3>1, <3>4, <3>5, StillHeld
    <3>7. e \in AtThread(d) \/ e \in Waiting => e \in AtThread(d)' \/ e \in Waiting'
      BY <3>2
    <3> QED
      BY <2>3, <3>2, <3>3, <3>6, <3>7, Carried
  <2> QED
    BY <2>1, <2>2, <2>3, KeepsWay
<1>15. ASSUME NEW c \in Conns, NEW t \in Topics, Decide(c, t)  PROVE OnTheWay'
  <2>1. /\ tab'.conn = tab.conn /\ up' \ closed' \subseteq live'
    BY <1>0, <1>15 DEF Decide, OnTheWay, serverVars, accessVars, grantVars, connVars, tabVars, Without
  <2>2. /\ owed' \subseteq owed /\ overtaken \subseteq overtaken'
        /\ \A d \in Conns, e \in Events : Due(d, e)' => Due(d, e)
    BY <1>0, <1>15 DEF Decide, Due, serverVars, accessVars, grantVars, connVars, tabVars, Without
  <2>3. ASSUME NEW d \in Conns, NEW e \in Events, d = tab.conn, Due(d, e), Due(d, e)', Reaches(d, e)
        PROVE  Reaches(d, e)'
    <3>0. e \in Out /\ e \in DOMAIN log
      BY <2>3 DEF Due, HandedOver, Out
    <3>1. log'[e] = log[e]
      BY <1>15 DEF Decide, serverVars, accessVars, grantVars, connVars, tabVars, Without
    <3>2. /\ Waiting \subseteq Waiting' /\ AtThread(d) \subseteq AtThread(d)'
          /\ Queued(d) \subseteq Queued(d)' /\ (Down(d) => Down(d)')
      BY <1>0, <1>15 DEF Decide, serverVars, accessVars, grantVars, connVars, tabVars, Without, Waiting, AtThread, Queued, Down
    <3>3. OnWire(d)' \subseteq OnWire(d) /\ (e \in OnWire(d) => e \in OnWire(d)')
      BY <1>15 DEF Decide, serverVars, accessVars, grantVars, connVars, tabVars, Without, OnWire
    <3>4. /\ tab.wanted \subseteq tab'.wanted /\ following[d] \subseteq following'[d]
          /\ \A t1 \in Topics : d \in index[t1] => d \in index'[t1]
      BY <1>0, <1>15 DEF Decide, serverVars, accessVars, grantVars, connVars, tabVars, Without, GrantTypes
    <3>5. \A q \in Sent(d)' : q.kind = "unsubscribe" => q \in Sent(d)
      BY <1>15 DEF Decide, serverVars, accessVars, grantVars, connVars, tabVars, Without, Sent
    <3>6. Held(d, e) => Held(d, e)'
      BY <1>0, <3>1, <3>4, <3>5, StillHeld
    <3>7. e \in AtThread(d) \/ e \in Waiting => e \in AtThread(d)' \/ e \in Waiting'
      BY <3>2
    <3> QED
      BY <2>3, <3>2, <3>3, <3>6, <3>7, Carried
  <2> QED
    BY <2>1, <2>2, <2>3, KeepsWay
<1>16. ASSUME NEW c \in Conns, Write(c)  PROVE OnTheWay'
  <2>1. /\ tab'.conn = tab.conn /\ up' \ closed' \subseteq live'
    BY <1>0, <1>16 DEF Write, OnTheWay, serverVars, accessVars, grantVars, connVars, tabVars, Without
  <2>2. /\ owed' \subseteq owed /\ overtaken \subseteq overtaken'
        /\ \A d \in Conns, e \in Events : Due(d, e)' => Due(d, e)
    BY <1>0, <1>16 DEF Write, Due, serverVars, accessVars, grantVars, connVars, tabVars, Without
  <2>3. ASSUME NEW d \in Conns, NEW e \in Events, d = tab.conn, Due(d, e), Due(d, e)', Reaches(d, e)
        PROVE  Reaches(d, e)'
    <3>0. e \in Out /\ e \in DOMAIN log
      BY <2>3 DEF Due, HandedOver, Out
    <3>1. /\ UNCHANGED <<log, inbox, thread, up, closed, commands, tab, index, following>>
          /\ sendq[c] # <<>> /\ sendq[c] \in Seq(Events) /\ wire[c] \in Seq(Frames)
          /\ sendq'[c] = Tail(sendq[c])
          /\ wire'[c] = Append(wire[c], [kind |-> "event", event |-> Head(sendq[c])])
          /\ c = tab.conn /\ ~Down(c)
      BY <1>0, <1>16 DEF Write, ConnTypes, Abandoned, Down, serverVars, accessVars, grantVars, connVars, tabVars, Without
    <3>2. /\ Waiting' = Waiting /\ AtThread(d)' = AtThread(d) /\ (Held(d, e) <=> Held(d, e)')
      BY <3>1 DEF Waiting, AtThread, Held, Leaving
    <3>3. PICK f \in Frames : f.kind = "event" /\ f.event = Head(sendq[c]) /\ wire'[c] = Append(wire[c], f)
      <4>1. Head(sendq[c]) \in Events
        BY <3>1
      <4>2. [kind |-> "event", event |-> Head(sendq[c])] \in Frames
        BY <4>1 DEF Frames
      <4> QED
        BY <3>1, <4>2
    <3>4. e \in Queued(c) => e = Head(sendq[c]) \/ e \in Queued(c)'
      BY <3>1, TakesHead DEF Queued
    <3>5. (e \in OnWire(c) \/ e = Head(sendq[c])) => e \in OnWire(c)'
      <4>1. EventsOf(wire[c]) \subseteq EventsOf(Append(wire[c], f)) /\ f.event \in EventsOf(Append(wire[c], f))
        BY <3>1, <3>3, AppendsFrame
      <4> QED
        BY <3>3, <4>1 DEF OnWire
    <3>6. e \in Queued(d)' \/ e \in AtThread(d)' \/ e \in Waiting' => \A x \in OnWire(d)' : x < e
      BY <2>3, ComesAfterNext DEF Due
    <3> QED
      BY <2>3, <3>1, <3>2, <3>4, <3>5, <3>6 DEF Reaches
  <2> QED
    BY <2>1, <2>2, <2>3, KeepsWay
<1>17. ASSUME NEW c \in Conns, Release(c)  PROVE OnTheWay'
  <2>1. /\ tab'.conn = tab.conn /\ up' \ closed' \subseteq live'
    BY <1>0, <1>17 DEF Release, OnTheWay, serverVars, accessVars, grantVars, connVars, tabVars, Without
  <2>2. /\ owed' \subseteq owed /\ overtaken \subseteq overtaken'
        /\ \A d \in Conns, e \in Events : Due(d, e)' => Due(d, e)
    BY <1>0, <1>17 DEF Release, Due, serverVars, accessVars, grantVars, connVars, tabVars, Without
  <2>3. ASSUME NEW d \in Conns, NEW e \in Events, d = tab.conn, Due(d, e), Due(d, e)', Reaches(d, e)
        PROVE  Reaches(d, e)'
    <3>0. e \in Out /\ e \in DOMAIN log
      BY <2>3 DEF Due, HandedOver, Out
    <3>1. /\ UNCHANGED <<log, inbox, thread, wire, tab, following>>
          /\ up' = up \ {c} /\ closed \subseteq closed'
          /\ d # c => sendq'[d] = sendq[d] /\ commands'[d] = commands[d]
          /\ d # c => \A t \in Topics : d \in index[t] => d \in index'[t]
      BY <1>0, <1>17 DEF Release, Removed, ConnTypes, GrantTypes, serverVars, accessVars, grantVars, connVars, tabVars, Without
    <3>2. /\ OnWire(d)' = OnWire(d) /\ Waiting' = Waiting /\ AtThread(d)' = AtThread(d)
      BY <3>1 DEF OnWire, Waiting, AtThread
    <3>3. CASE d = c
      BY <2>3, <3>1, <3>2, <3>3 DEF Reaches, Down
    <3>4. CASE d # c
      <4>1. Queued(d)' = Queued(d) /\ (Down(d) => Down(d)')
        BY <3>1, <3>4 DEF Queued, Down
      <4>2. Held(d, e) => Held(d, e)'
        BY <1>0, <3>1, <3>4, TabShape DEF Held, Leaving
      <4> QED
        BY <2>3, <3>2, <4>1, <4>2, Carried
    <3> QED
      BY <3>3, <3>4
  <2> QED
    BY <2>1, <2>2, <2>3, KeepsWay
<1>18. ASSUME Connect  PROVE OnTheWay'
  <2>1. tab'.conn = tab.conn + 1 /\ UNCHANGED <<owed, known, overtaken>>
    BY <1>0, <1>18, TabConnects DEF Connect
  <2>2. up' \ closed' \subseteq live'
    BY <1>18 DEF Connect, OnTheWay
  <2>3. \A p \in owed : p[1] \in Nat /\ p[1] <= tab.conn
    BY Numbers DEF TypeOK, OnTheWay
  <2>4. \A p \in owed' : p[1] <= tab'.conn /\ p[1] # tab'.conn
    BY <1>0, <2>1, <2>3
  <2> QED
    BY <2>2, <2>4 DEF OnTheWay, Due
<1>19. ASSUME HandleReady  PROVE OnTheWay'
  <2>1. /\ tab'.conn = tab.conn /\ up' \ closed' \subseteq live'
    BY <1>0, <1>19, TabReceives DEF HandleReady, OnTheWay, serverVars, accessVars, grantVars, connVars, tabVars, Without
  <2>2. /\ owed' \subseteq owed /\ overtaken \subseteq overtaken'
        /\ \A d \in Conns, e \in Events : Due(d, e)' => Due(d, e)
    BY <1>0, <1>19, TabReceives DEF HandleReady, Due, serverVars, accessVars, grantVars, connVars, tabVars, Without
  <2>3. ASSUME NEW d \in Conns, NEW e \in Events, d = tab.conn, Due(d, e), Due(d, e)', Reaches(d, e)
        PROVE  Reaches(d, e)'
    <3>0. e \in Out /\ e \in DOMAIN log
      BY <2>3 DEF Due, HandedOver, Out
    <3>1. log'[e] = log[e]
      BY <1>19 DEF HandleReady, serverVars, accessVars, grantVars, connVars, tabVars, Without
    <3>2. /\ Waiting \subseteq Waiting' /\ AtThread(d) \subseteq AtThread(d)'
          /\ Queued(d) \subseteq Queued(d)' /\ (Down(d) => Down(d)')
      BY <1>0, <1>19, TabReceives DEF HandleReady, Receives, serverVars, accessVars, grantVars, connVars, tabVars, Without, Waiting, AtThread, Queued, Down
    <3>3. OnWire(d)' \subseteq OnWire(d) /\ (e \in OnWire(d) => e \in OnWire(d)')
      BY <1>0, <1>19, FrameRead DEF HandleReady
    <3>4. /\ tab.wanted \subseteq tab'.wanted /\ following[d] \subseteq following'[d]
          /\ \A t1 \in Topics : d \in index[t1] => d \in index'[t1]
      BY <1>0, <1>19, TabReceives DEF HandleReady, serverVars, accessVars, grantVars, connVars, tabVars, Without, GrantTypes
    <3>5. \A q \in Sent(d)' : q.kind = "unsubscribe" => q \in Sent(d)
      BY <1>0, <1>19, ReadyAdds
    <3>6. Held(d, e) => Held(d, e)'
      BY <1>0, <3>1, <3>4, <3>5, StillHeld
    <3>7. e \in AtThread(d) \/ e \in Waiting => e \in AtThread(d)' \/ e \in Waiting'
      BY <3>2
    <3> QED
      BY <2>3, <3>2, <3>3, <3>6, <3>7, Carried
  <2> QED
    BY <2>1, <2>2, <2>3, KeepsWay
<1>20. ASSUME HandleEvent  PROVE OnTheWay'
  <2>1. /\ tab'.conn = tab.conn /\ up' \ closed' \subseteq live'
    BY <1>0, <1>20, TabReceives DEF HandleEvent, OnTheWay, serverVars, accessVars, grantVars, connVars, tabVars, Without
  <2>2. /\ owed' \subseteq owed /\ overtaken \subseteq overtaken'
        /\ \A d \in Conns, e \in Events : Due(d, e)' => Due(d, e)
    BY <1>0, <1>20, TabReceives DEF HandleEvent, Due, serverVars, accessVars, grantVars, connVars, tabVars, Without
  <2>3. ASSUME NEW d \in Conns, NEW e \in Events, d = tab.conn, Due(d, e), Due(d, e)', Reaches(d, e)
        PROVE  Reaches(d, e)'
    <3>0. e \in Out /\ e \in DOMAIN log
      BY <2>3 DEF Due, HandedOver, Out
    <3>1. log'[e] = log[e]
      BY <1>20 DEF HandleEvent, serverVars, accessVars, grantVars, connVars, tabVars, Without
    <3>2. /\ Waiting \subseteq Waiting' /\ AtThread(d) \subseteq AtThread(d)'
          /\ Queued(d) \subseteq Queued(d)' /\ (Down(d) => Down(d)')
      BY <1>0, <1>20, TabReceives DEF HandleEvent, serverVars, accessVars, grantVars, connVars, tabVars, Without, Waiting, AtThread, Queued, Down
    <3>3. OnWire(d)' \subseteq OnWire(d) /\ (e \in OnWire(d) => e \in OnWire(d)')
      <4>1. e # Head(wire[tab.conn]).event
        BY <1>20, <2>3 DEF HandleEvent, Due
      <4>2. Receives("event")
        BY <1>20 DEF HandleEvent
      <4> QED
        BY <1>0, <4>1, <4>2, FrameRead
    <3>4. /\ tab.wanted \subseteq tab'.wanted /\ following[d] \subseteq following'[d]
          /\ \A t1 \in Topics : d \in index[t1] => d \in index'[t1]
      BY <1>0, <1>20, TabReceives DEF HandleEvent, serverVars, accessVars, grantVars, connVars, tabVars, Without, GrantTypes
    <3>5. \A q \in Sent(d)' : q.kind = "unsubscribe" => q \in Sent(d)
      BY <1>20 DEF HandleEvent, serverVars, accessVars, grantVars, connVars, tabVars, Without, Sent
    <3>6. Held(d, e) => Held(d, e)'
      BY <1>0, <3>1, <3>4, <3>5, StillHeld
    <3>7. e \in AtThread(d) \/ e \in Waiting => e \in AtThread(d)' \/ e \in Waiting'
      BY <3>2
    <3> QED
      BY <2>3, <3>2, <3>3, <3>6, <3>7, Carried
  <2> QED
    BY <2>1, <2>2, <2>3, KeepsWay
<1>21. ASSUME HandleResumed  PROVE OnTheWay'
  <2>1. /\ tab'.conn = tab.conn /\ up' \ closed' \subseteq live'
    BY <1>0, <1>21, TabReceives DEF HandleResumed, OnTheWay, serverVars, accessVars, grantVars, connVars, tabVars, Without
  <2>2. /\ owed' \subseteq owed /\ overtaken \subseteq overtaken'
        /\ \A d \in Conns, e \in Events : Due(d, e)' => Due(d, e)
    BY <1>0, <1>21, TabReceives DEF HandleResumed, Due, serverVars, accessVars, grantVars, connVars, tabVars, Without
  <2>3. ASSUME NEW d \in Conns, NEW e \in Events, d = tab.conn, Due(d, e), Due(d, e)', Reaches(d, e)
        PROVE  Reaches(d, e)'
    <3>0. e \in Out /\ e \in DOMAIN log
      BY <2>3 DEF Due, HandedOver, Out
    <3>1. log'[e] = log[e]
      BY <1>21 DEF HandleResumed, serverVars, accessVars, grantVars, connVars, tabVars, Without
    <3>2. /\ Waiting \subseteq Waiting' /\ AtThread(d) \subseteq AtThread(d)'
          /\ Queued(d) \subseteq Queued(d)' /\ (Down(d) => Down(d)')
      BY <1>0, <1>21, TabReceives DEF HandleResumed, serverVars, accessVars, grantVars, connVars, tabVars, Without, Waiting, AtThread, Queued, Down
    <3>3. OnWire(d)' \subseteq OnWire(d) /\ (e \in OnWire(d) => e \in OnWire(d)')
      BY <1>0, <1>21, FrameRead DEF HandleResumed
    <3>4. /\ tab.wanted \subseteq tab'.wanted /\ following[d] \subseteq following'[d]
          /\ \A t1 \in Topics : d \in index[t1] => d \in index'[t1]
      BY <1>0, <1>21, TabReceives DEF HandleResumed, serverVars, accessVars, grantVars, connVars, tabVars, Without, GrantTypes
    <3>5. \A q \in Sent(d)' : q.kind = "unsubscribe" => q \in Sent(d)
      BY <1>21 DEF HandleResumed, serverVars, accessVars, grantVars, connVars, tabVars, Without, Sent
    <3>6. Held(d, e) => Held(d, e)'
      BY <1>0, <3>1, <3>4, <3>5, StillHeld
    <3>7. e \in AtThread(d) \/ e \in Waiting => e \in AtThread(d)' \/ e \in Waiting'
      BY <3>2
    <3> QED
      BY <2>3, <3>2, <3>3, <3>6, <3>7, Carried
  <2> QED
    BY <2>1, <2>2, <2>3, KeepsWay
<1>22. ASSUME RecoverFromGap  PROVE OnTheWay'
  <2>1. /\ tab'.conn = tab.conn /\ up' \ closed' \subseteq live'
    BY <1>0, <1>22, TabReceives DEF RecoverFromGap, OnTheWay, serverVars, accessVars, grantVars, connVars, tabVars, Without
  <2>2. /\ owed' \subseteq owed /\ overtaken \subseteq overtaken'
        /\ \A d \in Conns, e \in Events : Due(d, e)' => Due(d, e)
    <3>1. UNCHANGED <<owed, overtaken>> /\ (known' = known \/ known' = DOMAIN log)
      BY <1>22 DEF RecoverFromGap
    <3>2. \A p \in owed : p[2] \in DOMAIN log
      BY DEF HandedOver, Out
    <3> QED
      BY <3>1, <3>2 DEF Due
  <2>3. ASSUME NEW d \in Conns, NEW e \in Events, d = tab.conn, Due(d, e), Due(d, e)', Reaches(d, e)
        PROVE  Reaches(d, e)'
    <3>0. e \in Out /\ e \in DOMAIN log
      BY <2>3 DEF Due, HandedOver, Out
    <3>1. log'[e] = log[e]
      BY <1>22 DEF RecoverFromGap, serverVars, accessVars, grantVars, connVars, tabVars, Without
    <3>2. /\ Waiting \subseteq Waiting' /\ AtThread(d) \subseteq AtThread(d)'
          /\ Queued(d) \subseteq Queued(d)' /\ (Down(d) => Down(d)')
      BY <1>0, <1>22, TabReceives DEF RecoverFromGap, serverVars, accessVars, grantVars, connVars, tabVars, Without, Waiting, AtThread, Queued, Down
    <3>3. OnWire(d)' \subseteq OnWire(d) /\ (e \in OnWire(d) => e \in OnWire(d)')
      BY <1>22 DEF RecoverFromGap, serverVars, accessVars, grantVars, connVars, tabVars, Without, OnWire
    <3>4. /\ tab.wanted \subseteq tab'.wanted /\ following[d] \subseteq following'[d]
          /\ \A t1 \in Topics : d \in index[t1] => d \in index'[t1]
      BY <1>0, <1>22, TabReceives DEF RecoverFromGap, serverVars, accessVars, grantVars, connVars, tabVars, Without, GrantTypes
    <3>5. \A q \in Sent(d)' : q.kind = "unsubscribe" => q \in Sent(d)
      BY <1>22 DEF RecoverFromGap, serverVars, accessVars, grantVars, connVars, tabVars, Without, Sent
    <3>6. Held(d, e) => Held(d, e)'
      BY <1>0, <3>1, <3>4, <3>5, StillHeld
    <3>7. e \in AtThread(d) \/ e \in Waiting => e \in AtThread(d)' \/ e \in Waiting'
      BY <3>2
    <3> QED
      BY <2>3, <3>2, <3>3, <3>6, <3>7, Carried
  <2> QED
    BY <2>1, <2>2, <2>3, KeepsWay
<1>23. ASSUME Lose  PROVE OnTheWay'
  <2>1. /\ tab'.conn = tab.conn /\ up' \ closed' \subseteq live'
    BY <1>0, <1>23, TabConnects DEF Lose, OnTheWay, serverVars, accessVars, grantVars, connVars, tabVars, Without
  <2>2. /\ owed' \subseteq owed /\ overtaken \subseteq overtaken'
        /\ \A d \in Conns, e \in Events : Due(d, e)' => Due(d, e)
    BY <1>0, <1>23, TabConnects DEF Lose, Due, serverVars, accessVars, grantVars, connVars, tabVars, Without
  <2>3. ASSUME NEW d \in Conns, NEW e \in Events, d = tab.conn, Due(d, e), Due(d, e)', Reaches(d, e)
        PROVE  Reaches(d, e)'
    <3>0. e \in Out /\ e \in DOMAIN log
      BY <2>3 DEF Due, HandedOver, Out
    <3>1. wire'[d] = <<>> /\ tab'.phase = "down"
      BY <1>0, <1>23, <2>3, TabConnects DEF Lose, ConnTypes
    <3>2. OnWire(d)' = {}
      BY <3>1 DEF OnWire, EventsOf, IsEvent
    <3> QED
      BY <3>1, <3>2 DEF Reaches, Down
  <2> QED
    BY <2>1, <2>2, <2>3, KeepsWay
<1>24. ASSUME NEW t \in Topics, Follow(t)  PROVE OnTheWay'
  <2>1. /\ tab'.conn = tab.conn /\ up' \ closed' \subseteq live'
    BY <1>0, <1>24, TabConnects DEF Follow, OnTheWay, serverVars, accessVars, grantVars, connVars, tabVars, Without
  <2>2. /\ owed' \subseteq owed /\ overtaken \subseteq overtaken'
        /\ \A d \in Conns, e \in Events : Due(d, e)' => Due(d, e)
    BY <1>0, <1>24, TabConnects DEF Follow, Due, serverVars, accessVars, grantVars, connVars, tabVars, Without
  <2>3. ASSUME NEW d \in Conns, NEW e \in Events, d = tab.conn, Due(d, e), Due(d, e)', Reaches(d, e)
        PROVE  Reaches(d, e)'
    <3>0. e \in Out /\ e \in DOMAIN log
      BY <2>3 DEF Due, HandedOver, Out
    <3>1. log'[e] = log[e]
      BY <1>24 DEF Follow, serverVars, accessVars, grantVars, connVars, tabVars, Without
    <3>2. /\ Waiting \subseteq Waiting' /\ AtThread(d) \subseteq AtThread(d)'
          /\ Queued(d) \subseteq Queued(d)' /\ (Down(d) => Down(d)')
      BY <1>0, <1>24, TabConnects DEF Follow, serverVars, accessVars, grantVars, connVars, tabVars, Without, Waiting, AtThread, Queued, Down
    <3>3. OnWire(d)' \subseteq OnWire(d) /\ (e \in OnWire(d) => e \in OnWire(d)')
      BY <1>24 DEF Follow, serverVars, accessVars, grantVars, connVars, tabVars, Without, OnWire
    <3>4. /\ tab.wanted \subseteq tab'.wanted /\ following[d] \subseteq following'[d]
          /\ \A t1 \in Topics : d \in index[t1] => d \in index'[t1]
      BY <1>0, <1>24, TabConnects DEF Follow, serverVars, accessVars, grantVars, connVars, tabVars, Without, GrantTypes
    <3>5. \A q \in Sent(d)' : q.kind = "unsubscribe" => q \in Sent(d)
      <4>1. [kind |-> "subscribe", topics |-> {t}] \in Commands
        BY DEF Commands
      <4> QED
        <5>1. \A x \in Sent(d)' : x \in Sent(d) \/ x = [kind |-> "subscribe", topics |-> {t}]
          BY <1>0, <1>24, <4>1, ToldAdds DEF Follow
        <5> QED
          BY <5>1
    <3>6. Held(d, e) => Held(d, e)'
      BY <1>0, <3>1, <3>4, <3>5, StillHeld
    <3>7. e \in AtThread(d) \/ e \in Waiting => e \in AtThread(d)' \/ e \in Waiting'
      BY <3>2
    <3> QED
      BY <2>3, <3>2, <3>3, <3>6, <3>7, Carried
  <2> QED
    BY <2>1, <2>2, <2>3, KeepsWay
<1>25. ASSUME NEW t \in Topics, Unfollow(t)  PROVE OnTheWay'
  <2>1. /\ tab'.conn = tab.conn /\ up' \ closed' \subseteq live'
    BY <1>0, <1>25, TabConnects DEF Unfollow, OnTheWay, serverVars, accessVars, grantVars, connVars, tabVars, Without
  <2>2. /\ owed' \subseteq owed /\ overtaken \subseteq overtaken'
        /\ \A d \in Conns, e \in Events : Due(d, e)' => Due(d, e)
    BY <1>0, <1>25, TabConnects DEF Unfollow, Due, serverVars, accessVars, grantVars, connVars, tabVars, Without
  <2>3. ASSUME NEW d \in Conns, NEW e \in Events, d = tab.conn, Due(d, e), Due(d, e)', Reaches(d, e)
        PROVE  Reaches(d, e)'
    <3>0. e \in Out /\ e \in DOMAIN log
      BY <2>3 DEF Due, HandedOver, Out
    <3>1. /\ UNCHANGED <<log, inbox, thread, up, closed, sendq, wire>>
          /\ tab'.phase = tab.phase
      BY <1>0, <1>25, TabConnects DEF Unfollow, serverVars, accessVars, grantVars, connVars, tabVars, Without
    <3>2. /\ OnWire(d)' = OnWire(d) /\ Waiting' = Waiting /\ AtThread(d)' = AtThread(d)
          /\ Queued(d)' = Queued(d) /\ (Down(d) => Down(d)')
      BY <3>1 DEF OnWire, Waiting, AtThread, Queued, Down
    <3>3. Held(d, e) => Held(d, e)'
      <4>1. t \notin Routes(log[e]) /\ tab'.wanted = tab.wanted \ {t} /\ UNCHANGED <<log, index, following>>
        <5>1. tab' = [tab EXCEPT !.wanted = tab.wanted \ {t}]
          BY <1>25 DEF Unfollow
        <5>2. tab'.wanted = tab.wanted \ {t}
          BY <1>0, <5>1 DEF TabTypes, TabStates
        <5> QED
          BY <1>25, <2>3, <5>2 DEF Unfollow, Due, Without, serverVars, grantVars
      <4>2. [kind |-> "unsubscribe", topics |-> {t}] \in Commands
        BY DEF Commands
      <4>3. \A x \in Sent(d)' : x \in Sent(d) \/ x = [kind |-> "unsubscribe", topics |-> {t}]
        BY <1>0, <1>25, <4>2, ToldAdds DEF Unfollow
      <4>4. ASSUME NEW u \in Routes(log[e]) \cap tab.wanted, ~Leaving(d, u)
            PROVE  u \in tab'.wanted /\ ~Leaving(d, u)'
        <5>1. u # t
          BY <4>1
        <5> QED
          BY <4>1, <4>3, <4>4, <5>1, LeavingIsSent
      <4> QED
        BY <4>1, <4>4 DEF Held
    <3> QED
      BY <2>3, <3>2, <3>3, Carried
  <2> QED
    BY <2>1, <2>2, <2>3, KeepsWay
<1>26. ASSUME NEW t \in Topics, Withdraw(t)  PROVE OnTheWay'
  <2>1. /\ tab'.conn = tab.conn /\ up' \ closed' \subseteq live'
    BY <1>0, <1>26 DEF Withdraw, OnTheWay, serverVars, accessVars, grantVars, connVars, tabVars, Without
  <2>2. /\ owed' \subseteq owed /\ overtaken \subseteq overtaken'
        /\ \A d \in Conns, e \in Events : Due(d, e)' => Due(d, e)
    BY <1>0, <1>26 DEF Withdraw, Due, serverVars, accessVars, grantVars, connVars, tabVars, Without
  <2>3. ASSUME NEW d \in Conns, NEW e \in Events, d = tab.conn, Due(d, e), Due(d, e)', Reaches(d, e)
        PROVE  Reaches(d, e)'
    <3>0. e \in Out /\ e \in DOMAIN log
      BY <2>3 DEF Due, HandedOver, Out
    <3>1. log'[e] = log[e]
      BY <1>26 DEF Withdraw, serverVars, accessVars, grantVars, connVars, tabVars, Without
    <3>2. /\ Waiting \subseteq Waiting' /\ AtThread(d) \subseteq AtThread(d)'
          /\ Queued(d) \subseteq Queued(d)' /\ (Down(d) => Down(d)')
      BY <1>0, <1>26 DEF Withdraw, serverVars, accessVars, grantVars, connVars, tabVars, Without, Waiting, AtThread, Queued, Down
    <3>3. OnWire(d)' \subseteq OnWire(d) /\ (e \in OnWire(d) => e \in OnWire(d)')
      BY <1>26 DEF Withdraw, serverVars, accessVars, grantVars, connVars, tabVars, Without, OnWire
    <3>4. /\ tab.wanted \subseteq tab'.wanted /\ following[d] \subseteq following'[d]
          /\ \A t1 \in Topics : d \in index[t1] => d \in index'[t1]
      BY <1>0, <1>26 DEF Withdraw, serverVars, accessVars, grantVars, connVars, tabVars, Without, GrantTypes
    <3>5. \A q \in Sent(d)' : q.kind = "unsubscribe" => q \in Sent(d)
      BY <1>26 DEF Withdraw, serverVars, accessVars, grantVars, connVars, tabVars, Without, Sent
    <3>6. Held(d, e) => Held(d, e)'
      BY <1>0, <3>1, <3>4, <3>5, StillHeld
    <3>7. e \in AtThread(d) \/ e \in Waiting => e \in AtThread(d)' \/ e \in Waiting'
      BY <3>2
    <3> QED
      BY <2>3, <3>2, <3>3, <3>6, <3>7, Carried
  <2> QED
    BY <2>1, <2>2, <2>3, KeepsWay
<1>27. ASSUME Tick  PROVE OnTheWay'
  <2>1. /\ tab'.conn = tab.conn /\ up' \ closed' \subseteq live'
    BY <1>0, <1>27 DEF Tick, OnTheWay, serverVars, accessVars, grantVars, connVars, tabVars, Without
  <2>2. /\ owed' \subseteq owed /\ overtaken \subseteq overtaken'
        /\ \A d \in Conns, e \in Events : Due(d, e)' => Due(d, e)
    BY <1>0, <1>27 DEF Tick, Due, serverVars, accessVars, grantVars, connVars, tabVars, Without
  <2>3. ASSUME NEW d \in Conns, NEW e \in Events, d = tab.conn, Due(d, e), Due(d, e)', Reaches(d, e)
        PROVE  Reaches(d, e)'
    <3>0. e \in Out /\ e \in DOMAIN log
      BY <2>3 DEF Due, HandedOver, Out
    <3>1. log'[e] = log[e]
      BY <1>27 DEF Tick, serverVars, accessVars, grantVars, connVars, tabVars, Without
    <3>2. /\ Waiting \subseteq Waiting' /\ AtThread(d) \subseteq AtThread(d)'
          /\ Queued(d) \subseteq Queued(d)' /\ (Down(d) => Down(d)')
      BY <1>0, <1>27 DEF Tick, serverVars, accessVars, grantVars, connVars, tabVars, Without, Waiting, AtThread, Queued, Down
    <3>3. OnWire(d)' \subseteq OnWire(d) /\ (e \in OnWire(d) => e \in OnWire(d)')
      BY <1>27 DEF Tick, serverVars, accessVars, grantVars, connVars, tabVars, Without, OnWire
    <3>4. /\ tab.wanted \subseteq tab'.wanted /\ following[d] \subseteq following'[d]
          /\ \A t1 \in Topics : d \in index[t1] => d \in index'[t1]
      BY <1>0, <1>27 DEF Tick, serverVars, accessVars, grantVars, connVars, tabVars, Without, GrantTypes
    <3>5. \A q \in Sent(d)' : q.kind = "unsubscribe" => q \in Sent(d)
      BY <1>27 DEF Tick, serverVars, accessVars, grantVars, connVars, tabVars, Without, Sent
    <3>6. Held(d, e) => Held(d, e)'
      BY <1>0, <3>1, <3>4, <3>5, StillHeld
    <3>7. e \in AtThread(d) \/ e \in Waiting => e \in AtThread(d)' \/ e \in Waiting'
      BY <3>2
    <3> QED
      BY <2>3, <3>2, <3>3, <3>6, <3>7, Carried
  <2> QED
    BY <2>1, <2>2, <2>3, KeepsWay
<1>28. CASE UNCHANGED vars
  <2>1. /\ UNCHANGED <<up, live, closed, owed, tab, known, overtaken>>
        /\ \A c \in Conns, e \in Events : Reaches(c, e) => Reaches(c, e)'
    BY <1>28 DEF vars, serverVars, grantVars, connVars, tabVars,
                Reaches, Down, Held, Leaving, OnWire, Queued, AtThread, Waiting
  <2> QED
    BY <2>1 DEF OnTheWay, Due
<1>29. ASSUME NEW c \in Conns, DropRevoked(c)  PROVE OnTheWay'
  <2>1. /\ tab'.conn = tab.conn /\ up' \ closed' \subseteq live'
    BY <1>0, <1>29 DEF DropRevoked, Discard, OnTheWay, serverVars, accessVars, grantVars, connVars, tabVars, Without
  <2>2. /\ owed' \subseteq owed /\ overtaken \subseteq overtaken'
        /\ \A d \in Conns, e \in Events : Due(d, e)' => Due(d, e)
    BY <1>0, <1>29 DEF DropRevoked, Discard, Due, serverVars, accessVars, grantVars, connVars, tabVars, Without
  <2>3. ASSUME NEW d \in Conns, NEW e \in Events, d = tab.conn, Due(d, e), Due(d, e)', Reaches(d, e)
        PROVE  Reaches(d, e)'
    <3>0. e \in Out /\ e \in DOMAIN log
      BY <2>3 DEF Due, HandedOver, Out
    <3>1. /\ c \in thread.todo /\ thread.pc = "revoked" /\ thread' = Served(c)
          /\ UNCHANGED <<log, inbox, up, closed, sendq, wire, commands, tab, following>>
      BY <1>0, <1>29 DEF DropRevoked, serverVars, accessVars, grantVars, connVars, tabVars, Placed, ServesOpened
    <3>2. /\ OnWire(d)' = OnWire(d) /\ Waiting' = Waiting
          /\ AtThread(d)' = AtThread(d) \/ d = c
          /\ Queued(d)' = Queued(d) /\ (Down(d) => Down(d)')
      BY <1>0, <3>1, ServedMoves DEF OnWire, Waiting, Queued, Down
    <3>3. Held(d, e) => Held(d, e)'
      <4>1. <<d, e>> \in owed' /\ Discard(c, thread.topic) /\ \A x \in Conns : Sent(x)' \subseteq Sent(x)
        BY <1>29, <2>3, <3>1 DEF DropRevoked, Due, Sent
      <4> QED
        BY <1>0, <3>1, <4>1, DiscardHolds
    <3>4. e # thread.event
      BY <2>3, <3>1 DEF HandedOver, Due
    <3> QED
      BY <2>3, <3>2, <3>3, <3>4, Carried DEF AtThread
  <2> QED
    BY <2>1, <2>2, <2>3, KeepsWay
<1>30. ASSUME NEW c \in Conns, DropUnsubscribed(c)  PROVE OnTheWay'
  <2>1. /\ tab'.conn = tab.conn /\ up' \ closed' \subseteq live'
    BY <1>0, <1>30 DEF DropUnsubscribed, Discard, OnTheWay, serverVars, accessVars, grantVars, connVars, tabVars, Without
  <2>2. /\ owed' \subseteq owed /\ overtaken \subseteq overtaken'
        /\ \A d \in Conns, e \in Events : Due(d, e)' => Due(d, e)
    BY <1>0, <1>30 DEF DropUnsubscribed, Discard, Due, serverVars, accessVars, grantVars, connVars, tabVars, Without
  <2>3. ASSUME NEW d \in Conns, NEW e \in Events, d = tab.conn, Due(d, e), Due(d, e)', Reaches(d, e)
        PROVE  Reaches(d, e)'
    <3>0. e \in Out /\ e \in DOMAIN log
      BY <2>3 DEF Due, HandedOver, Out
    <3>1. /\ UNCHANGED <<log, inbox, thread, up, closed, sendq, wire>>
          /\ tab'.phase = tab.phase
      BY <1>0, <1>30 DEF DropUnsubscribed, serverVars, accessVars, grantVars, connVars, tabVars, Without
    <3>2. /\ OnWire(d)' = OnWire(d) /\ Waiting' = Waiting /\ AtThread(d)' = AtThread(d)
          /\ Queued(d)' = Queued(d) /\ (Down(d) => Down(d)')
      BY <3>1 DEF OnWire, Waiting, AtThread, Queued, Down
    <3>3. Held(d, e) => Held(d, e)'
      <4>1. /\ <<d, e>> \in owed' /\ Discard(c, reader[c].topic) /\ UNCHANGED <<log, tab, following>>
            /\ \A x \in Conns : Sent(x)' \subseteq Sent(x)
        BY <1>30, <2>3 DEF DropUnsubscribed, Due, Sent, serverVars, tabVars
      <4> QED
        BY <1>0, <4>1, DiscardHolds
    <3> QED
      BY <2>3, <3>2, <3>3, Carried
  <2> QED
    BY <2>1, <2>2, <2>3, KeepsWay
<1>31. ASSUME NEW c \in Conns, NEW t \in Topics, FindFollowed(c, t)  PROVE OnTheWay'
  <2>1. /\ tab'.conn = tab.conn /\ up' \ closed' \subseteq live'
    BY <1>0, <1>31 DEF FindFollowed, OnTheWay, serverVars, accessVars, grantVars, connVars, tabVars, Without
  <2>2. /\ owed' \subseteq owed /\ overtaken \subseteq overtaken'
        /\ \A d \in Conns, e \in Events : Due(d, e)' => Due(d, e)
    BY <1>0, <1>31 DEF FindFollowed, Due, serverVars, accessVars, grantVars, connVars, tabVars, Without
  <2>3. ASSUME NEW d \in Conns, NEW e \in Events, d = tab.conn, Due(d, e), Due(d, e)', Reaches(d, e)
        PROVE  Reaches(d, e)'
    <3>0. e \in Out /\ e \in DOMAIN log
      BY <2>3 DEF Due, HandedOver, Out
    <3>1. log'[e] = log[e]
      BY <1>31 DEF FindFollowed, serverVars, accessVars, grantVars, connVars, tabVars, Without
    <3>2. /\ Waiting \subseteq Waiting' /\ AtThread(d) \subseteq AtThread(d)'
          /\ Queued(d) \subseteq Queued(d)' /\ (Down(d) => Down(d)')
      BY <1>0, <1>31 DEF FindFollowed, serverVars, accessVars, grantVars, connVars, tabVars, Without, Waiting, AtThread, Queued, Down
    <3>3. OnWire(d)' \subseteq OnWire(d) /\ (e \in OnWire(d) => e \in OnWire(d)')
      BY <1>31 DEF FindFollowed, serverVars, accessVars, grantVars, connVars, tabVars, Without, OnWire
    <3>4. /\ tab.wanted \subseteq tab'.wanted /\ following[d] \subseteq following'[d]
          /\ \A t1 \in Topics : d \in index[t1] => d \in index'[t1]
      BY <1>0, <1>31 DEF FindFollowed, serverVars, accessVars, grantVars, connVars, tabVars, Without, GrantTypes
    <3>5. \A q \in Sent(d)' : q.kind = "unsubscribe" => q \in Sent(d)
      BY <1>31 DEF FindFollowed, serverVars, accessVars, grantVars, connVars, tabVars, Without, Sent
    <3>6. Held(d, e) => Held(d, e)'
      BY <1>0, <3>1, <3>4, <3>5, StillHeld
    <3>7. e \in AtThread(d) \/ e \in Waiting => e \in AtThread(d)' \/ e \in Waiting'
      BY <3>2
    <3> QED
      BY <2>3, <3>2, <3>3, <3>6, <3>7, Carried
  <2> QED
    BY <2>1, <2>2, <2>3, KeepsWay
<1> QED
  BY <1>1, <1>2, <1>3, <1>4, <1>5, <1>6, <1>7, <1>8, <1>9, <1>10, <1>11, <1>12, <1>13, <1>14,
     <1>15, <1>16, <1>17, <1>18, <1>19, <1>20, <1>21, <1>22, <1>23, <1>24, <1>25, <1>26, <1>27,
     <1>28, <1>29, <1>30, <1>31, StepCases

-----------------------------------------------------------------------------
(* A gap is reported                                                       *)

(* A position that was declared is one the tab had.                        *)
ResumesBehind ==
    \A c \in Conns : \A q \in Sent(c) :
        q.kind = "resume" => 0 < q.last /\ q.last <= tab.last

(* What is due and was not reported is after the tab's position, and an    *)
(* earlier connection owes it only as long as the present one was not      *)
(* answered.                                                               *)
PositionBehind ==
    \A d \in Conns, e \in Events :
        Due(d, e) /\ ~tab.missed => tab.last < e /\ (d = tab.conn \/ tab.resumed = 0)

(* An answer on its way to the tab tells of what an earlier connection owes. *)
AnswersTell ==
    \A c, d \in Conns, e \in Events :
        c = tab.conn /\ d # c /\ Due(d, e) /\ ~tab.missed =>
            \A f \in Items(wire[c]) : f.kind = "resumed" => f.gap

GapKept == ResumesBehind /\ PositionBehind /\ AnswersTell

(* A frame is read.                                                        *)
LEMMA FrameTaken ==
    ASSUME ConnTypes, TabTypes, NEW kind, Receives(kind)
    PROVE  /\ Head(wire[tab.conn]) \in Items(wire[tab.conn])
           /\ \A d \in Conns : Items(wire'[d]) \subseteq Items(wire[d])
<1>1. /\ tab.conn \in Conns /\ wire[tab.conn] \in Seq(Frames) /\ wire[tab.conn] # <<>>
      /\ wire' = [wire EXCEPT ![tab.conn] = Tail(@)]
  BY HeadFrame
<1>2. /\ Head(wire[tab.conn]) \in Items(wire[tab.conn])
      /\ Items(Tail(wire[tab.conn])) \subseteq Items(wire[tab.conn])
  BY <1>1, TakesHead
<1>3. \A d \in Conns : wire'[d] = IF d = tab.conn THEN Tail(wire[tab.conn]) ELSE wire[d]
  BY <1>1 DEF ConnTypes
<1> QED
  BY <1>2, <1>3

(* A frame is sent.                                                        *)
LEMMA FrameAdded ==
    ASSUME NEW w \in Seq(Frames), NEW f \in Frames
    PROVE  \A x \in Items(Append(w, f)) : x \in Items(w) \/ x = f
<1>1. /\ Len(w) \in Nat /\ DOMAIN w = 1..Len(w) /\ DOMAIN Append(w, f) = 1..(Len(w) + 1)
      /\ Append(w, f)[Len(w) + 1] = f
      /\ \A i \in 1..Len(w) : Append(w, f)[i] = w[i]
  OBVIOUS
<1>2. \A i \in 1..(Len(w) + 1) : i \in 1..Len(w) \/ i = Len(w) + 1
  BY <1>1
<1> QED
  BY <1>1, <1>2 DEF Items

(* Steps that change nothing the tab goes by.                              *)
LEMMA KeepsGap ==
    ASSUME GapKept, tab'.conn = tab.conn, tab'.last = tab.last,
           tab'.resumed = tab.resumed \/ tab'.resumed = 0, tab'.missed = tab.missed,
           \A d \in Conns, e \in Events : Due(d, e)' => Due(d, e),
           \A d \in Conns : \A q \in Sent(d)' :
              q.kind = "resume" => q \in Sent(d) \/ (0 < q.last /\ q.last <= tab.last),
           \A d \in Conns : \A f \in Items(wire'[d]) :
              f.kind = "resumed" => f \in Items(wire[d])
    PROVE  GapKept'
<1>1. ResumesBehind'
  BY DEF GapKept, ResumesBehind
<1>2. PositionBehind'
  BY DEF GapKept, PositionBehind
<1>3. AnswersTell'
  BY DEF GapKept, AnswersTell
<1> QED
  BY <1>1, <1>2, <1>3 DEF GapKept

(* Every step keeps them so.                                               *)
LEMMA GapStep ==
    ASSUME TypeOK, Placed, Lined, OnTheWay, GapKept, [Next]_vars
    PROVE  GapKept'
<1> USE DEF Lined, GapKept
<1>0. /\ ServerTypes /\ AccessTypes /\ GrantTypes /\ ConnTypes /\ TabTypes
      /\ tab.conn \in Nat
      /\ Lined /\ GapKept
  BY TypeParts
<1>1. ASSUME NEW t \in Topics, Build(t)  PROVE GapKept'
  <2>1. /\ tab'.conn = tab.conn /\ tab'.last = tab.last
        /\ tab'.resumed = tab.resumed \/ tab'.resumed = 0
        /\ tab'.missed = tab.missed
    BY <1>0, <1>1 DEF Build, serverVars, accessVars, grantVars, connVars, tabVars, Without
  <2>2. \A d \in Conns, e \in Events : Due(d, e)' => Due(d, e)
    BY <1>1 DEF Build, Due, serverVars, accessVars, grantVars, connVars, tabVars, Without
  <2>3. ASSUME NEW d \in Conns, NEW q \in Sent(d)', q.kind = "resume"
        PROVE  q \in Sent(d) \/ (0 < q.last /\ q.last <= tab.last)
    BY <1>1, <2>3 DEF Build, Sent, serverVars, accessVars, grantVars, connVars, tabVars, Without
  <2>4. ASSUME NEW d \in Conns, NEW f \in Items(wire'[d]), f.kind = "resumed"
        PROVE  f \in Items(wire[d])
    BY <1>1, <2>4 DEF Build, serverVars, accessVars, grantVars, connVars, tabVars, Without
  <2> QED
    BY <2>1, <2>2, <2>3, <2>4, KeepsGap
<1>2. ASSUME NEW e \in Events, HandOver(e)  PROVE GapKept'
  <2>1. /\ UNCHANGED <<tab, commands, wire, known>>
        /\ overtaken \subseteq overtaken'
        /\ owed' = owed \/ owed' = owed \cup (Followers(e) \X {e})
        /\ e \in publishing /\ \A later \in Out : later > e => e \in overtaken'
    BY <1>2 DEF HandOver, connVars, tabVars, Out
  <2>2. \A d \in Followers(e) : d = tab.conn
    BY DEF Followers, Abandoned
  <2>3. \A d \in Conns, x \in Events : Due(d, x)' => Due(d, x) \/ (d = tab.conn /\ x = e /\ e \notin overtaken')
    BY <2>1, <2>2 DEF Due
  <2>4. e \notin overtaken' => tab.last < e
    <3>1. tab.last \in Nat /\ e \in Nat \ {0} /\ e \notin Out
      BY <1>0, <2>1, TabShape, Numbers DEF Out
    <3>2. tab.last > 0 => tab.last \in Out
      BY DEF HandedOver
    <3> QED
      BY <2>1, <3>1, <3>2
  <2>5. ResumesBehind'
    BY <2>1 DEF ResumesBehind, Sent
  <2>6. PositionBehind'
    BY <2>1, <2>3, <2>4 DEF PositionBehind
  <2>7. AnswersTell'
    BY <2>1, <2>3 DEF AnswersTell
  <2> QED
    BY <2>5, <2>6, <2>7
<1>3. ASSUME TakeEvent  PROVE GapKept'
  <2>1. /\ tab'.conn = tab.conn /\ tab'.last = tab.last
        /\ tab'.resumed = tab.resumed \/ tab'.resumed = 0
        /\ tab'.missed = tab.missed
    BY <1>0, <1>3 DEF TakeEvent, serverVars, accessVars, grantVars, connVars, tabVars, Without
  <2>2. \A d \in Conns, e \in Events : Due(d, e)' => Due(d, e)
    BY <1>3 DEF TakeEvent, Due, serverVars, accessVars, grantVars, connVars, tabVars, Without
  <2>3. ASSUME NEW d \in Conns, NEW q \in Sent(d)', q.kind = "resume"
        PROVE  q \in Sent(d) \/ (0 < q.last /\ q.last <= tab.last)
    BY <1>3, <2>3 DEF TakeEvent, Sent, serverVars, accessVars, grantVars, connVars, tabVars, Without
  <2>4. ASSUME NEW d \in Conns, NEW f \in Items(wire'[d]), f.kind = "resumed"
        PROVE  f \in Items(wire[d])
    BY <1>3, <2>4 DEF TakeEvent, serverVars, accessVars, grantVars, connVars, tabVars, Without
  <2> QED
    BY <2>1, <2>2, <2>3, <2>4, KeepsGap
<1>4. ASSUME NEW c \in Conns, Skip(c)  PROVE GapKept'
  <2>1. /\ tab'.conn = tab.conn /\ tab'.last = tab.last
        /\ tab'.resumed = tab.resumed \/ tab'.resumed = 0
        /\ tab'.missed = tab.missed
    BY <1>0, <1>4 DEF Skip, serverVars, accessVars, grantVars, connVars, tabVars, Without
  <2>2. \A d \in Conns, e \in Events : Due(d, e)' => Due(d, e)
    BY <1>4 DEF Skip, Due, serverVars, accessVars, grantVars, connVars, tabVars, Without
  <2>3. ASSUME NEW d \in Conns, NEW q \in Sent(d)', q.kind = "resume"
        PROVE  q \in Sent(d) \/ (0 < q.last /\ q.last <= tab.last)
    BY <1>4, <2>3 DEF Skip, Sent, serverVars, accessVars, grantVars, connVars, tabVars, Without
  <2>4. ASSUME NEW d \in Conns, NEW f \in Items(wire'[d]), f.kind = "resumed"
        PROVE  f \in Items(wire[d])
    BY <1>4, <2>4 DEF Skip, serverVars, accessVars, grantVars, connVars, tabVars, Without
  <2> QED
    BY <2>1, <2>2, <2>3, <2>4, KeepsGap
<1>5. ASSUME NEW c \in Conns, DeliverFresh(c)  PROVE GapKept'
  <2>1. /\ tab'.conn = tab.conn /\ tab'.last = tab.last
        /\ tab'.resumed = tab.resumed \/ tab'.resumed = 0
        /\ tab'.missed = tab.missed
    BY <1>0, <1>5 DEF DeliverFresh, serverVars, accessVars, grantVars, connVars, tabVars, Without
  <2>2. \A d \in Conns, e \in Events : Due(d, e)' => Due(d, e)
    BY <1>5 DEF DeliverFresh, Due, serverVars, accessVars, grantVars, connVars, tabVars, Without
  <2>3. ASSUME NEW d \in Conns, NEW q \in Sent(d)', q.kind = "resume"
        PROVE  q \in Sent(d) \/ (0 < q.last /\ q.last <= tab.last)
    BY <1>5, <2>3 DEF DeliverFresh, Sent, serverVars, accessVars, grantVars, connVars, tabVars, Without
  <2>4. ASSUME NEW d \in Conns, NEW f \in Items(wire'[d]), f.kind = "resumed"
        PROVE  f \in Items(wire[d])
    BY <1>5, <2>4 DEF DeliverFresh, serverVars, accessVars, grantVars, connVars, tabVars, Without
  <2> QED
    BY <2>1, <2>2, <2>3, <2>4, KeepsGap
<1>6. ASSUME NEW c \in Conns, Recheck(c)  PROVE GapKept'
  <2>1. /\ tab'.conn = tab.conn /\ tab'.last = tab.last
        /\ tab'.resumed = tab.resumed \/ tab'.resumed = 0
        /\ tab'.missed = tab.missed
    BY <1>0, <1>6 DEF Recheck, serverVars, accessVars, grantVars, connVars, tabVars, Without
  <2>2. \A d \in Conns, e \in Events : Due(d, e)' => Due(d, e)
    BY <1>6 DEF Recheck, Due, serverVars, accessVars, grantVars, connVars, tabVars, Without
  <2>3. ASSUME NEW d \in Conns, NEW q \in Sent(d)', q.kind = "resume"
        PROVE  q \in Sent(d) \/ (0 < q.last /\ q.last <= tab.last)
    BY <1>6, <2>3 DEF Recheck, Sent, serverVars, accessVars, grantVars, connVars, tabVars, Without
  <2>4. ASSUME NEW d \in Conns, NEW f \in Items(wire'[d]), f.kind = "resumed"
        PROVE  f \in Items(wire[d])
    BY <1>6, <2>4 DEF Recheck, serverVars, accessVars, grantVars, connVars, tabVars, Without
  <2> QED
    BY <2>1, <2>2, <2>3, <2>4, KeepsGap
<1>7. ASSUME NEW c \in Conns, Renew(c)  PROVE GapKept'
  <2>1. /\ tab'.conn = tab.conn /\ tab'.last = tab.last
        /\ tab'.resumed = tab.resumed \/ tab'.resumed = 0
        /\ tab'.missed = tab.missed
    BY <1>0, <1>7 DEF Renew, serverVars, accessVars, grantVars, connVars, tabVars, Without
  <2>2. \A d \in Conns, e \in Events : Due(d, e)' => Due(d, e)
    BY <1>7 DEF Renew, Due, serverVars, accessVars, grantVars, connVars, tabVars, Without
  <2>3. ASSUME NEW d \in Conns, NEW q \in Sent(d)', q.kind = "resume"
        PROVE  q \in Sent(d) \/ (0 < q.last /\ q.last <= tab.last)
    BY <1>7, <2>3 DEF Renew, Sent, serverVars, accessVars, grantVars, connVars, tabVars, Without
  <2>4. ASSUME NEW d \in Conns, NEW f \in Items(wire'[d]), f.kind = "resumed"
        PROVE  f \in Items(wire[d])
    BY <1>7, <2>4 DEF Renew, serverVars, accessVars, grantVars, connVars, tabVars, Without
  <2> QED
    BY <2>1, <2>2, <2>3, <2>4, KeepsGap
<1>8. ASSUME NEW c \in Conns, Revoke(c)  PROVE GapKept'
  <2>1. /\ tab'.conn = tab.conn /\ tab'.last = tab.last
        /\ tab'.resumed = tab.resumed \/ tab'.resumed = 0
        /\ tab'.missed = tab.missed
    BY <1>0, <1>8 DEF Revoke, serverVars, accessVars, grantVars, connVars, tabVars, Without
  <2>2. \A d \in Conns, e \in Events : Due(d, e)' => Due(d, e)
    BY <1>8 DEF Revoke, Due, serverVars, accessVars, grantVars, connVars, tabVars, Without
  <2>3. ASSUME NEW d \in Conns, NEW q \in Sent(d)', q.kind = "resume"
        PROVE  q \in Sent(d) \/ (0 < q.last /\ q.last <= tab.last)
    BY <1>8, <2>3 DEF Revoke, Sent, serverVars, accessVars, grantVars, connVars, tabVars, Without
  <2>4. ASSUME NEW d \in Conns, NEW f \in Items(wire'[d]), f.kind = "resumed"
        PROVE  f \in Items(wire[d])
    BY <1>8, <2>4 DEF Revoke, serverVars, accessVars, grantVars, connVars, tabVars, Without
  <2> QED
    BY <2>1, <2>2, <2>3, <2>4, KeepsGap
<1>9. ASSUME NEW c \in Conns, Resume(c)  PROVE GapKept'
  <2>1. /\ UNCHANGED <<tab, known, owed, overtaken>> /\ Head(commands[c]).kind = "resume"
        /\ \A d \in Conns : Sent(d)' \subseteq Sent(d)
        /\ Head(commands[c]) \in Sent(c)
    BY <1>0, <1>9, ReadsShrink DEF Resume, Reads, tabVars
  <2>2. ResumesBehind'
    BY <2>1 DEF ResumesBehind
  <2>3. PositionBehind'
    BY <2>1 DEF PositionBehind, Due
  <2>4. PICK g \in BOOLEAN :
          /\ g = (Head(commands[c]).last > 0 /\ Len(log) > Head(commands[c]).last)
          /\ wire' = [wire EXCEPT ![c] = Append(@, [kind |-> "resumed", gap |-> g, upto |-> Len(log)])]
    <3>1. (Head(commands[c]).last > 0 /\ Len(log) > Head(commands[c]).last) \in BOOLEAN
      OBVIOUS
    <3> QED
      BY <1>9, <3>1 DEF Resume
  <2>5. PICK f \in Frames : f.gap = g /\ wire' = [wire EXCEPT ![c] = Append(@, f)]
    <3>1. Len(log) \in 0..MaxEvents
      BY <1>0, Numbers DEF ServerTypes
    <3>2. [kind |-> "resumed", gap |-> g, upto |-> Len(log)] \in Frames
      BY <3>1 DEF Frames
    <3> QED
      BY <2>4, <3>2
  <2>6. ASSUME NEW d \in Conns, NEW x \in Conns, NEW e \in Events,
               d = tab.conn, x # d, Due(x, e), ~tab.missed,
               NEW frame \in Items(wire'[d]), frame.kind = "resumed"
        PROVE  frame.gap
    <3>1. wire[d] \in Seq(Frames) /\ (wire'[d] = wire[d] \/ (d = c /\ wire'[d] = Append(wire[d], f)))
      BY <1>0, <2>5 DEF ConnTypes
    <3>2. frame \in Items(wire[d]) => frame.gap
      BY <2>6 DEF AnswersTell
    <3>3. CASE wire'[d] = wire[d]
      BY <2>6, <3>2, <3>3
    <3>4. CASE d = c /\ wire'[d] = Append(wire[d], f)
      <4>1. frame \in Items(wire[d]) \/ frame = f
        BY <2>6, <3>1, <3>4, FrameAdded
      <4>2. g
        <5>1. /\ Head(commands[c]).last > 0 /\ Head(commands[c]).last <= tab.last
              /\ Head(commands[c]).last \in Nat
          <6>1. Head(commands[c]) \in Commands
            BY <1>0, <1>9, HeadCommand DEF Resume
          <6> QED
            BY <2>1, <6>1, CommandShapes DEF ResumesBehind
        <5>2. tab.last < e /\ tab.last \in Nat
          BY <1>0, <2>6, TabShape, Numbers DEF PositionBehind
        <5>3. e \in 1..Len(log) /\ Len(log) \in Nat
          BY <1>0, <2>6 DEF Due, HandedOver, Out, ServerTypes
        <5>4. Len(log) > Head(commands[c]).last
          BY <5>1, <5>2, <5>3
        <5> QED
          BY <2>4, <5>1, <5>4
      <4> QED
        BY <2>5, <3>2, <4>1, <4>2
    <3> QED
      BY <3>1, <3>3, <3>4
  <2>7. AnswersTell'
    BY <2>1, <2>6 DEF AnswersTell, Due
  <2> QED
    BY <2>2, <2>3, <2>7
<1>10. ASSUME NEW c \in Conns, ReadSubscribe(c)  PROVE GapKept'
  <2>1. /\ tab'.conn = tab.conn /\ tab'.last = tab.last
        /\ tab'.resumed = tab.resumed \/ tab'.resumed = 0
        /\ tab'.missed = tab.missed
    BY <1>0, <1>10 DEF ReadSubscribe, serverVars, accessVars, grantVars, connVars, tabVars, Without
  <2>2. \A d \in Conns, e \in Events : Due(d, e)' => Due(d, e)
    BY <1>10 DEF ReadSubscribe, Due, serverVars, accessVars, grantVars, connVars, tabVars, Without
  <2>3. ASSUME NEW d \in Conns, NEW q \in Sent(d)', q.kind = "resume"
        PROVE  q \in Sent(d) \/ (0 < q.last /\ q.last <= tab.last)
    BY <1>0, <1>10, <2>3, ReadsShrink DEF ReadSubscribe
  <2>4. ASSUME NEW d \in Conns, NEW f \in Items(wire'[d]), f.kind = "resumed"
        PROVE  f \in Items(wire[d])
    BY <1>10, <2>4 DEF ReadSubscribe, serverVars, accessVars, grantVars, connVars, tabVars, Without
  <2> QED
    BY <2>1, <2>2, <2>3, <2>4, KeepsGap
<1>11. ASSUME NEW c \in Conns, ReadUnsubscribe(c)  PROVE GapKept'
  <2>1. /\ tab'.conn = tab.conn /\ tab'.last = tab.last
        /\ tab'.resumed = tab.resumed \/ tab'.resumed = 0
        /\ tab'.missed = tab.missed
    BY <1>0, <1>11 DEF ReadUnsubscribe, serverVars, accessVars, grantVars, connVars, tabVars, Without
  <2>2. \A d \in Conns, e \in Events : Due(d, e)' => Due(d, e)
    BY <1>11 DEF ReadUnsubscribe, Due, serverVars, accessVars, grantVars, connVars, tabVars, Without
  <2>3. ASSUME NEW d \in Conns, NEW q \in Sent(d)', q.kind = "resume"
        PROVE  q \in Sent(d) \/ (0 < q.last /\ q.last <= tab.last)
    BY <1>0, <1>11, <2>3, ReadsShrink DEF ReadUnsubscribe
  <2>4. ASSUME NEW d \in Conns, NEW f \in Items(wire'[d]), f.kind = "resumed"
        PROVE  f \in Items(wire[d])
    BY <1>11, <2>4 DEF ReadUnsubscribe, serverVars, accessVars, grantVars, connVars, tabVars, Without
  <2> QED
    BY <2>1, <2>2, <2>3, <2>4, KeepsGap
<1>12. ASSUME NEW c \in Conns, Grant(c)  PROVE GapKept'
  <2>1. /\ tab'.conn = tab.conn /\ tab'.last = tab.last
        /\ tab'.resumed = tab.resumed \/ tab'.resumed = 0
        /\ tab'.missed = tab.missed
    BY <1>0, <1>12 DEF Grant, serverVars, accessVars, grantVars, connVars, tabVars, Without
  <2>2. \A d \in Conns, e \in Events : Due(d, e)' => Due(d, e)
    BY <1>12 DEF Grant, Due, serverVars, accessVars, grantVars, connVars, tabVars, Without
  <2>3. ASSUME NEW d \in Conns, NEW q \in Sent(d)', q.kind = "resume"
        PROVE  q \in Sent(d) \/ (0 < q.last /\ q.last <= tab.last)
    BY <1>12, <2>3 DEF Grant, Sent, serverVars, accessVars, grantVars, connVars, tabVars, Without
  <2>4. ASSUME NEW d \in Conns, NEW f \in Items(wire'[d]), f.kind = "resumed"
        PROVE  f \in Items(wire[d])
    BY <1>12, <2>4 DEF Grant, serverVars, accessVars, grantVars, connVars, tabVars, Without
  <2> QED
    BY <2>1, <2>2, <2>3, <2>4, KeepsGap
<1>13. ASSUME NEW c \in Conns, IndexGrant(c)  PROVE GapKept'
  <2>1. /\ tab'.conn = tab.conn /\ tab'.last = tab.last
        /\ tab'.resumed = tab.resumed \/ tab'.resumed = 0
        /\ tab'.missed = tab.missed
    BY <1>0, <1>13 DEF IndexGrant, serverVars, accessVars, grantVars, connVars, tabVars, Without
  <2>2. \A d \in Conns, e \in Events : Due(d, e)' => Due(d, e)
    BY <1>13 DEF IndexGrant, Due, serverVars, accessVars, grantVars, connVars, tabVars, Without
  <2>3. ASSUME NEW d \in Conns, NEW q \in Sent(d)', q.kind = "resume"
        PROVE  q \in Sent(d) \/ (0 < q.last /\ q.last <= tab.last)
    BY <1>13, <2>3 DEF IndexGrant, Sent, serverVars, accessVars, grantVars, connVars, tabVars, Without
  <2>4. ASSUME NEW d \in Conns, NEW f \in Items(wire'[d]), f.kind = "resumed"
        PROVE  f \in Items(wire[d])
    BY <1>13, <2>4 DEF IndexGrant, serverVars, accessVars, grantVars, connVars, tabVars, Without
  <2> QED
    BY <2>1, <2>2, <2>3, <2>4, KeepsGap
<1>14. ASSUME NEW c \in Conns, RenewFollowed(c)  PROVE GapKept'
  <2>1. /\ tab'.conn = tab.conn /\ tab'.last = tab.last
        /\ tab'.resumed = tab.resumed \/ tab'.resumed = 0
        /\ tab'.missed = tab.missed
    BY <1>0, <1>14 DEF RenewFollowed, serverVars, accessVars, grantVars, connVars, tabVars, Without
  <2>2. \A d \in Conns, e \in Events : Due(d, e)' => Due(d, e)
    BY <1>14 DEF RenewFollowed, Due, serverVars, accessVars, grantVars, connVars, tabVars, Without
  <2>3. ASSUME NEW d \in Conns, NEW q \in Sent(d)', q.kind = "resume"
        PROVE  q \in Sent(d) \/ (0 < q.last /\ q.last <= tab.last)
    BY <1>14, <2>3 DEF RenewFollowed, Sent, serverVars, accessVars, grantVars, connVars, tabVars, Without
  <2>4. ASSUME NEW d \in Conns, NEW f \in Items(wire'[d]), f.kind = "resumed"
        PROVE  f \in Items(wire[d])
    BY <1>14, <2>4 DEF RenewFollowed, serverVars, accessVars, grantVars, connVars, tabVars, Without
  <2> QED
    BY <2>1, <2>2, <2>3, <2>4, KeepsGap
<1>15. ASSUME NEW c \in Conns, NEW t \in Topics, Decide(c, t)  PROVE GapKept'
  <2>1. /\ tab'.conn = tab.conn /\ tab'.last = tab.last
        /\ tab'.resumed = tab.resumed \/ tab'.resumed = 0
        /\ tab'.missed = tab.missed
    BY <1>0, <1>15 DEF Decide, serverVars, accessVars, grantVars, connVars, tabVars, Without
  <2>2. \A d \in Conns, e \in Events : Due(d, e)' => Due(d, e)
    BY <1>15 DEF Decide, Due, serverVars, accessVars, grantVars, connVars, tabVars, Without
  <2>3. ASSUME NEW d \in Conns, NEW q \in Sent(d)', q.kind = "resume"
        PROVE  q \in Sent(d) \/ (0 < q.last /\ q.last <= tab.last)
    BY <1>15, <2>3 DEF Decide, Sent, serverVars, accessVars, grantVars, connVars, tabVars, Without
  <2>4. ASSUME NEW d \in Conns, NEW f \in Items(wire'[d]), f.kind = "resumed"
        PROVE  f \in Items(wire[d])
    BY <1>15, <2>4 DEF Decide, serverVars, accessVars, grantVars, connVars, tabVars, Without
  <2> QED
    BY <2>1, <2>2, <2>3, <2>4, KeepsGap
<1>16. ASSUME NEW c \in Conns, Write(c)  PROVE GapKept'
  <2>1. /\ tab'.conn = tab.conn /\ tab'.last = tab.last
        /\ tab'.resumed = tab.resumed \/ tab'.resumed = 0
        /\ tab'.missed = tab.missed
    BY <1>0, <1>16 DEF Write, serverVars, accessVars, grantVars, connVars, tabVars, Without
  <2>2. \A d \in Conns, e \in Events : Due(d, e)' => Due(d, e)
    BY <1>16 DEF Write, Due, serverVars, accessVars, grantVars, connVars, tabVars, Without
  <2>3. ASSUME NEW d \in Conns, NEW q \in Sent(d)', q.kind = "resume"
        PROVE  q \in Sent(d) \/ (0 < q.last /\ q.last <= tab.last)
    BY <1>16, <2>3 DEF Write, Sent, serverVars, accessVars, grantVars, connVars, tabVars, Without
  <2>4. ASSUME NEW d \in Conns, NEW f \in Items(wire'[d]), f.kind = "resumed"
        PROVE  f \in Items(wire[d])
    <3>1. /\ wire[d] \in Seq(Frames) /\ sendq[c] \in Seq(Events) /\ sendq[c] # <<>>
          /\ wire'[d] = wire[d] \/ wire'[d] = Append(wire[d], [kind |-> "event", event |-> Head(sendq[c])])
      BY <1>0, <1>16 DEF Write, ConnTypes
    <3>2. [kind |-> "event", event |-> Head(sendq[c])] \in Frames
      <4>1. Head(sendq[c]) \in Events
        BY <3>1
      <4> QED
        BY <4>1 DEF Frames
    <3>3. CASE wire'[d] = wire[d]
      BY <2>4, <3>3
    <3>4. CASE wire'[d] = Append(wire[d], [kind |-> "event", event |-> Head(sendq[c])])
      <4>1. f \in Items(wire[d]) \/ f = [kind |-> "event", event |-> Head(sendq[c])]
        BY <2>4, <3>1, <3>2, <3>4, FrameAdded
      <4> QED
        BY <2>4, <4>1
    <3> QED
      BY <3>1, <3>3, <3>4
  <2> QED
    BY <2>1, <2>2, <2>3, <2>4, KeepsGap
<1>17. ASSUME NEW c \in Conns, Release(c)  PROVE GapKept'
  <2>1. /\ tab'.conn = tab.conn /\ tab'.last = tab.last
        /\ tab'.resumed = tab.resumed \/ tab'.resumed = 0
        /\ tab'.missed = tab.missed
    BY <1>0, <1>17 DEF Release, serverVars, accessVars, grantVars, connVars, tabVars, Without
  <2>2. \A d \in Conns, e \in Events : Due(d, e)' => Due(d, e)
    BY <1>17 DEF Release, Due, serverVars, accessVars, grantVars, connVars, tabVars, Without
  <2>3. ASSUME NEW d \in Conns, NEW q \in Sent(d)', q.kind = "resume"
        PROVE  q \in Sent(d) \/ (0 < q.last /\ q.last <= tab.last)
    <3>1. commands'[d] = commands[d] \/ commands'[d] = <<>>
      BY <1>0, <1>17 DEF Release, ConnTypes
    <3>2. Items(<<>>) = {}
      BY DEF Items
    <3> QED
      BY <2>3, <3>1, <3>2 DEF Sent
  <2>4. ASSUME NEW d \in Conns, NEW f \in Items(wire'[d]), f.kind = "resumed"
        PROVE  f \in Items(wire[d])
    BY <1>17, <2>4 DEF Release, serverVars, accessVars, grantVars, connVars, tabVars, Without
  <2> QED
    BY <2>1, <2>2, <2>3, <2>4, KeepsGap
<1>18. ASSUME Connect  PROVE GapKept'
  <2>1. /\ tab'.conn = tab.conn + 1 /\ tab'.conn \in Conns /\ tab'.last = tab.last
        /\ tab'.missed = tab.missed /\ tab'.resumed = 0
        /\ UNCHANGED <<known, owed, overtaken, commands>>
        /\ wire' = [wire EXCEPT ![tab.conn + 1] = <<[kind |-> "ready"]>>]
    BY <1>0, <1>18, TabConnects DEF Connect
  <2>2. ResumesBehind'
    BY <2>1 DEF ResumesBehind, Sent
  <2>3. PositionBehind'
    BY <2>1 DEF PositionBehind, Due
  <2>4. AnswersTell'
    <3>1. wire'[tab'.conn] = <<[kind |-> "ready"]>>
      BY <1>0, <2>1 DEF ConnTypes
    <3>2. \A f \in Items(<<[kind |-> "ready"]>>) : f.kind # "resumed"
      BY DEF Items
    <3> QED
      BY <3>1, <3>2 DEF AnswersTell
  <2> QED
    BY <2>2, <2>3, <2>4
<1>19. ASSUME HandleReady  PROVE GapKept'
  <2>1. /\ tab'.conn = tab.conn /\ tab'.last = tab.last
        /\ tab'.resumed = tab.resumed \/ tab'.resumed = 0
        /\ tab'.missed = tab.missed
    BY <1>0, <1>19, TabReceives DEF HandleReady, serverVars, accessVars, grantVars, connVars, tabVars, Without
  <2>2. \A d \in Conns, e \in Events : Due(d, e)' => Due(d, e)
    BY <1>19 DEF HandleReady, Due, serverVars, accessVars, grantVars, connVars, tabVars, Without
  <2>3. ASSUME NEW d \in Conns, NEW q \in Sent(d)', q.kind = "resume"
        PROVE  q \in Sent(d) \/ (0 < q.last /\ q.last <= tab.last)
    <3>1. tab.last \in Nat
      BY <1>0, TabShape, Numbers
    <3> QED
      BY <1>0, <1>19, <2>3, <3>1, ReadyAdds
  <2>4. ASSUME NEW d \in Conns, NEW f \in Items(wire'[d]), f.kind = "resumed"
        PROVE  f \in Items(wire[d])
    BY <1>0, <1>19, <2>4, FrameTaken DEF HandleReady
  <2> QED
    BY <2>1, <2>2, <2>3, <2>4, KeepsGap
<1>20. ASSUME HandleEvent  PROVE GapKept'
  <2> DEFINE head == Head(wire[tab.conn]).event
  <2>1. /\ tab'.conn = tab.conn /\ tab'.resumed = tab.resumed /\ tab'.missed = tab.missed
        /\ tab'.last = IF head > tab.last THEN head ELSE tab.last
    BY <1>0, <1>20, TabReceives
  <2>2. /\ UNCHANGED <<owed, commands>> /\ known' = known \cup {head}
        /\ overtaken' = overtaken \cup PassedBy(head)
        /\ Receives("event")
    BY <1>20 DEF HandleEvent
  <2>3. /\ tab.conn \in Conns /\ wire[tab.conn] \in Seq(Frames) /\ wire[tab.conn] # <<>>
        /\ Head(wire[tab.conn]).kind = "event" /\ Head(wire[tab.conn]) \in Frames
    BY <1>0, <2>2, HeadFrame DEF Receives
  <2>4. head \in Nat /\ tab.last \in Nat /\ head \in OnWire(tab.conn)
    <3>1. head \in Events
      BY <2>3, FrameShapes
    <3>2. head \in OnWire(tab.conn)
      BY <2>3, TakesFrame DEF OnWire
    <3>3. tab.last \in 0..MaxEvents
      BY <1>0, TabShape
    <3>4. head \in Nat
      BY <3>1, Numbers
    <3>5. tab.last \in Nat
      BY <3>3, Numbers
    <3> QED
      BY <3>2, <3>4, <3>5
  <2>5. \A d \in Conns, e \in Events : Due(d, e)' => Due(d, e) /\ e # head
    BY <2>2 DEF Due
  <2>6. ASSUME NEW d \in Conns, NEW e \in Events, Due(d, e)', ~tab.missed
        PROVE  head < e
    <3>1. e \in Nat
      BY Numbers
    <3>2. CASE d = tab.conn
      <4>1. Reaches(d, e)
        BY <2>5, <2>6, <3>2 DEF OnTheWay
      <4>2. CASE e \in OnWire(d)
        <5>1. Before({head}, EventsOf(Tail(wire[d])), overtaken) /\ e \in EventsOf(Tail(wire[d]))
          <6>1. FramesInOrder(wire[d], overtaken)
            BY DEF Sequenced
          <6>2. Before({head}, EventsOf(Tail(wire[d])), overtaken)
            BY <2>3, <3>2, <6>1, TakesFrame
          <6>3. e \in EventsOf(Tail(wire[d]))
            BY <2>3, <2>5, <2>6, <3>2, <4>2, TakesFrame DEF OnWire
          <6> QED
            BY <6>2, <6>3
        <5>2. e \notin overtaken
          BY <2>5, <2>6 DEF Due
        <5> QED
          BY <5>1, <5>2 DEF Before
      <4>3. CASE e \notin OnWire(d)
        BY <2>4, <3>2, <4>1, <4>3 DEF Reaches
      <4> QED
        BY <4>2, <4>3
    <3>3. CASE d # tab.conn
      <4>1. ~(tab.resumed > 0)
        <5>1. tab.resumed = 0
          BY <2>5, <2>6, <3>3 DEF PositionBehind
        <5> QED
          BY <5>1
      <4>2. e \notin PassedBy(head) /\ <<d, e>> \in owed /\ e # head
        BY <2>2, <2>5, <2>6 DEF Due
      <4>3. ~(e < head)
        BY <3>3, <4>1, <4>2 DEF PassedBy
      <4> QED
        BY <2>4, <3>1, <4>2, <4>3
    <3> QED
      BY <3>2, <3>3
  <2> HIDE DEF head
  <2>7. ResumesBehind'
    <3>1. \A q \in Commands : q.kind = "resume" => q.last \in Nat
      BY CommandShapes
    <3>2. \A d \in Conns : Sent(d) \subseteq Commands /\ Sent(d)' = Sent(d)
      BY <1>0, <2>2 DEF ConnTypes, Sent, Items
    <3>3. ASSUME NEW n \in Nat, n <= tab.last  PROVE n <= tab'.last
      BY <2>1, <2>4, <3>3
    <3> QED
      BY <3>1, <3>2, <3>3 DEF ResumesBehind
  <2>8. PositionBehind'
    BY <2>1, <2>5, <2>6 DEF PositionBehind
  <2>9. AnswersTell'
    <3>1. \A d \in Conns : Items(wire'[d]) \subseteq Items(wire[d])
      BY <1>0, <2>2, FrameTaken
    <3> QED
      BY <2>1, <2>5, <3>1 DEF AnswersTell
  <2> QED
    BY <2>7, <2>8, <2>9
<1>21. ASSUME HandleResumed  PROVE GapKept'
  <2>1. /\ tab'.conn = tab.conn /\ tab'.last = tab.last
        /\ tab'.missed = (tab.missed \/ Head(wire[tab.conn]).gap)
        /\ UNCHANGED <<known, owed, overtaken, commands>> /\ Receives("resumed")
    BY <1>0, <1>21, TabReceives DEF HandleResumed
  <2>2. /\ tab.conn \in Conns /\ Head(wire[tab.conn]) \in Items(wire[tab.conn])
        /\ Head(wire[tab.conn]).kind = "resumed"
        /\ \A d \in Conns : Items(wire'[d]) \subseteq Items(wire[d])
    BY <1>0, <2>1, FrameTaken, HeadFrame DEF Receives
  <2>3. ResumesBehind'
    BY <2>1 DEF ResumesBehind, Sent
  <2>4. ASSUME NEW d \in Conns, NEW e \in Events, Due(d, e), ~tab'.missed
        PROVE  d = tab.conn
    BY <2>1, <2>2, <2>4 DEF AnswersTell
  <2>5. PositionBehind'
    BY <2>1, <2>4 DEF PositionBehind, Due
  <2>6. AnswersTell'
    BY <2>1, <2>4 DEF AnswersTell, Due
  <2> QED
    BY <2>3, <2>5, <2>6
<1>22. ASSUME RecoverFromGap  PROVE GapKept'
  <2>1. /\ tab'.conn = tab.conn /\ tab'.last = tab.last /\ tab'.resumed = tab.resumed
        /\ UNCHANGED <<owed, overtaken, commands, wire>>
        /\ known' = IF tab.missed THEN DOMAIN log ELSE known
    BY <1>0, <1>22, TabReceives DEF RecoverFromGap, connVars
  <2>2. \A d \in Conns, e \in Events : Due(d, e)' => Due(d, e) /\ ~tab.missed
    <3>1. \A p \in owed : p[2] \in DOMAIN log
      BY DEF HandedOver, Out
    <3> QED
      BY <2>1, <3>1 DEF Due
  <2>3. ResumesBehind'
    BY <2>1 DEF ResumesBehind, Sent
  <2>4. PositionBehind'
    BY <2>1, <2>2 DEF PositionBehind
  <2>5. AnswersTell'
    BY <2>1, <2>2 DEF AnswersTell
  <2> QED
    BY <2>3, <2>4, <2>5
<1>23. ASSUME Lose  PROVE GapKept'
  <2>1. /\ tab'.conn = tab.conn /\ tab'.last = tab.last
        /\ tab'.resumed = tab.resumed \/ tab'.resumed = 0
        /\ tab'.missed = tab.missed
    BY <1>0, <1>23, TabConnects DEF Lose, serverVars, accessVars, grantVars, connVars, tabVars, Without
  <2>2. \A d \in Conns, e \in Events : Due(d, e)' => Due(d, e)
    BY <1>23 DEF Lose, Due, serverVars, accessVars, grantVars, connVars, tabVars, Without
  <2>3. ASSUME NEW d \in Conns, NEW q \in Sent(d)', q.kind = "resume"
        PROVE  q \in Sent(d) \/ (0 < q.last /\ q.last <= tab.last)
    <3>1. commands'[d] = commands[d] \/ commands'[d] = <<>>
      BY <1>0, <1>23 DEF Lose, ConnTypes
    <3>2. Items(<<>>) = {}
      BY DEF Items
    <3> QED
      BY <2>3, <3>1, <3>2 DEF Sent
  <2>4. ASSUME NEW d \in Conns, NEW f \in Items(wire'[d]), f.kind = "resumed"
        PROVE  f \in Items(wire[d])
    <3>1. wire'[d] = wire[d] \/ wire'[d] = <<>>
      BY <1>0, <1>23 DEF Lose, ConnTypes
    <3>2. Items(<<>>) = {}
      BY DEF Items
    <3> QED
      BY <2>4, <3>1, <3>2
  <2> QED
    BY <2>1, <2>2, <2>3, <2>4, KeepsGap
<1>24. ASSUME NEW t \in Topics, Follow(t)  PROVE GapKept'
  <2>1. /\ tab'.conn = tab.conn /\ tab'.last = tab.last
        /\ tab'.resumed = tab.resumed \/ tab'.resumed = 0
        /\ tab'.missed = tab.missed
    BY <1>0, <1>24, TabConnects DEF Follow, serverVars, accessVars, grantVars, connVars, tabVars, Without
  <2>2. \A d \in Conns, e \in Events : Due(d, e)' => Due(d, e)
    BY <1>24 DEF Follow, Due, serverVars, accessVars, grantVars, connVars, tabVars, Without
  <2>3. ASSUME NEW d \in Conns, NEW q \in Sent(d)', q.kind = "resume"
        PROVE  q \in Sent(d) \/ (0 < q.last /\ q.last <= tab.last)
    <3>1. [kind |-> "subscribe", topics |-> {t}] \in Commands
      BY DEF Commands
    <3>2. q \in Sent(d) \/ q = [kind |-> "subscribe", topics |-> {t}]
      BY <1>0, <1>24, <2>3, <3>1, ToldAdds DEF Follow
    <3> QED
      BY <2>3, <3>2
  <2>4. ASSUME NEW d \in Conns, NEW f \in Items(wire'[d]), f.kind = "resumed"
        PROVE  f \in Items(wire[d])
    BY <1>24, <2>4 DEF Follow, serverVars, accessVars, grantVars, connVars, tabVars, Without
  <2> QED
    BY <2>1, <2>2, <2>3, <2>4, KeepsGap
<1>25. ASSUME NEW t \in Topics, Unfollow(t)  PROVE GapKept'
  <2>1. /\ tab'.conn = tab.conn /\ tab'.last = tab.last
        /\ tab'.resumed = tab.resumed \/ tab'.resumed = 0
        /\ tab'.missed = tab.missed
    BY <1>0, <1>25, TabConnects DEF Unfollow, serverVars, accessVars, grantVars, connVars, tabVars, Without
  <2>2. \A d \in Conns, e \in Events : Due(d, e)' => Due(d, e)
    BY <1>25 DEF Unfollow, Due, serverVars, accessVars, grantVars, connVars, tabVars, Without
  <2>3. ASSUME NEW d \in Conns, NEW q \in Sent(d)', q.kind = "resume"
        PROVE  q \in Sent(d) \/ (0 < q.last /\ q.last <= tab.last)
    <3>1. [kind |-> "unsubscribe", topics |-> {t}] \in Commands
      BY DEF Commands
    <3>2. q \in Sent(d) \/ q = [kind |-> "unsubscribe", topics |-> {t}]
      BY <1>0, <1>25, <2>3, <3>1, ToldAdds DEF Unfollow
    <3> QED
      BY <2>3, <3>2
  <2>4. ASSUME NEW d \in Conns, NEW f \in Items(wire'[d]), f.kind = "resumed"
        PROVE  f \in Items(wire[d])
    BY <1>25, <2>4 DEF Unfollow, serverVars, accessVars, grantVars, connVars, tabVars, Without
  <2> QED
    BY <2>1, <2>2, <2>3, <2>4, KeepsGap
<1>26. ASSUME NEW t \in Topics, Withdraw(t)  PROVE GapKept'
  <2>1. /\ tab'.conn = tab.conn /\ tab'.last = tab.last
        /\ tab'.resumed = tab.resumed \/ tab'.resumed = 0
        /\ tab'.missed = tab.missed
    BY <1>0, <1>26 DEF Withdraw, serverVars, accessVars, grantVars, connVars, tabVars, Without
  <2>2. \A d \in Conns, e \in Events : Due(d, e)' => Due(d, e)
    BY <1>26 DEF Withdraw, Due, serverVars, accessVars, grantVars, connVars, tabVars, Without
  <2>3. ASSUME NEW d \in Conns, NEW q \in Sent(d)', q.kind = "resume"
        PROVE  q \in Sent(d) \/ (0 < q.last /\ q.last <= tab.last)
    BY <1>26, <2>3 DEF Withdraw, Sent, serverVars, accessVars, grantVars, connVars, tabVars, Without
  <2>4. ASSUME NEW d \in Conns, NEW f \in Items(wire'[d]), f.kind = "resumed"
        PROVE  f \in Items(wire[d])
    BY <1>26, <2>4 DEF Withdraw, serverVars, accessVars, grantVars, connVars, tabVars, Without
  <2> QED
    BY <2>1, <2>2, <2>3, <2>4, KeepsGap
<1>27. ASSUME Tick  PROVE GapKept'
  <2>1. /\ tab'.conn = tab.conn /\ tab'.last = tab.last
        /\ tab'.resumed = tab.resumed \/ tab'.resumed = 0
        /\ tab'.missed = tab.missed
    BY <1>0, <1>27 DEF Tick, serverVars, accessVars, grantVars, connVars, tabVars, Without
  <2>2. \A d \in Conns, e \in Events : Due(d, e)' => Due(d, e)
    BY <1>27 DEF Tick, Due, serverVars, accessVars, grantVars, connVars, tabVars, Without
  <2>3. ASSUME NEW d \in Conns, NEW q \in Sent(d)', q.kind = "resume"
        PROVE  q \in Sent(d) \/ (0 < q.last /\ q.last <= tab.last)
    BY <1>27, <2>3 DEF Tick, Sent, serverVars, accessVars, grantVars, connVars, tabVars, Without
  <2>4. ASSUME NEW d \in Conns, NEW f \in Items(wire'[d]), f.kind = "resumed"
        PROVE  f \in Items(wire[d])
    BY <1>27, <2>4 DEF Tick, serverVars, accessVars, grantVars, connVars, tabVars, Without
  <2> QED
    BY <2>1, <2>2, <2>3, <2>4, KeepsGap
<1>28. CASE UNCHANGED vars
  BY <1>28, KeepsGap DEF vars, serverVars, connVars, tabVars, Due, Sent
<1>29. ASSUME NEW c \in Conns, DropRevoked(c)  PROVE GapKept'
  <2>1. /\ tab'.conn = tab.conn /\ tab'.last = tab.last
        /\ tab'.resumed = tab.resumed \/ tab'.resumed = 0
        /\ tab'.missed = tab.missed
    BY <1>0, <1>29 DEF DropRevoked, Discard, serverVars, accessVars, grantVars, connVars, tabVars, Without
  <2>2. \A d \in Conns, e \in Events : Due(d, e)' => Due(d, e)
    BY <1>29 DEF DropRevoked, Discard, Due, serverVars, accessVars, grantVars, connVars, tabVars, Without
  <2>3. ASSUME NEW d \in Conns, NEW q \in Sent(d)', q.kind = "resume"
        PROVE  q \in Sent(d) \/ (0 < q.last /\ q.last <= tab.last)
    BY <1>29, <2>3 DEF DropRevoked, Discard, Sent, serverVars, accessVars, grantVars, connVars, tabVars, Without
  <2>4. ASSUME NEW d \in Conns, NEW f \in Items(wire'[d]), f.kind = "resumed"
        PROVE  f \in Items(wire[d])
    BY <1>29, <2>4 DEF DropRevoked, Discard, serverVars, accessVars, grantVars, connVars, tabVars, Without
  <2> QED
    BY <2>1, <2>2, <2>3, <2>4, KeepsGap
<1>30. ASSUME NEW c \in Conns, DropUnsubscribed(c)  PROVE GapKept'
  <2>1. /\ tab'.conn = tab.conn /\ tab'.last = tab.last
        /\ tab'.resumed = tab.resumed \/ tab'.resumed = 0
        /\ tab'.missed = tab.missed
    BY <1>0, <1>30 DEF DropUnsubscribed, Discard, serverVars, accessVars, grantVars, connVars, tabVars, Without
  <2>2. \A d \in Conns, e \in Events : Due(d, e)' => Due(d, e)
    BY <1>30 DEF DropUnsubscribed, Discard, Due, serverVars, accessVars, grantVars, connVars, tabVars, Without
  <2>3. ASSUME NEW d \in Conns, NEW q \in Sent(d)', q.kind = "resume"
        PROVE  q \in Sent(d) \/ (0 < q.last /\ q.last <= tab.last)
    BY <1>30, <2>3 DEF DropUnsubscribed, Discard, Sent, serverVars, accessVars, grantVars, connVars, tabVars, Without
  <2>4. ASSUME NEW d \in Conns, NEW f \in Items(wire'[d]), f.kind = "resumed"
        PROVE  f \in Items(wire[d])
    BY <1>30, <2>4 DEF DropUnsubscribed, Discard, serverVars, accessVars, grantVars, connVars, tabVars, Without
  <2> QED
    BY <2>1, <2>2, <2>3, <2>4, KeepsGap
<1>31. ASSUME NEW c \in Conns, NEW t \in Topics, FindFollowed(c, t)  PROVE GapKept'
  <2>1. /\ tab'.conn = tab.conn /\ tab'.last = tab.last
        /\ tab'.resumed = tab.resumed \/ tab'.resumed = 0
        /\ tab'.missed = tab.missed
    BY <1>0, <1>31 DEF FindFollowed, serverVars, accessVars, grantVars, connVars, tabVars, Without
  <2>2. \A d \in Conns, e \in Events : Due(d, e)' => Due(d, e)
    BY <1>31 DEF FindFollowed, Due, serverVars, accessVars, grantVars, connVars, tabVars, Without
  <2>3. ASSUME NEW d \in Conns, NEW q \in Sent(d)', q.kind = "resume"
        PROVE  q \in Sent(d) \/ (0 < q.last /\ q.last <= tab.last)
    BY <1>31, <2>3 DEF FindFollowed, Sent, serverVars, accessVars, grantVars, connVars, tabVars, Without
  <2>4. ASSUME NEW d \in Conns, NEW f \in Items(wire'[d]), f.kind = "resumed"
        PROVE  f \in Items(wire[d])
    BY <1>31, <2>4 DEF FindFollowed, serverVars, accessVars, grantVars, connVars, tabVars, Without
  <2> QED
    BY <2>1, <2>2, <2>3, <2>4, KeepsGap
<1> QED
  BY <1>1, <1>2, <1>3, <1>4, <1>5, <1>6, <1>7, <1>8, <1>9, <1>10, <1>11, <1>12, <1>13, <1>14,
     <1>15, <1>16, <1>17, <1>18, <1>19, <1>20, <1>21, <1>22, <1>23, <1>24, <1>25, <1>26, <1>27,
     <1>28, <1>29, <1>30, <1>31, StepCases

(* What a connection of the tab owed and lost is reported by the answer to *)
(* "resume" of a later one: GapIsReported holds for any number of          *)
(* connections, events and topics.                                         *)
THEOREM GapsAreReported == Spec => []GapIsReported
<1> DEFINE GapInv == TypeOK /\ Placed /\ Lined /\ OnTheWay /\ GapKept
<1>1. Init => GapInv
  <2> SUFFICES ASSUME Init PROVE GapInv
    OBVIOUS
  <2>1. TypeOK /\ Placed
    BY TypeInit, PlacedInit
  <2>2. /\ log = <<>> /\ publishing = {} /\ inbox = <<>> /\ thread.pc = "idle"
        /\ \A c \in Conns : sendq[c] = <<>> /\ wire[c] = <<>> /\ commands[c] = <<>>
        /\ owed = {} /\ up = {} /\ tab.last = 0
    BY ThreadShapes DEF Init, NewTab
  <2>3. Items(<<>>) = {} /\ EventsOf(<<>>) = {}
    BY DEF Items, EventsOf, IsEvent
  <2>4. Lined
    BY <2>2, <2>3 DEF Lined, HandedOver, Sequenced, Waiting, Queued, OnWire, AtThread,
                      InOrder, FramesInOrder, Before
  <2>5. OnTheWay
    BY <2>2 DEF OnTheWay, Due
  <2>6. GapKept
    BY <2>2, <2>3 DEF GapKept, ResumesBehind, PositionBehind, AnswersTell, Sent, Due
  <2> QED
    BY <2>1, <2>4, <2>5, <2>6
<1>2. GapInv /\ [Next]_vars => GapInv'
  <2> SUFFICES ASSUME GapInv, [Next]_vars PROVE GapInv'
    OBVIOUS
  <2>1. TypeOK' /\ Placed' /\ Lined'
    BY TypeStep, PlacedStep, LinedStep
  <2>2. OnTheWay' /\ GapKept'
    BY <2>1, WayStep, GapStep
  <2> QED
    BY <2>1, <2>2
<1>3. GapInv => GapIsReported
  <2> SUFFICES ASSUME GapInv, NEW p \in owed, tab.resumed > 0, p[1] # tab.conn,
                      p[2] \notin known, p[2] \notin overtaken
               PROVE  tab.missed
    BY TabShape, TypeParts DEF GapIsReported
  <2>1. p[1] \in Conns /\ p[2] \in Events /\ p = <<p[1], p[2]>>
    BY DEF TypeOK
  <2>2. Due(p[1], p[2])
    BY <2>1 DEF Due
  <2> QED
    BY <2>1, <2>2 DEF GapKept, PositionBehind
<1> QED
  BY <1>1, <1>2, <1>3, PTL DEF Spec

=============================================================================
