--------------------------- MODULE Conversation ---------------------------
(***************************************************************************)
(* One assistant conversation: questions sent and answers stored as        *)
(* messages, the row's counters and title, the owner's renaming, archiving *)
(* and deletion, and what each asking browser shows (services/assistant.py *)
(* repositories/conversation.py, api/v1/assistant/router.py and the web    *)
(* hook use-assistant.ts).  A question is asked in one of three ways:      *)
(*   "send"     the whole answer in the response, both messages together;  *)
(*   "stream"   the question stored first, then fragments, then the answer;*)
(*   "unstreamed"  the streaming endpoint with ASSISTANT_STREAMING_ENABLED *)
(*              off: the question first, then a whole answer.              *)
(* Each request works on its own copy of the row and writes only the       *)
(* columns that differ from it.  The answering pipeline is what module     *)
(* Reply promises of it; an answer is known by its question.               *)
(***************************************************************************)
EXTENDS Reply, FiniteSets, FiniteSetsExt

CONSTANTS
    Editors,        \* the owner's rename, archive and delete requests
    MaxMessages,    \* ASSISTANT_MAX_MESSAGES
    Ops,            \* bound: the kinds of edits made
    MaxMishaps      \* bound: requests that die of a lost database or process

EditOps == {"rename", "archive", "restore", "delete"}

ASSUME ConversationAssumption ==
    /\ {MaxMessages, MaxMishaps} \subseteq Nat
    /\ Ops \subseteq EditOps

VARIABLES
    row,       \* the conversation as stored
    messages,  \* the transcript
    ask,       \* each request: where it is, its copy of the row, its position
    screen,    \* what each asking browser shows
    edit,      \* each editing request
    mishaps

vars == <<reply, row, messages, ask, screen, edit, mishaps>>

Modes == {"send", "stream", "unstreamed"}
Untitled == "untitled"
Chosen   == "chosen"
Titles   == {Untitled, Chosen} \cup Asks      \* a derived title is its question's
Rows == [title : Titles, custom : BOOLEAN, status : {"active", "archived"},
         deleted : BOOLEAN, count : Nat]

NewRow == [title |-> Untitled, custom |-> FALSE, status |-> "active",
           deleted |-> FALSE, count |-> 0]

Question(a, at) == [at |-> at, ask |-> a, role |-> "user"]
Answer(a, at)   == [at |-> at, ask |-> a, role |-> "assistant"]

NoAsk == [pc |-> "idle", mode |-> "send", copy |-> NewRow, at |-> 0]
NoEdit == [pc |-> "idle", op |-> "rename", copy |-> NewRow]

Messages == [at : Nat \ {0}, ask : Asks, role : {"user", "assistant"}]

AskStates == [pc : {"idle", "number", "store", "advance", "refresh", "answering",
                    "storeAnswer", "advanceAnswer", "deliver", "done"},
              mode : Modes, copy : Rows, at : Nat]

EditStates == [pc : {"idle", "save", "done"}, op : EditOps, copy : Rows]

Init ==
    /\ ReplyInit
    /\ row = NewRow
    /\ messages = {}
    /\ ask = [a \in Asks |-> NoAsk]
    /\ screen = [a \in Asks |-> "waiting"]
    /\ edit = [e \in Editors |-> NoEdit]
    /\ mishaps = 0

----------------------------------------------------------------------------
(* Helpers. *)

Waiting(a) == screen[a] = "waiting"

Goto(a, pc) == ask' = [ask EXCEPT ![a].pc = pc]

\* The request is over, and what it knew with it.
Finish(a) == ask' = [ask EXCEPT ![a] = [NoAsk EXCEPT !.pc = "done"]]

\* A browser still there shows what it is told instead of the fragments.
Tell(a, told) == screen' = IF Waiting(a) THEN [screen EXCEPT ![a] = told] ELSE screen

\* A bug: the stream is closed without an error event.
RefuseSilently(a) == Finish(a) /\ UNCHANGED screen

Refuse(a) == Finish(a) /\ Tell(a, "error")

\* A bug: a position is not unique in its conversation.
TakenNever(at) == FALSE

Taken(at) == \E m \in messages : m.at = at

\* next_sequence
NextPosition ==
    IF messages = {} THEN 1 ELSE 1 + Max({m.at : m \in messages})

----------------------------------------------------------------------------
(* Asking. *)

\* The conversation must exist, be active, and have room for two messages.
Open(a, mode) ==
    /\ ask[a].pc = "idle"
    /\ IF row.deleted \/ row.status = "archived" \/ row.count + 2 > MaxMessages
       THEN Refuse(a) /\ UNCHANGED reply
       ELSE /\ ask' = [ask EXCEPT ![a] = [pc   |-> IF mode = "send" THEN "answering" ELSE "number",
                                          mode |-> mode, copy |-> row, at |-> 0]]
            /\ Start(a, mode = "stream")
            /\ UNCHANGED screen
    /\ UNCHANGED <<row, messages, edit, mishaps>>

\* The position is read in one statement and written in another.
Number(a) ==
    /\ ask[a].pc = "number"
    /\ ask' = [ask EXCEPT ![a].pc = "store", ![a].at = NextPosition]
    /\ UNCHANGED <<reply, row, messages, screen, edit, mishaps>>

\* A bug: the answer is appended where the transcript ends by now.
NewAtTheEnd(a) ==
    IF ask[a].mode = "send" THEN {Question(a, ask[a].at), Answer(a, ask[a].at + 1)}
    ELSE IF ask[a].pc = "store" THEN {Question(a, ask[a].at)}
    ELSE {Answer(a, NextPosition)}

\* What the request is about to store.
New(a) ==
    LET at == ask[a].at
    IN IF ask[a].mode = "send" THEN {Question(a, at), Answer(a, at + 1)}
       ELSE IF ask[a].pc = "store" THEN {Question(a, at)}
       ELSE {Answer(a, at + 1)}

\* A bug: the refused transaction is swallowed and the answer sent as final.
StoreSwallowing(a) ==
    /\ ask[a].pc \in {"store", "storeAnswer"}
    /\ IF \E m \in New(a) : Taken(m.at)
       THEN Goto(a, "deliver") /\ UNCHANGED messages
       ELSE /\ messages' = messages \cup New(a)
            /\ Goto(a, IF ask[a].pc = "store" THEN "advance" ELSE "advanceAnswer")
    /\ UNCHANGED <<reply, row, screen, edit, mishaps>>

\* add_messages: one transaction; a position already taken fails it whole.
Store(a) ==
    /\ ask[a].pc \in {"store", "storeAnswer"}
    /\ IF \E m \in New(a) : Taken(m.at)
       THEN Refuse(a) /\ UNCHANGED messages
       ELSE /\ messages' = messages \cup New(a)
            /\ Goto(a, IF ask[a].pc = "store" THEN "advance" ELSE "advanceAnswer")
            /\ UNCHANGED screen
    /\ UNCHANGED <<reply, row, edit, mishaps>>

\* An UPDATE of the columns that differ from the copy they were read into.
Saved(copy, changed) ==
    [c \in DOMAIN row |-> IF changed[c] # copy[c] THEN changed[c] ELSE row[c]]

\* _advance: the counter, and the first title unless the owner chose one.
Advanced(a) ==
    LET copy  == ask[a].copy
        added == IF ask[a].mode = "send" THEN 2 ELSE 1
        first == ~copy.custom /\ copy.count + added <= added
    IN [copy EXCEPT !.count = @ + added, !.title = IF first THEN a ELSE @]

Advance(a) ==
    /\ ask[a].pc \in {"advance", "advanceAnswer"}
    /\ row' = Saved(ask[a].copy, Advanced(a))
    /\ ask' = [ask EXCEPT ![a].copy = NewRow,
                          ![a].pc = IF ask[a].mode # "send" /\ ask[a].pc = "advance"
                                    THEN "refresh" ELSE "deliver"]
    /\ UNCHANGED <<reply, messages, screen, edit, mishaps>>

\* The committed row is read again, in another transaction, before the request
\* goes on to use it.
Refresh(a) ==
    /\ ask[a].pc = "refresh"
    /\ ask' = [ask EXCEPT ![a].copy = row, ![a].pc = "answering"]
    /\ UNCHANGED <<reply, row, messages, screen, edit, mishaps>>

\* A step of the pipeline; a run suspended at an event it handed over goes on
\* only while somebody reads.
Run(a) ==
    /\ ask[a].pc = "answering"
    /\ reply[a].handed => Waiting(a)
    /\ \/ (Hand(a) \/ Work(a)) /\ UNCHANGED <<ask, screen>>
       \/ /\ End(a, "answered")
          /\ Goto(a, IF ask[a].mode = "send" THEN "number" ELSE "storeAnswer")
          /\ UNCHANGED screen
       \/ (End(a, "rejected") \/ End(a, "failed")) /\ Refuse(a)
    /\ UNCHANGED <<row, messages, edit, mishaps>>

\* The outcome reaches the browser, which is of the server's release and can
\* read every frame of it.
Deliver(a) ==
    /\ ask[a].pc = "deliver"
    /\ Finish(a)
    /\ Tell(a, "final")
    /\ UNCHANGED <<reply, row, messages, edit, mishaps>>

----------------------------------------------------------------------------
(* The browser, the owner's other requests, and mishaps. *)

\* The tab is closed, or its connection lost.
Leave(a) ==
    /\ ask[a].pc \notin {"idle", "done"}
    /\ Waiting(a)
    /\ Tell(a, "left")
    /\ UNCHANGED <<reply, row, messages, ask, edit, mishaps>>

\* A stream nobody reads is closed where it stands.
Close(a) ==
    /\ ask[a].pc = "answering"
    /\ reply[a].handed /\ ~Waiting(a)
    /\ Finish(a)
    /\ UNCHANGED <<reply, row, messages, screen, edit, mishaps>>

Mishap(a) ==
    /\ ask[a].pc \notin {"idle", "done"}
    /\ mishaps < MaxMishaps
    /\ mishaps' = mishaps + 1
    /\ Refuse(a)
    /\ UNCHANGED <<reply, row, messages, edit>>

Changed(copy, op) ==
    CASE op = "rename"  -> [copy EXCEPT !.title = Chosen, !.custom = TRUE]
      [] op = "archive" -> [copy EXCEPT !.status = "archived"]
      [] op = "restore" -> [copy EXCEPT !.status = "active"]
      [] op = "delete"  -> [copy EXCEPT !.deleted = TRUE]

LoadEdit(e, op) ==
    /\ edit[e].pc = "idle"
    /\ ~row.deleted
    /\ edit' = [edit EXCEPT ![e] = [pc |-> "save", op |-> op, copy |-> row]]
    /\ UNCHANGED <<reply, row, messages, ask, screen, mishaps>>

SaveEdit(e) ==
    /\ edit[e].pc = "save"
    /\ row' = Saved(edit[e].copy, Changed(edit[e].copy, edit[e].op))
    /\ edit' = [edit EXCEPT ![e] = [NoEdit EXCEPT !.pc = "done"]]
    /\ UNCHANGED <<reply, messages, ask, screen, mishaps>>

Serve(a) == Number(a) \/ Store(a) \/ Advance(a) \/ Refresh(a) \/ Run(a) \/ Deliver(a) \/ Close(a)

Next ==
    \/ \E a \in Asks : \/ \E mode \in Modes : Open(a, mode)
                       \/ Serve(a) \/ Leave(a) \/ Mishap(a)
    \/ \E e \in Editors : SaveEdit(e) \/ \E op \in Ops : LoadEdit(e, op)

Spec == Init /\ [][Next]_vars

\* A thread serves each request to its end: a provider call is bounded by its
\* timeout and its attempts, a reply by LLM_MAX_OUTPUT_TOKENS.
FairSpec == Spec /\ WF_vars(\E a \in Asks : Serve(a))

----------------------------------------------------------------------------
(* Properties. *)

TypeOK ==
    /\ ReplyTypeOK
    /\ row \in Rows
    /\ messages \subseteq Messages
    /\ ask \in [Asks -> AskStates]
    /\ screen \in [Asks -> {"waiting", "final", "error", "left"}]
    /\ edit \in [Editors -> EditStates]
    /\ mishaps \in 0..MaxMishaps

\* Every stored answer stands right after the question it answers, however
\* many browsers ask in the conversation at once: the transcript can be read
\* as exchanges (services/assistant.py _persist_answer).
AnswerFollowsQuestion ==
    \A m \in messages : m.role = "assistant" =>
        \E q \in messages : q.role = "user" /\ q.ask = m.ask /\ q.at = m.at - 1

\* An answer a browser was given as final is in the transcript: it is stored
\* before the final event is sent (stream_message).
FinalIsStored ==
    \A a \in Asks : screen[a] = "final" =>
        \E m \in messages : m.ask = a /\ m.role = "assistant"

\* The row never counts a message the transcript does not hold, and no two
\* messages share a position (_advance, add_messages).
CountIsCovered ==
    /\ row.count <= Cardinality(messages)
    /\ \A m, n \in messages : m.at = n.at => m = n

\* A title the owner chose is the title shown: "automatic titling never
\* overwrites a title someone chose" (models/conversation.py).
ChosenTitleIsKept == row.custom => row.title = Chosen

\* Whoever asks and stays is given the answer or an error
\* (services/assistant.py, use-assistant.ts).
EveryAskIsTold ==
    \A a \in Asks : ask[a].pc # "idle" ~> ~Waiting(a)
===========================================================================
