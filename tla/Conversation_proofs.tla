------------------------- MODULE Conversation_proofs -------------------------
(***************************************************************************)
(* What module Conversation states of the transcript, for any number of    *)
(* browsers and editors: an answer stands after its question, a final      *)
(* answer is stored, and the row counts no message that is not there.      *)
(* Then the pipeline that answers, for texts of any length and any number  *)
(* of passages: a run of Answering is one of Reply, and what it shows,     *)
(* cites and reads is as that module states it.                            *)
(***************************************************************************)
EXTENDS Conversation, Answering, Sequences, FiniteSetTheorems, WellFoundedInduction, TLAPS

(* Of its own messages, a request between two steps knows the question to  *)
(* be stored, and then the answer; of the counter, that with what it has   *)
(* stored and not yet counted it is covered.                               *)
Uncounted(a) ==
    CASE ask[a].pc = "advance"       -> IF ask[a].mode = "send" THEN 2 ELSE 1
      [] ask[a].pc = "advanceAnswer" -> 1
      [] OTHER                       -> 0

AskOK(a) ==
    /\ ask[a].copy.count + Uncounted(a) <= Cardinality(messages)
    /\ /\ ask[a].mode # "send"
       /\ ask[a].pc \in {"advance", "refresh", "answering", "storeAnswer"}
       => Question(a, ask[a].at) \in messages
    /\ \/ ask[a].mode = "send" /\ ask[a].pc = "advance"
       \/ ask[a].pc \in {"advanceAnswer", "deliver"}
       => \E m \in messages : m.ask = a /\ m.role = "assistant"
    /\ ask[a].mode = "send" => ask[a].pc \notin {"refresh", "storeAnswer", "advanceAnswer"}
    /\ ask[a].pc \in {"store", "advance", "storeAnswer", "advanceAnswer"} => ask[a].at # 0

ConversationInv ==
    /\ TypeOK
    /\ IsFiniteSet(messages)
    /\ AnswerFollowsQuestion
    /\ FinalIsStored
    /\ CountIsCovered
    /\ \A a \in Asks : AskOK(a)

LEMMA SavedCount ==
    ASSUME NEW copy \in Rows, NEW changed \in Rows, row \in Rows
    PROVE  /\ Saved(copy, changed) \in Rows
           /\ Saved(copy, changed).count = IF changed.count # copy.count THEN changed.count
                                           ELSE row.count
  BY DEF Saved, Rows

-----------------------------------------------------------------------------
(* A finite, nonempty set of integers has a greatest element: a smallest   *)
(* set without one would have one as soon as an element is taken away.     *)
LEMMA FiniteHasGreatest ==
    ASSUME NEW S \in SUBSET Int, IsFiniteSet(S), S # {}
    PROVE  \E x \in S : \A y \in S : x >= y
<1> DEFINE HasGreatest(T) == \E x \in T : \A y \in T : x >= y
<1> DEFINE Bad == {T \in FiniteSubsetsOf(S) : T # {} /\ ~HasGreatest(T)}
<1>1. S \in FiniteSubsetsOf(S)
  BY DEF FiniteSubsetsOf
<1>2. SUFFICES ASSUME Bad # {} PROVE FALSE
  BY <1>1
<1>3. PICK T \in Bad : \A U \in Bad : <<U, T>> \notin StrictSubsetOrdering(S)
  <2>1. Bad \subseteq FiniteSubsetsOf(S)
    OBVIOUS
  <2> HIDE DEF Bad
  <2> QED
    BY <1>2, <2>1, FS_StrictSubsetOrderingWellFounded, WFMin
<1>4. T \subseteq S /\ IsFiniteSet(T) /\ T # {} /\ ~HasGreatest(T)
  BY DEF FiniteSubsetsOf
<1>5. PICK x \in T : TRUE
  BY <1>4
<1> DEFINE U == T \ {x}
<1>6. U \subseteq S /\ IsFiniteSet(U) /\ U # T
  BY <1>4, <1>5, FS_RemoveElement
<1>7. <<U, T>> \in StrictSubsetOrdering(S)
  BY <1>4, <1>6 DEF StrictSubsetOrdering
<1>8. U = {} \/ HasGreatest(U)
  <2>1. U \notin Bad
    BY <1>3, <1>7
  <2> QED
    BY <1>6, <2>1 DEF FiniteSubsetsOf
<1>9. CASE U = {}
  <2>1. \A y \in T : y = x
    BY <1>9
  <2>2. x \in Int
    BY <1>4, <1>5
  <2> QED
    BY <1>4, <1>5, <2>1, <2>2
<1>10. CASE HasGreatest(U)
  <2>1. PICK y \in U : \A z \in U : y >= z
    BY <1>10
  <2>2. x \in Int /\ y \in Int /\ y \in T /\ (\A z \in T : z \in Int)
    BY <1>4, <1>5
  <2>3. CASE x >= y
    <3>1. \A z \in T : x >= z
      BY <2>1, <2>2, <2>3
    <3> QED
      BY <1>4, <1>5, <3>1
  <2>4. CASE ~(x >= y)
    <3>1. \A z \in T : y >= z
      BY <2>1, <2>2, <2>4
    <3> QED
      BY <1>4, <2>2, <3>1
  <2> QED
    BY <2>3, <2>4
<1> QED
  BY <1>8, <1>9, <1>10

LEMMA PositionIsNew ==
    ASSUME TypeOK, IsFiniteSet(messages)
    PROVE  NextPosition \in Nat \ {0}
<1> DEFINE taken == {m.at : m \in messages}
<1>1. taken \subseteq Nat \ {0}
  BY DEF TypeOK, Messages
<1>2. CASE messages = {}
  BY <1>2 DEF NextPosition
<1>3. CASE messages # {}
  <2>1. IsFiniteSet(taken)
    <3>1. [m \in messages |-> m.at] \in Surjection(messages, taken)
      BY DEF Surjection
    <3> HIDE DEF taken
    <3> QED
      BY <3>1, FS_Surjection
  <2>2. taken # {}
    BY <1>3
  <2>3. taken \in SUBSET Int
    BY <1>1
  <2>4. \E x \in taken : \A y \in taken : x >= y
    <3> HIDE DEF taken
    <3> QED
      BY <2>1, <2>2, <2>3, FiniteHasGreatest
  <2>5. Max(taken) \in taken
    <3> HIDE DEF taken
    <3> QED
      BY <2>4 DEF Max
  <2>6. NextPosition = 1 + Max(taken)
    BY <1>3 DEF NextPosition
  <2>7. \E g \in Nat : NextPosition = 1 + g
    <3> HIDE DEF taken
    <3> QED
      BY <1>1, <2>5, <2>6, Zenon
  <2> QED
    BY <2>7
<1> QED
  BY <1>2, <1>3

-----------------------------------------------------------------------------
(* Records, one fact at a time. *)

LEMMA RowFacts ==
    /\ NewRow \in Rows /\ NewRow.count = 0
    /\ NoAsk \in AskStates /\ NoEdit \in EditStates
<1>1. NewRow \in Rows /\ NewRow.count = 0
  <2>1. Untitled \in Titles
    BY DEF Titles
  <2>2. NewRow.count = 0
    BY DEF NewRow
  <2>3. NewRow \in Rows
    BY <2>1 DEF NewRow, Rows
  <2> QED
    BY <2>2, <2>3
<1>2. NoAsk \in AskStates
  BY <1>1 DEF NoAsk, AskStates, Modes
<1>3. NoEdit \in EditStates
  BY <1>1 DEF NoEdit, EditStates, EditOps
<1> QED
  BY <1>1, <1>2, <1>3

LEMMA DoneFacts ==
    /\ [NoAsk EXCEPT !.pc = "done"] \in AskStates
    /\ [NoAsk EXCEPT !.pc = "done"].pc = "done"
    /\ [NoAsk EXCEPT !.pc = "done"].mode = "send"
    /\ [NoAsk EXCEPT !.pc = "done"].copy.count = 0
  BY RowFacts DEF NoAsk, AskStates, Modes

LEMMA Grows ==
    ASSUME NEW S, IsFiniteSet(S), NEW x, x \notin S
    PROVE  /\ IsFiniteSet(S \cup {x})
           /\ Cardinality(S \cup {x}) = Cardinality(S) + 1
           /\ Cardinality(S) \in Nat
  BY FS_AddElement, FS_CardinalityType

LEMMA ReplyStep ==
    ASSUME ReplyTypeOK, NEW a \in Asks,
           \/ \E streamed \in BOOLEAN : Start(a, streamed)
           \/ Hand(a) \/ Work(a)
           \/ \E outcome \in Outcomes : End(a, outcome)
    PROVE  ReplyTypeOK'
<1>1. ASSUME NEW streamed \in BOOLEAN, Start(a, streamed) PROVE ReplyTypeOK'
  <2>1. 0 \in 0 .. MaxEvents
    BY ReplyAssumption
  <2>2. [NoReply EXCEPT !.phase = "running", !.streamed = streamed]
           \in [phase : {"idle", "running"} \cup Outcomes, streamed : BOOLEAN,
               events : 0 .. MaxEvents, handed : BOOLEAN]
    BY <2>1 DEF NoReply
  <2> QED
    BY <1>1, <2>2 DEF Start, ReplyTypeOK
<1>2. CASE Hand(a)
  <2>1. reply[a].events + 1 \in 0 .. MaxEvents
    BY <1>2, ReplyAssumption DEF Hand, ReplyTypeOK
  <2> QED
    BY <1>2, <2>1 DEF Hand, ReplyTypeOK
<1>3. CASE Work(a)
  BY <1>3 DEF Work, ReplyTypeOK
<1>4. ASSUME NEW outcome \in Outcomes, End(a, outcome) PROVE ReplyTypeOK'
  BY <1>4 DEF End, ReplyTypeOK
<1> QED
  BY <1>1, <1>2, <1>3, <1>4

-----------------------------------------------------------------------------
LEMMA InitConversation == Init => ConversationInv
<1> SUFFICES ASSUME Init PROVE ConversationInv
  OBVIOUS
<1>1. ReplyTypeOK
  BY ReplyAssumption DEF Init, ReplyInit, ReplyTypeOK, NoReply
<1>2. mishaps \in 0 .. MaxMishaps
  BY ConversationAssumption DEF Init
<1>3. TypeOK
  BY <1>1, <1>2, RowFacts DEF Init, TypeOK
<1>4. IsFiniteSet(messages) /\ Cardinality(messages) = 0
  BY FS_EmptySet DEF Init
<1>5. AnswerFollowsQuestion /\ FinalIsStored
  BY DEF Init, AnswerFollowsQuestion, FinalIsStored
<1>6. CountIsCovered
  BY <1>4, RowFacts DEF Init, CountIsCovered
<1>7. ASSUME NEW a \in Asks PROVE AskOK(a)
  <2>1. ask[a] = NoAsk
    BY DEF Init
  <2> QED
    BY <1>4, <2>1, RowFacts DEF AskOK, Uncounted, NoAsk
<1> QED
  BY <1>3, <1>4, <1>5, <1>6, <1>7 DEF ConversationInv

(* A step of one request that adds no message disturbs what is known of    *)
(* that request, and of the counter.                                       *)
LEMMA AskStep ==
    ASSUME ConversationInv, NEW a \in Asks, NEW s \in AskStates,
           ask' = [ask EXCEPT ![a] = s], UNCHANGED <<messages, edit>>,
           ReplyTypeOK', row' \in Rows, row'.count <= Cardinality(messages),
           screen' \in [Asks -> {"waiting", "final", "error", "left"}],
           \A b \in Asks : screen'[b] = "final" /\ screen[b] # "final" =>
               \E m \in messages : m.ask = b /\ m.role = "assistant",
           mishaps' \in 0 .. MaxMishaps,
           AskOK(a)'
    PROVE  ConversationInv'
<1>1. TypeOK'
  BY DEF ConversationInv, TypeOK
<1>2. IsFiniteSet(messages)' /\ AnswerFollowsQuestion' /\ CountIsCovered'
  BY DEF ConversationInv, AnswerFollowsQuestion, CountIsCovered
<1>3. FinalIsStored'
  BY DEF ConversationInv, FinalIsStored
<1>4. ASSUME NEW b \in Asks PROVE AskOK(b)'
  <2>1. CASE b = a
    BY <2>1
  <2>2. CASE b # a
    <3>1. ask'[b] = ask[b]
      BY <2>2 DEF ConversationInv, TypeOK
    <3>2. AskOK(b)
      BY DEF ConversationInv
    <3> QED
      BY <3>1, <3>2 DEF AskOK, Uncounted
  <2> QED
    BY <2>1, <2>2
<1> QED
  BY <1>1, <1>2, <1>3, <1>4 DEF ConversationInv

LEMMA FinishStep ==
    ASSUME ConversationInv, NEW a \in Asks, Finish(a), UNCHANGED <<messages, edit, row>>,
           ReplyTypeOK', mishaps' \in 0 .. MaxMishaps,
           \/ UNCHANGED screen
           \/ \E told \in {"error", "left"} : Tell(a, told)
           \/ Tell(a, "final") /\ \E m \in messages : m.ask = a /\ m.role = "assistant"
    PROVE  ConversationInv'
<1> DEFINE s == [NoAsk EXCEPT !.pc = "done"]
<1>1. s \in AskStates /\ ask' = [ask EXCEPT ![a] = s]
  BY DoneFacts DEF Finish
<1>2. row' \in Rows /\ row'.count <= Cardinality(messages)
  BY DEF ConversationInv, TypeOK, CountIsCovered
<1>3. screen' \in [Asks -> {"waiting", "final", "error", "left"}]
  BY DEF ConversationInv, TypeOK, Tell
<1>4. \A b \in Asks : screen'[b] = "final" /\ screen[b] # "final" =>
               \E m \in messages : m.ask = b /\ m.role = "assistant"
  BY DEF ConversationInv, TypeOK, Tell
<1>5. Cardinality(messages) \in Nat
  BY FS_CardinalityType DEF ConversationInv
<1>6. ask'[a] = s
  BY <1>1 DEF ConversationInv, TypeOK
<1>7. AskOK(a)'
  BY <1>5, <1>6, DoneFacts DEF AskOK, Uncounted
<1> HIDE DEF s
<1> QED
  BY <1>1, <1>2, <1>3, <1>4, <1>7, AskStep

LEMMA RefuseStep ==
    ASSUME ConversationInv, NEW a \in Asks, Refuse(a), UNCHANGED <<messages, edit, row>>,
           ReplyTypeOK', mishaps' \in 0 .. MaxMishaps
    PROVE  ConversationInv'
  BY FinishStep DEF Refuse

LEMMA MovedTo ==
    ASSUME NEW s \in AskStates,
           NEW pc \in {"idle", "number", "store", "advance", "refresh", "answering",
                       "storeAnswer", "advanceAnswer", "deliver", "done"}
    PROVE  /\ [s EXCEPT !.pc = pc] \in AskStates
           /\ [s EXCEPT !.pc = pc].pc = pc
           /\ [s EXCEPT !.pc = pc].mode = s.mode
           /\ [s EXCEPT !.pc = pc].copy = s.copy
           /\ [s EXCEPT !.pc = pc].at = s.at
  BY DEF AskStates

LEMMA CopyFacts ==
    ASSUME NEW s \in AskStates
    PROVE  /\ s.copy \in Rows /\ s.copy.count \in Nat /\ s.at \in Nat /\ s.mode \in Modes
  BY DEF AskStates, Rows

LEMMA OpenStep ==
    ASSUME ConversationInv, NEW a \in Asks, NEW mode \in Modes, Open(a, mode)
    PROVE  ConversationInv'
<1>t. TypeOK
  BY DEF ConversationInv
<1>0. row \in Rows /\ row.count \in Nat /\ row.count <= Cardinality(messages)
  BY DEF ConversationInv, TypeOK, CountIsCovered, Rows
<1>1. UNCHANGED <<row, messages, edit, mishaps>> /\ mishaps \in 0 .. MaxMishaps /\ ReplyTypeOK
  BY <1>t DEF Open, TypeOK
<1>2. CASE Refuse(a) /\ UNCHANGED reply
  <2>1. ReplyTypeOK'
    BY <1>1, <1>2 DEF ReplyTypeOK
  <2> QED
    BY <1>1, <1>2, <2>1, RefuseStep
<1>3. CASE /\ ask' = [ask EXCEPT ![a] = [pc   |-> IF mode = "send" THEN "answering" ELSE "number",
                                         mode |-> mode, copy |-> row, at |-> 0]]
           /\ Start(a, mode = "stream")
           /\ UNCHANGED screen
  <2> DEFINE s == [pc   |-> IF mode = "send" THEN "answering" ELSE "number",
                   mode |-> mode, copy |-> row, at |-> 0]
  <2>1. s \in AskStates
    BY <1>0 DEF AskStates
  <2>2. ask'[a] = s
    BY <1>t, <1>3 DEF TypeOK
  <2>3. AskOK(a)'
    BY <1>0, <1>1, <2>2 DEF AskOK, Uncounted
  <2>4. ReplyTypeOK'
    BY <1>1, <1>3, ReplyStep
  <2>5. screen' \in [Asks -> {"waiting", "final", "error", "left"}]
    BY <1>t, <1>3 DEF TypeOK
  <2> HIDE DEF s
  <2> QED
    BY <1>0, <1>1, <1>3, <2>1, <2>3, <2>4, <2>5, AskStep DEF s
<1> QED
  BY <1>1, <1>2, <1>3 DEF Open

(* The steps between two transactions. *)
LEMMA NumberStep ==
    ASSUME ConversationInv, NEW a \in Asks, Number(a)
    PROVE  ConversationInv'
<1> DEFINE n == NextPosition
<1> DEFINE s == [ask[a] EXCEPT !.pc = "store", !.at = n]
<1>t. TypeOK /\ AskOK(a) /\ ask[a] \in AskStates /\ n \in Nat \ {0}
  BY PositionIsNew DEF ConversationInv, TypeOK
<1>0. row \in Rows /\ row.count <= Cardinality(messages) /\ Cardinality(messages) \in Nat
  BY FS_CardinalityType DEF ConversationInv, TypeOK, CountIsCovered
<1>1. /\ UNCHANGED <<reply, row, messages, screen, edit, mishaps>>
      /\ ask[a].pc = "number" /\ ask' = [ask EXCEPT ![a] = s]
  BY DEF Number
<1> HIDE DEF n
<1>2. /\ s \in AskStates /\ s.pc = "store" /\ s.at = n
      /\ s.mode = ask[a].mode /\ s.copy = ask[a].copy
  BY <1>t DEF AskStates
<1> HIDE DEF s
<1>3. ask'[a] = s
  BY <1>t, <1>1 DEF TypeOK
<1>4. AskOK(a)'
  BY <1>t, <1>1, <1>2, <1>3 DEF AskOK, Uncounted
<1>5. /\ ReplyTypeOK' /\ row' \in Rows /\ mishaps' \in 0 .. MaxMishaps
      /\ screen' \in [Asks -> {"waiting", "final", "error", "left"}]
  BY <1>t, <1>1 DEF TypeOK, ReplyTypeOK
<1> QED
  BY <1>0, <1>1, <1>2, <1>4, <1>5, AskStep

LEMMA RunReplies ==
    ASSUME ConversationInv, NEW a \in Asks, Run(a)
    PROVE  ConversationInv'
<1>t. TypeOK /\ AskOK(a) /\ ask[a] \in AskStates /\ ReplyTypeOK /\ mishaps \in 0 .. MaxMishaps
  BY DEF ConversationInv, TypeOK
<1>0. row \in Rows /\ row.count <= Cardinality(messages) /\ Cardinality(messages) \in Nat
  BY FS_CardinalityType DEF ConversationInv, TypeOK, CountIsCovered
<1>1. ask[a].pc = "answering" /\ UNCHANGED <<row, messages, edit, mishaps>>
  BY DEF Run
<1>2. CASE (Hand(a) \/ Work(a)) /\ UNCHANGED <<ask, screen>>
  <2>1. ask' = [ask EXCEPT ![a] = ask[a]]
    BY <1>t, <1>2 DEF TypeOK
  <2>2. AskOK(a)'
    BY <1>t, <1>1, <1>2 DEF AskOK, Uncounted
  <2>3. ReplyTypeOK'
    BY <1>t, <1>2, ReplyStep
  <2>4. screen' \in [Asks -> {"waiting", "final", "error", "left"}]
    BY <1>t, <1>2 DEF TypeOK
  <2> QED
    BY <1>t, <1>0, <1>1, <1>2, <2>1, <2>2, <2>3, <2>4, AskStep
<1>3. CASE /\ End(a, "answered")
           /\ Goto(a, IF ask[a].mode = "send" THEN "number" ELSE "storeAnswer")
           /\ UNCHANGED screen
  <2> DEFINE pc == IF ask[a].mode = "send" THEN "number" ELSE "storeAnswer"
  <2> DEFINE s == [ask[a] EXCEPT !.pc = pc]
  <2>1. ask' = [ask EXCEPT ![a] = s]
    BY <1>3 DEF Goto
  <2>2. /\ s \in AskStates /\ s.pc = pc /\ s.at = ask[a].at
        /\ s.mode = ask[a].mode /\ s.copy = ask[a].copy
    <3>1. pc \in {"idle", "number", "store", "advance", "answering", "storeAnswer",
                  "advanceAnswer", "deliver", "done"}
      OBVIOUS
    <3> HIDE DEF pc
    <3> QED
      BY <1>t, <3>1 DEF AskStates
  <2> HIDE DEF s
  <2>3. ask'[a] = s
    BY <1>t, <2>1 DEF TypeOK
  <2>4. ask[a].mode # "send" => ask[a].at # 0
    <3>1. ask[a].mode # "send" => Question(a, ask[a].at) \in Messages
      BY <1>t, <1>1 DEF AskOK, TypeOK
    <3> QED
      BY <3>1 DEF Question, Messages
  <2>5. AskOK(a)'
    BY <1>t, <1>1, <2>2, <2>3, <2>4 DEF AskOK, Uncounted
  <2>6. ReplyTypeOK'
    BY <1>t, <1>3, ReplyStep DEF Outcomes
  <2>7. screen' \in [Asks -> {"waiting", "final", "error", "left"}]
    BY <1>t, <1>3 DEF TypeOK
  <2> QED
    BY <1>t, <1>0, <1>1, <1>3, <2>1, <2>2, <2>5, <2>6, <2>7, AskStep
<1>4. CASE (End(a, "rejected") \/ End(a, "failed")) /\ Refuse(a)
  <2>1. ReplyTypeOK'
    BY <1>t, <1>4, ReplyStep DEF Outcomes
  <2> QED
    BY <1>t, <1>1, <1>4, <2>1, RefuseStep
<1> QED
  BY <1>2, <1>3, <1>4 DEF Run

LEMMA AdvanceStep ==
    ASSUME ConversationInv, NEW a \in Asks, Advance(a)
    PROVE  ConversationInv'
<1> DEFINE copy == ask[a].copy
<1> DEFINE added == IF ask[a].mode = "send" THEN 2 ELSE 1
<1> DEFINE pc == IF ask[a].mode # "send" /\ ask[a].pc = "advance" THEN "refresh" ELSE "deliver"
<1>t. TypeOK /\ AskOK(a) /\ ask[a] \in AskStates /\ row \in Rows
  BY DEF ConversationInv, TypeOK
<1>0. copy \in Rows /\ copy.count \in Nat /\ Cardinality(messages) \in Nat
  BY <1>t, CopyFacts, FS_CardinalityType DEF ConversationInv
<1>1. /\ ask[a].pc \in {"advance", "advanceAnswer"}
      /\ row' = Saved(copy, Advanced(a))
      /\ ask' = [ask EXCEPT ![a].copy = NewRow, ![a].pc = pc]
      /\ UNCHANGED <<reply, messages, screen, edit, mishaps>>
  BY DEF Advance
<1>2. Advanced(a) \in Rows /\ Advanced(a).count = copy.count + added
  <2>1. \E title \in Titles :
           Advanced(a) = [copy EXCEPT !.count = copy.count + added, !.title = title]
    <3>1. copy.title \in Titles /\ a \in Titles
      BY <1>0 DEF Rows, Titles
    <3> QED
      BY <3>1 DEF Advanced
  <2>2. copy.count + added \in Nat
    BY <1>0
  <2> HIDE DEF copy, added
  <2> QED
    BY <1>0, <2>1, <2>2 DEF Rows
<1>3. row' \in Rows /\ row'.count = copy.count + added
  BY <1>t, <1>0, <1>1, <1>2, SavedCount
<1>4. copy.count + added <= Cardinality(messages)
  BY <1>t, <1>1 DEF AskOK, Uncounted
<1> DEFINE s == [ask[a] EXCEPT !.copy = NewRow, !.pc = pc]
<1>5. ask' = [ask EXCEPT ![a] = s]
  BY <1>1
<1>6. /\ s \in AskStates /\ s.pc = pc /\ s.copy = NewRow
      /\ s.at = ask[a].at /\ s.mode = ask[a].mode
  BY <1>t, RowFacts DEF AskStates
<1> HIDE DEF s
<1>7. ask'[a] = s
  BY <1>t, <1>5 DEF TypeOK
<1>8. AskOK(a)'
  <2>1. /\ ask'[a].pc = pc /\ ask'[a].mode = ask[a].mode /\ ask'[a].at = ask[a].at
        /\ ask'[a].copy.count <= Cardinality(messages) /\ ask'[a].copy.count \in Nat
        /\ messages' = messages
    BY <1>0, <1>1, <1>6, <1>7, RowFacts
  <2>2. CASE ask[a].mode # "send" /\ ask[a].pc = "advance"
    <3>1. pc = "refresh" /\ Question(a, ask[a].at) \in messages
      BY <1>t, <2>2 DEF AskOK
    <3> QED
      BY <2>1, <2>2, <3>1 DEF AskOK, Uncounted
  <2>3. CASE ask[a].mode = "send" \/ ask[a].pc = "advanceAnswer"
    <3>1. pc = "deliver" /\ \E m \in messages : m.ask = a /\ m.role = "assistant"
      BY <1>t, <1>1, <2>3 DEF AskOK
    <3> QED
      BY <2>1, <3>1 DEF AskOK, Uncounted
  <2> QED
    BY <1>1, <2>2, <2>3
<1>9. /\ ReplyTypeOK' /\ mishaps' \in 0 .. MaxMishaps
      /\ screen' \in [Asks -> {"waiting", "final", "error", "left"}]
  BY <1>t, <1>1 DEF TypeOK, ReplyTypeOK
<1> QED
  BY <1>1, <1>3, <1>4, <1>5, <1>6, <1>8, <1>9, AskStep

LEMMA RefreshStep ==
    ASSUME ConversationInv, NEW a \in Asks, Refresh(a)
    PROVE  ConversationInv'
<1> DEFINE s == [ask[a] EXCEPT !.copy = row, !.pc = "answering"]
<1>t. TypeOK /\ AskOK(a) /\ ask[a] \in AskStates /\ row \in Rows
  BY DEF ConversationInv, TypeOK
<1>0. row.count \in Nat /\ row.count <= Cardinality(messages) /\ Cardinality(messages) \in Nat
  BY <1>t, FS_CardinalityType DEF ConversationInv, CountIsCovered, Rows
<1>1. /\ ask[a].pc = "refresh" /\ ask' = [ask EXCEPT ![a] = s]
      /\ UNCHANGED <<reply, row, messages, screen, edit, mishaps>>
  BY DEF Refresh
<1>2. /\ s \in AskStates /\ s.pc = "answering" /\ s.copy = row
      /\ s.at = ask[a].at /\ s.mode = ask[a].mode
  BY <1>t DEF AskStates
<1> HIDE DEF s
<1>3. ask'[a] = s
  BY <1>t, <1>1 DEF TypeOK
<1>4. ask[a].mode # "send" /\ Question(a, ask[a].at) \in messages
  BY <1>t, <1>1 DEF AskOK
<1>5. AskOK(a)'
  BY <1>0, <1>1, <1>2, <1>3, <1>4 DEF AskOK, Uncounted
<1>6. /\ ReplyTypeOK' /\ mishaps' \in 0 .. MaxMishaps
      /\ screen' \in [Asks -> {"waiting", "final", "error", "left"}]
  BY <1>t, <1>1 DEF TypeOK, ReplyTypeOK
<1>7. row' \in Rows /\ row'.count <= Cardinality(messages)
  BY <1>t, <1>0, <1>1
<1> QED
  BY <1>1, <1>2, <1>5, <1>6, <1>7, AskStep

-----------------------------------------------------------------------------
(* The transcript grows. *)

(* An answer, and whatever stands before it, stays where it is.            *)
LEMMA GrownTranscript ==
    ASSUME ConversationInv, NEW a \in Asks, NEW s \in AskStates, NEW n \in {1, 2},
           ask' = [ask EXCEPT ![a] = s],
           messages \subseteq messages', messages' \subseteq Messages,
           IsFiniteSet(messages'), Cardinality(messages') = Cardinality(messages) + n,
           \A m1, m2 \in messages' : m1.at = m2.at => m1 = m2,
           \A m \in messages' \ messages : m.role = "assistant" =>
               \E q \in messages' : q.role = "user" /\ q.ask = m.ask /\ q.at = m.at - 1,
           UNCHANGED <<reply, row, screen, edit, mishaps>>,
           AskOK(a)'
    PROVE  ConversationInv'
<1>t. TypeOK /\ row.count \in Nat /\ Cardinality(messages) \in Nat
  BY FS_CardinalityType DEF ConversationInv, TypeOK, Rows
<1>1. TypeOK'
  BY <1>t DEF TypeOK, ReplyTypeOK
<1>2. AnswerFollowsQuestion' /\ FinalIsStored'
  BY DEF ConversationInv, AnswerFollowsQuestion, FinalIsStored
<1>3. CountIsCovered'
  BY <1>t DEF ConversationInv, CountIsCovered
<1>4. ASSUME NEW b \in Asks PROVE AskOK(b)'
  <2>1. CASE b = a
    BY <2>1
  <2>2. CASE b # a
    <3>1. ask'[b] = ask[b]
      BY <1>t, <2>2 DEF TypeOK
    <3>2. AskOK(b) /\ ask[b].copy.count \in Nat
      BY <1>t, CopyFacts DEF ConversationInv, TypeOK
    <3>3. ask[b].copy.count + Uncounted(b) <= Cardinality(messages')
      <4>1. Uncounted(b) \in Nat
        BY DEF Uncounted
      <4> QED
        BY <1>t, <3>2, <4>1 DEF AskOK
    <3> QED
      BY <3>1, <3>2, <3>3 DEF AskOK, Uncounted
  <2> QED
    BY <2>1, <2>2
<1> QED
  BY <1>1, <1>2, <1>3, <1>4 DEF ConversationInv

LEMMA MessageFacts ==
    ASSUME NEW a \in Asks, NEW at \in Nat \ {0}
    PROVE  /\ Question(a, at) \in Messages /\ Question(a, at).at = at
           /\ Question(a, at).ask = a /\ Question(a, at).role = "user"
           /\ Answer(a, at) \in Messages /\ Answer(a, at).at = at
           /\ Answer(a, at).ask = a /\ Answer(a, at).role = "assistant"
  BY DEF Question, Answer, Messages

LEMMA StoreStep ==
    ASSUME ConversationInv, NEW a \in Asks, Store(a)
    PROVE  ConversationInv'
<1> DEFINE at == ask[a].at
<1> DEFINE pc == IF ask[a].pc = "store" THEN "advance" ELSE "advanceAnswer"
<1> DEFINE s == [ask[a] EXCEPT !.pc = pc]
<1>t. TypeOK /\ AskOK(a) /\ ask[a] \in AskStates /\ messages \subseteq Messages
  BY DEF ConversationInv, TypeOK
<1>f. IsFiniteSet(messages) /\ Cardinality(messages) \in Nat
      /\ \A m1, m2 \in messages : m1.at = m2.at => m1 = m2
  BY FS_CardinalityType DEF ConversationInv, CountIsCovered
<1>0. /\ UNCHANGED <<reply, row, edit, mishaps>>
      /\ ask[a].pc \in {"store", "storeAnswer"}
      /\ at \in Nat \ {0} /\ at + 1 \in Nat \ {0} /\ (at + 1) - 1 = at /\ at + 1 # at
  BY <1>t, CopyFacts DEF Store, AskOK
<1>1. CASE Refuse(a) /\ UNCHANGED messages
  <2>1. ReplyTypeOK' /\ mishaps' \in 0 .. MaxMishaps
    BY <1>t, <1>0 DEF TypeOK, ReplyTypeOK
  <2> QED
    BY <1>0, <1>1, <2>1, RefuseStep
<1>2. CASE /\ ~\E m \in New(a) : Taken(m.at)
           /\ messages' = messages \cup New(a)
           /\ Goto(a, pc)
           /\ UNCHANGED screen
  <2>1. ask' = [ask EXCEPT ![a] = s]
    BY <1>2 DEF Goto
  <2>2. s \in AskStates /\ s.pc = pc /\ s.at = at /\ s.mode = ask[a].mode /\ s.copy = ask[a].copy
    <3>1. pc \in {"idle", "number", "store", "advance", "answering", "storeAnswer",
                  "advanceAnswer", "deliver", "done"}
      OBVIOUS
    <3> HIDE DEF pc
    <3> QED
      BY <1>t, <3>1 DEF AskStates
  <2> HIDE DEF s
  <2>3. /\ ask'[a].pc = pc /\ ask'[a].at = at /\ ask'[a].mode = ask[a].mode
        /\ ask'[a].copy = ask[a].copy /\ ask[a].copy.count \in Nat
    BY <1>t, <2>1, <2>2, CopyFacts DEF TypeOK
  <2> DEFINE Q == Question(a, at)
  <2> DEFINE A == Answer(a, at + 1)
  <2>4. /\ Q \in Messages /\ Q.at = at /\ Q.ask = a /\ Q.role = "user"
        /\ A \in Messages /\ A.at = at + 1 /\ A.ask = a /\ A.role = "assistant"
    BY <1>0, MessageFacts
  <2>5. \A m \in New(a) : \A k \in messages : k.at # m.at
    BY <1>2 DEF Taken
  <2>6. CASE ask[a].mode = "send"
    <3>1. pc = "advance" /\ messages' = (messages \cup {Q}) \cup {A} /\ Q \in New(a) /\ A \in New(a)
      BY <1>t, <1>0, <1>2, <2>6 DEF New, AskOK
    <3> HIDE DEF Q, A
    <3>2. \A k \in messages : k.at # at /\ k.at # at + 1
      BY <2>4, <2>5, <3>1
    <3>3. Q \notin messages /\ A \notin messages \cup {Q}
      BY <1>0, <2>4, <3>2
    <3>4. /\ IsFiniteSet(messages')
          /\ Cardinality(messages') = Cardinality(messages) + 2
      <4>1. /\ IsFiniteSet(messages \cup {Q})
            /\ Cardinality(messages \cup {Q}) = Cardinality(messages) + 1
        BY <1>f, <3>3, Grows
      <4>2. /\ IsFiniteSet((messages \cup {Q}) \cup {A})
            /\ Cardinality((messages \cup {Q}) \cup {A}) = Cardinality(messages \cup {Q}) + 1
        BY <3>3, <4>1, Grows
      <4>3. Cardinality(messages') = (Cardinality(messages) + 1) + 1
        BY <3>1, <4>1, <4>2
      <4> QED
        BY <1>f, <3>1, <4>2, <4>3
    <3>5. \A m1, m2 \in messages' : m1.at = m2.at => m1 = m2
      BY <1>0, <1>f, <2>4, <3>1, <3>2
    <3>6. \A m \in messages' \ messages : m.role = "assistant" =>
               \E q \in messages' : q.role = "user" /\ q.ask = m.ask /\ q.at = m.at - 1
      BY <1>0, <2>4, <3>1
    <3>7. AskOK(a)'
      BY <1>t, <1>0, <1>f, <2>3, <2>4, <2>6, <3>1, <3>4 DEF AskOK, Uncounted
    <3> QED
      BY <1>t, <1>0, <1>2, <2>1, <2>2, <2>4, <3>1, <3>4, <3>5, <3>6, <3>7, GrownTranscript
  <2>7. CASE ask[a].mode # "send" /\ ask[a].pc = "store"
    <3>1. pc = "advance" /\ messages' = messages \cup {Q} /\ Q \in New(a)
      BY <1>2, <2>7 DEF New
    <3> HIDE DEF Q
    <3>2. \A k \in messages : k.at # at
      BY <2>4, <2>5, <3>1
    <3>3. Q \notin messages
      BY <2>4, <3>2
    <3>4. /\ IsFiniteSet(messages')
          /\ Cardinality(messages') = Cardinality(messages) + 1
      BY <1>f, <3>1, <3>3, Grows
    <3>5. \A m1, m2 \in messages' : m1.at = m2.at => m1 = m2
      BY <1>f, <2>4, <3>1, <3>2
    <3>6. \A m \in messages' \ messages : m.role # "assistant"
      BY <2>4, <3>1
    <3>7. AskOK(a)'
      BY <1>t, <1>0, <1>f, <2>3, <2>4, <2>7, <3>1, <3>4 DEF AskOK, Uncounted, Q
    <3> QED
      BY <1>t, <1>0, <1>2, <2>1, <2>2, <2>4, <3>1, <3>4, <3>5, <3>6, <3>7, GrownTranscript
  <2>8. CASE ask[a].mode # "send" /\ ask[a].pc = "storeAnswer"
    <3>1. /\ pc = "advanceAnswer" /\ messages' = messages \cup {A} /\ A \in New(a)
          /\ Q \in messages
      BY <1>t, <1>2, <2>8 DEF New, AskOK
    <3> HIDE DEF A
    <3>2. \A k \in messages : k.at # at + 1
      BY <2>4, <2>5, <3>1
    <3>3. A \notin messages
      BY <2>4, <3>2
    <3>4. /\ IsFiniteSet(messages')
          /\ Cardinality(messages') = Cardinality(messages) + 1
      BY <1>f, <3>1, <3>3, Grows
    <3>5. \A m1, m2 \in messages' : m1.at = m2.at => m1 = m2
      BY <1>f, <2>4, <3>1, <3>2
    <3>6. \A m \in messages' \ messages : m.role = "assistant" =>
               \E q \in messages' : q.role = "user" /\ q.ask = m.ask /\ q.at = m.at - 1
      <4> HIDE DEF Q
      <4> QED
        BY <1>0, <2>4, <3>1
    <3>7. AskOK(a)'
      BY <1>t, <1>0, <1>f, <2>3, <2>4, <2>8, <3>1, <3>4 DEF AskOK, Uncounted
    <3> QED
      BY <1>t, <1>0, <1>2, <2>1, <2>2, <2>4, <3>1, <3>4, <3>5, <3>6, <3>7, GrownTranscript
  <2> QED
    BY <1>0, <2>6, <2>7, <2>8
<1> QED
  BY <1>1, <1>2 DEF Store

-----------------------------------------------------------------------------
LEMMA ChangedFacts ==
    ASSUME NEW copy \in Rows, NEW op \in EditOps
    PROVE  Changed(copy, op) \in Rows /\ Changed(copy, op).count = copy.count
<1>1. Chosen \in Titles
  BY DEF Titles
<1> QED
  BY <1>1 DEF Changed, Rows, EditOps

LEMMA EditStep ==
    ASSUME ConversationInv, NEW e \in Editors,
           SaveEdit(e) \/ \E op \in Ops : LoadEdit(e, op)
    PROVE  ConversationInv'
<1>t. TypeOK /\ row \in Rows /\ edit[e] \in EditStates
  BY DEF ConversationInv, TypeOK
<1>1. UNCHANGED <<reply, messages, ask, screen, mishaps>>
  BY DEF SaveEdit, LoadEdit
<1>2. ASSUME NEW op \in Ops, LoadEdit(e, op)
      PROVE  row' = row /\ edit' \in [Editors -> EditStates]
  <2>1. [pc |-> "save", op |-> op, copy |-> row] \in EditStates
    BY <1>t, ConversationAssumption DEF EditStates
  <2> QED
    BY <1>t, <1>2, <2>1 DEF LoadEdit, TypeOK
<1>3. ASSUME SaveEdit(e)
      PROVE  row' \in Rows /\ row'.count = row.count /\ edit' \in [Editors -> EditStates]
  <2>1. edit[e].copy \in Rows /\ edit[e].op \in EditOps
    BY <1>t DEF EditStates
  <2>2. row' = Saved(edit[e].copy, Changed(edit[e].copy, edit[e].op))
    BY <1>3 DEF SaveEdit
  <2>3. row' \in Rows /\ row'.count = row.count
    BY <1>t, <2>1, <2>2, ChangedFacts, SavedCount
  <2>4. [NoEdit EXCEPT !.pc = "done"] \in EditStates
    BY RowFacts DEF EditStates
  <2>5. edit' \in [Editors -> EditStates]
    BY <1>t, <1>3, <2>4 DEF SaveEdit, TypeOK
  <2> QED
    BY <2>3, <2>5
<1>4. row' \in Rows /\ row'.count = row.count /\ edit' \in [Editors -> EditStates]
  BY <1>t, <1>2, <1>3
<1>5. TypeOK'
  BY <1>t, <1>1, <1>4 DEF TypeOK, ReplyTypeOK
<1>6. IsFiniteSet(messages)' /\ AnswerFollowsQuestion' /\ FinalIsStored' /\ CountIsCovered'
  BY <1>1, <1>4 DEF ConversationInv, AnswerFollowsQuestion, FinalIsStored, CountIsCovered
<1>7. \A a \in Asks : AskOK(a)'
  BY <1>1 DEF ConversationInv, AskOK, Uncounted
<1> QED
  BY <1>5, <1>6, <1>7 DEF ConversationInv

LEMMA StepConversation == ConversationInv /\ [Next]_vars => ConversationInv'
<1> SUFFICES ASSUME ConversationInv, [Next]_vars PROVE ConversationInv'
  OBVIOUS
<1>t. TypeOK /\ ReplyTypeOK /\ mishaps \in 0 .. MaxMishaps
  BY DEF ConversationInv, TypeOK
<1>1. ASSUME NEW a \in Asks, NEW mode \in Modes, Open(a, mode) PROVE ConversationInv'
  BY <1>1, OpenStep
<1>2. ASSUME NEW a \in Asks, Serve(a) PROVE ConversationInv'
  <2>1. CASE Deliver(a)
    <3>1. /\ Finish(a) /\ Tell(a, "final") /\ UNCHANGED <<reply, row, messages, edit, mishaps>>
          /\ ask[a].pc = "deliver"
      BY <2>1 DEF Deliver
    <3>2. \E m \in messages : m.ask = a /\ m.role = "assistant"
      BY <3>1 DEF ConversationInv, AskOK
    <3>3. ReplyTypeOK'
      BY <1>t, <3>1 DEF ReplyTypeOK
    <3> QED
      BY <1>t, <3>1, <3>2, <3>3, FinishStep
  <2>2. CASE Close(a)
    <3>1. ReplyTypeOK'
      BY <1>t, <2>2 DEF Close, ReplyTypeOK
    <3> QED
      BY <1>t, <2>2, <3>1, FinishStep DEF Close
  <2> QED
    BY <1>2, <2>1, <2>2, NumberStep, StoreStep, AdvanceStep, RefreshStep, RunReplies DEF Serve
<1>3. ASSUME NEW a \in Asks, Leave(a) PROVE ConversationInv'
  <2>1. ask' = [ask EXCEPT ![a] = ask[a]] /\ ask[a] \in AskStates
    BY <1>t, <1>3 DEF Leave, TypeOK
  <2>2. ReplyTypeOK' /\ AskOK(a)'
    BY <1>t, <1>3 DEF Leave, ReplyTypeOK, ConversationInv, AskOK, Uncounted
  <2>3. screen' \in [Asks -> {"waiting", "final", "error", "left"}]
    BY <1>t, <1>3 DEF Leave, Tell, TypeOK
  <2>4. \A b \in Asks : screen'[b] = "final" => screen[b] = "final"
    BY <1>t, <1>3 DEF Leave, Tell, TypeOK
  <2>5. UNCHANGED <<row, messages, edit, mishaps>>
    BY <1>3 DEF Leave
  <2>6. row' \in Rows /\ row'.count <= Cardinality(messages)
    BY <1>t, <2>5 DEF ConversationInv, CountIsCovered, TypeOK
  <2> QED
    BY <1>t, <2>1, <2>2, <2>3, <2>4, <2>5, <2>6, AskStep
<1>4. ASSUME NEW a \in Asks, Mishap(a) PROVE ConversationInv'
  <2>1. mishaps' \in 0 .. MaxMishaps
    BY <1>t, <1>4, ConversationAssumption DEF Mishap
  <2>2. ReplyTypeOK'
    BY <1>t, <1>4 DEF Mishap, ReplyTypeOK
  <2> QED
    BY <1>4, <2>1, <2>2, RefuseStep DEF Mishap
<1>5. ASSUME NEW e \in Editors, SaveEdit(e) \/ \E op \in Ops : LoadEdit(e, op)
      PROVE  ConversationInv'
  BY <1>5, EditStep
<1>6. CASE UNCHANGED vars
  BY <1>6 DEF ConversationInv, vars, TypeOK, ReplyTypeOK, AnswerFollowsQuestion,
              FinalIsStored, CountIsCovered, AskOK, Uncounted
<1> QED
  BY <1>1, <1>2, <1>3, <1>4, <1>5, <1>6 DEF Next

-----------------------------------------------------------------------------
(* The variables keep their types, and a request between two of its steps  *)
(* can rely on what AskOK says: its question is stored, nothing it has not *)
(* counted is missing.                                                     *)
THEOREM ConversationInvariant == Spec => []ConversationInv
BY InitConversation, StepConversation, PTL DEF Spec

(* Stored answers stand after their questions, whoever else writes to the  *)
(* transcript meanwhile (_persist_answer).                                 *)
THEOREM TranscriptReads == Spec => []AnswerFollowsQuestion
<1>1. ConversationInv => AnswerFollowsQuestion
  BY DEF ConversationInv
<1> QED
  BY <1>1, ConversationInvariant, PTL

(* No browser is given a final answer that the transcript does not hold    *)
(* (stream_message, send_message).                                         *)
THEOREM FinalAnswersAreStored == Spec => []FinalIsStored
<1>1. ConversationInv => FinalIsStored
  BY DEF ConversationInv
<1> QED
  BY <1>1, ConversationInvariant, PTL

(* Positions are unique and the row counts no message that is not there,   *)
(* although every request adds to a copy of its own (_advance).            *)
THEOREM CounterIsCovered == Spec => []CountIsCovered
<1>1. ConversationInv => CountIsCovered
  BY DEF ConversationInv
<1> QED
  BY <1>1, ConversationInvariant, PTL

-----------------------------------------------------------------------------
(* The pipeline keeps its side: an execution of Answering, whatever the    *)
(* model, the search and the number of questions, is one of the Reply that *)
(* the conversations above are built on.  What the pipeline computes by    *)
(* recursion over a list of passages is reasoned about by induction over   *)
(* sets of numbers.                                                        *)

(* Induction, for a set of numbers instead of a predicate. *)
LEMMA InductiveSet ==
    ASSUME NEW S, 0 \in S, \A n \in Nat : n \in S => n + 1 \in S
    PROVE  Nat \subseteq S
<1> DEFINE Missing == Nat \ S
<1> SUFFICES ASSUME Missing # {} PROVE FALSE
  OBVIOUS
<1>1. PICK x \in Missing : \A y \in Missing : <<y, x>> \notin OpToRel(<, Nat)
  <2>1. Missing \subseteq Nat
    OBVIOUS
  <2> HIDE DEF Missing
  <2> QED
    BY <2>1, NatLessThanWellFounded, WFMin, Zenon
<1>2. x \in Nat \ {0} /\ x - 1 \in Nat /\ x - 1 < x
  OBVIOUS
<1>3. <<x - 1, x>> \in OpToRel(<, Nat)
  BY <1>2 DEF OpToRel
<1>4. x - 1 \in S
  BY <1>1, <1>2, <1>3
<1> QED
  BY <1>2, <1>4
(* A function on 0..n whose value at i follows from the one before, which  *)
(* is what the recursive definitions below are: there is one.              *)
Unfolds(f, n, base, step) ==
    /\ f[0] = base
    /\ \A i \in 1..n : f[i] = step[<<f[i - 1], i>>]

LEMMA PrefixRecursion ==
    ASSUME NEW n \in Nat, NEW S, NEW base \in S, NEW step \in [S \X (1..n) -> S]
    PROVE  \E f \in [0..n -> S] : Unfolds(f, n, base, step)
<1> DEFINE Reached == {k \in Nat : k <= n => \E f \in [0..k -> S] : Unfolds(f, k, base, step)}
<1>1. 0 \in Reached
  <2>1. [i \in 0..0 |-> base] \in [0..0 -> S] /\ Unfolds([i \in 0..0 |-> base], 0, base, step)
    BY DEF Unfolds
  <2> QED
    BY <2>1
<1>2. ASSUME NEW k \in Nat, k \in Reached PROVE k + 1 \in Reached
  <2> SUFFICES ASSUME k + 1 <= n
               PROVE  \E f \in [0..(k + 1) -> S] : Unfolds(f, k + 1, base, step)
    OBVIOUS
  <2>1. PICK f \in [0..k -> S] : Unfolds(f, k, base, step)
    BY <1>2
  <2>2. PICK last \in S : last = step[<<f[k], k + 1>>]
    <3>1. <<f[k], k + 1>> \in S \X (1..n)
      OBVIOUS
    <3> QED
      BY <3>1
  <2> DEFINE g == [i \in 0..(k + 1) |-> IF i = k + 1 THEN last ELSE f[i]]
  <2>3. g \in [0..(k + 1) -> S]
    OBVIOUS
  <2>4. g[0] = base /\ g[k + 1] = last /\ \A i \in 0..k : g[i] = f[i]
    BY <2>1 DEF Unfolds
  <2>5. ASSUME NEW i \in 1..(k + 1) PROVE g[i] = step[<<g[i - 1], i>>]
    <3> HIDE DEF g
    <3>1. CASE i = k + 1
      <4>1. i - 1 = k /\ k \in 0..k
        BY <3>1
      <4>2. g[i - 1] = f[k]
        BY <2>4, <4>1
      <4> QED
        BY <2>2, <2>4, <3>1, <4>2
    <3>2. CASE i # k + 1
      <4>1. i \in 1..k /\ i \in 0..k /\ i - 1 \in 0..k
        BY <3>2
      <4> QED
        BY <2>1, <2>4, <4>1 DEF Unfolds
    <3> QED
      BY <3>1, <3>2
  <2> HIDE DEF g
  <2> QED
    BY <2>3, <2>4, <2>5 DEF Unfolds
<1> HIDE DEF Reached
<1>3. Nat \subseteq Reached
  BY <1>1, <1>2, InductiveSet
<1> USE DEF Reached
<1> QED
  BY <1>3

LEMMA InductiveUpTo ==
    ASSUME NEW n \in Nat, NEW T, 0 \in T, \A i \in 1..n : i - 1 \in T => i \in T
    PROVE  0..n \subseteq T
<1> DEFINE U == {k \in Nat : k <= n => k \in T}
<1>1. ASSUME NEW k \in Nat, k \in U PROVE k + 1 \in U
  <2> SUFFICES ASSUME k + 1 <= n PROVE k + 1 \in T
    OBVIOUS
  <2>1. k \in T /\ k + 1 \in 1..n /\ (k + 1) - 1 = k
    BY <1>1
  <2> QED
    BY <2>1
<1>2. 0 \in U
  OBVIOUS
<1> HIDE DEF U
<1>3. Nat \subseteq U
  BY <1>1, <1>2, InductiveSet
<1> USE DEF U
<1> QED
  BY <1>3

LEMMA FitOneFacts ==
    ASSUME NEW room \in Nat, NEW length \in Lengths
    PROVE  LET fit == FitOne(room, length)
           IN /\ fit = [kept |-> fit.kept, room |-> fit.room]
              /\ fit.kept \in Nat /\ fit.room \in Nat
              /\ fit.kept + fit.room <= room
              /\ fit.kept = 0 => fit.room = 0 \/ MaxPassage = 0
              /\ MaxPassage = 0 => fit.kept = 0
<1>1. length \in Nat /\ length # 0 /\ MaxPassage \in Nat /\ MinPassage \in Nat
  BY AnsweringAssumption DEF AnsweringAssumption
<1> DEFINE allowance == Smaller(length, MaxPassage)
<1>2. /\ allowance \in Nat
      /\ allowance = 0 <=> MaxPassage = 0
  BY <1>1 DEF Smaller
<1> HIDE DEF allowance
<1>3. FitOne(room, length) =
        IF allowance <= room THEN [kept |-> allowance, room |-> room - allowance]
        ELSE [kept |-> IF room >= MinPassage THEN room ELSE 0, room |-> 0]
  BY Zenon DEF FitOne, allowance
<1>4. PICK k, q : /\ FitOne(room, length) = [kept |-> k, room |-> q]
                  /\ \/ allowance <= room /\ k = allowance /\ q = room - allowance
                     \/ ~(allowance <= room) /\ k = (IF room >= MinPassage THEN room ELSE 0) /\ q = 0
  <2>1. CASE allowance <= room
    BY <1>3, <2>1
  <2>2. CASE ~(allowance <= room)
    BY <1>3, <2>2
  <2> QED
    BY <2>1, <2>2
<1>5. /\ k \in Nat /\ q \in Nat /\ k + q <= room
      /\ k = 0 => q = 0 \/ MaxPassage = 0
      /\ MaxPassage = 0 => k = 0
  <2>1. CASE allowance <= room /\ k = allowance /\ q = room - allowance
    BY <1>1, <1>2, <2>1
  <2>2. CASE ~(allowance <= room) /\ k = (IF room >= MinPassage THEN room ELSE 0) /\ q = 0
    BY <1>1, <1>2, <2>2
  <2> QED
    BY <1>4, <2>1, <2>2
<1> QED
  BY <1>4, <1>5

(* The rooms left and the allowances given, one passage after the other.   *)
Fitted(fit, lengths) ==
    /\ fit[0] = [kept |-> 0, room |-> Budget]
    /\ \A i \in 1..Len(lengths) : fit[i] = FitOne(fit[i - 1].room, lengths[i])
    /\ \A i \in 0..Len(lengths) : fit[i] \in [kept : Nat, room : Nat]

LEMMA FitIs ==
    ASSUME NEW lengths \in Seq(Lengths)
    PROVE  \E fit : /\ Fitted(fit, lengths)
                    /\ FitToBudget(lengths) = [i \in 1..Len(lengths) |-> fit[i].kept]
<1> DEFINE n == Len(lengths)
           Fits == [kept : Nat, room : Nat]
           base == [kept |-> 0, room |-> Budget]
           Body(f) == [i \in 0..n |-> IF i = 0 THEN [kept |-> 0, room |-> Budget]
                                      ELSE FitOne(f[i - 1].room, lengths[i])]
           Fit == CHOOSE f : f = Body(f)
           step == [p \in Fits \X (1..n) |-> FitOne(p[1].room, lengths[p[2]])]
<1>1. FitToBudget(lengths) = [i \in DOMAIN lengths |-> Fit[i].kept]
  BY Zenon DEF FitToBudget
<1>2. n \in Nat /\ DOMAIN lengths = 1..n /\ \A i \in 1..n : lengths[i] \in Lengths
  OBVIOUS
<1>3. base \in Fits
  BY AnsweringAssumption DEF AnsweringAssumption
<1>4. ASSUME NEW r \in Fits, NEW i \in 1..n PROVE FitOne(r.room, lengths[i]) \in Fits
  BY <1>2, FitOneFacts
<1>5. /\ step \in [Fits \X (1..n) -> Fits]
      /\ \A r \in Fits, i \in 1..n : step[<<r, i>>] = FitOne(r.room, lengths[i])
  <2> HIDE DEF Fits, n
  <2> QED
    BY <1>4
<1> HIDE DEF step
<1>6. PICK f \in [0..n -> Fits] : Unfolds(f, n, base, step)
  <2> HIDE DEF n, Fits, base
  <2> QED
    BY <1>2, <1>3, <1>5, PrefixRecursion
<1>7. f = Body(f)
  <2>1. ASSUME NEW i \in 0..n PROVE f[i] = Body(f)[i]
    <3>1. CASE i = 0
      BY <1>6, <3>1 DEF Unfolds
    <3>2. CASE i # 0
      <4>1. i \in 1..n /\ i - 1 \in 0..n /\ f[i - 1] \in Fits
        BY <1>2, <3>2
      <4>2. f[i] = step[<<f[i - 1], i>>]
        BY <1>6, <4>1 DEF Unfolds
      <4>3. f[i] = FitOne(f[i - 1].room, lengths[i])
        <5> HIDE DEF Fits
        <5> QED
          BY <1>5, <4>1, <4>2
      <4> QED
        BY <3>2, <4>3
    <3> QED
      BY <3>1, <3>2
  <2> QED
    BY <2>1
<1>8. Fit = Body(Fit)
  <2> HIDE DEF Body
  <2> QED
    BY <1>7, Zenon
<1> HIDE DEF Fit
<1>9. Fit[0] = base /\ \A i \in 1..n : Fit[i] = FitOne(Fit[i - 1].room, lengths[i])
  <2>1. Body(Fit)[0] = base /\ \A i \in 1..n : Body(Fit)[i] = FitOne(Fit[i - 1].room, lengths[i])
    BY <1>2
  <2> HIDE DEF Body
  <2> QED
    BY <1>8, <2>1, Zenon
<1>10. \A i \in 0..n : Fit[i] \in Fits
  <2> DEFINE T == {i \in 0..n : Fit[i] \in Fits}
  <2>1. 0 \in T
    BY <1>2, <1>3, <1>9
  <2>2. ASSUME NEW i \in 1..n, i - 1 \in T PROVE i \in T
    <3>1. Fit[i - 1] \in Fits /\ i \in 0..n
      BY <1>2, <2>2
    <3> QED
      BY <1>4, <1>9, <3>1
  <2> HIDE DEF n, T
  <2>3. 0..n \subseteq T
    BY <1>2, <2>1, <2>2, InductiveUpTo
  <2> QED
    BY <2>3 DEF T
<1>11. Fitted(Fit, lengths)
  BY <1>9, <1>10 DEF Fitted
<1> QED
  <2>1. FitToBudget(lengths) = [i \in 1..Len(lengths) |-> Fit[i].kept]
    BY <1>1, <1>2
  <2> QED
    BY <1>11, <2>1

LEMMA TotalIs ==
    ASSUME NEW n \in Nat, NEW fit \in [1..n -> Nat]
    PROVE  \E sum : /\ sum[0] = 0 /\ Total(fit) = sum[n]
                    /\ \A i \in 1..n : sum[i] = sum[i - 1] + fit[i]
<1> DEFINE Body(f) == [i \in 0..n |-> IF i = 0 THEN 0 ELSE f[i - 1] + fit[i]]
           Sum == CHOOSE f : f = Body(f)
           step == [p \in Nat \X (1..n) |-> p[1] + fit[p[2]]]
<1>1. Total(fit) = Sum[n]
  <2>1. Len(fit) = n
    OBVIOUS
  <2>2. Total(fit) = (CHOOSE f : f = [i \in 0..Len(fit) |-> IF i = 0 THEN 0 ELSE f[i - 1] + fit[i]])[Len(fit)]
    BY Zenon DEF Total
  <2> QED
    BY <2>1, <2>2, Zenon
<1>2. step \in [Nat \X (1..n) -> Nat] /\ \A x \in Nat, i \in 1..n : step[<<x, i>>] = x + fit[i]
  OBVIOUS
<1> HIDE DEF step
<1>3. PICK f \in [0..n -> Nat] : Unfolds(f, n, 0, step)
  <2>1. 0 \in Nat
    OBVIOUS
  <2> QED
    BY <1>2, <2>1, PrefixRecursion
<1>4. f = Body(f)
  <2>1. ASSUME NEW i \in 0..n PROVE f[i] = Body(f)[i]
    <3>1. CASE i = 0
      BY <1>3, <3>1 DEF Unfolds
    <3>2. CASE i # 0
      <4>1. i \in 1..n /\ i - 1 \in 0..n /\ f[i - 1] \in Nat
        BY <3>2
      <4>2. f[i] = step[<<f[i - 1], i>>]
        BY <1>3, <4>1 DEF Unfolds
      <4> QED
        BY <1>2, <3>2, <4>1, <4>2
    <3> QED
      BY <3>1, <3>2
  <2> QED
    BY <2>1
<1>5. Sum = Body(Sum)
  <2> HIDE DEF Body
  <2> QED
    BY <1>4, Zenon
<1> HIDE DEF Sum
<1>6. Sum[0] = 0 /\ \A i \in 1..n : Sum[i] = Sum[i - 1] + fit[i]
  <2>1. Body(Sum)[0] = 0 /\ \A i \in 1..n : Body(Sum)[i] = Sum[i - 1] + fit[i]
    OBVIOUS
  <2> HIDE DEF Body
  <2> QED
    BY <1>5, <2>1, Zenon
<1> QED
  BY <1>1, <1>6

LEMMA BudgetHolds ==
    ASSUME NEW lengths \in Seq(Lengths)
    PROVE  /\ FitToBudget(lengths) \in [1..Len(lengths) -> Nat]
           /\ Total(FitToBudget(lengths)) <= Budget
           /\ \A i, j \in DOMAIN FitToBudget(lengths) :
                i < j /\ FitToBudget(lengths)[j] > 0 => FitToBudget(lengths)[i] > 0
<1>0. PICK n, kept : n = Len(lengths) /\ kept = FitToBudget(lengths)
  OBVIOUS
<1>1. PICK fit : Fitted(fit, lengths) /\ kept = [i \in 1..n |-> fit[i].kept]
  BY <1>0, FitIs, Zenon
<1>2. /\ n \in Nat /\ MaxPassage \in Nat /\ Budget \in Nat
      /\ \A i \in 0..n : fit[i] \in [kept : Nat, room : Nat]
      /\ fit[0].room = Budget
  BY <1>0, <1>1, AnsweringAssumption DEF Fitted, AnsweringAssumption
<1>3. ASSUME NEW i \in 1..n
      PROVE  /\ kept[i] \in Nat /\ kept[i] = fit[i].kept /\ fit[i].room \in Nat
             /\ fit[i - 1].room \in Nat
             /\ kept[i] + fit[i].room <= fit[i - 1].room
             /\ kept[i] = 0 => fit[i].room = 0 \/ MaxPassage = 0
             /\ MaxPassage = 0 => kept[i] = 0
  <2>1. /\ fit[i] = FitOne(fit[i - 1].room, lengths[i]) /\ lengths[i] \in Lengths
        /\ fit[i - 1].room \in Nat /\ kept[i] = fit[i].kept
    BY <1>0, <1>1, <1>2 DEF Fitted
  <2> QED
    BY <2>1, FitOneFacts
<1>4. kept \in [1..n -> Nat]
  BY <1>1, <1>3
<1>5. PICK sum : /\ sum[0] = 0 /\ Total(kept) = sum[n]
                 /\ \A i \in 1..n : sum[i] = sum[i - 1] + kept[i]
  BY <1>2, <1>4, TotalIs
<1>6. Total(kept) <= Budget
  <2> DEFINE T == {i \in 0..n : sum[i] \in Nat /\ sum[i] + fit[i].room <= Budget}
  <2>1. 0 \in T
    BY <1>2, <1>5
  <2>2. ASSUME NEW i \in 1..n, i - 1 \in T PROVE i \in T
    <3>1. i \in 0..n /\ sum[i - 1] \in Nat /\ sum[i - 1] + fit[i - 1].room <= Budget
      BY <1>2, <2>2
    <3>2. sum[i] = sum[i - 1] + kept[i]
      BY <1>5
    <3>3. PICK s, k, r, q : /\ s = sum[i - 1] /\ k = kept[i] /\ r = fit[i - 1].room /\ q = fit[i].room
                            /\ s \in Nat /\ k \in Nat /\ r \in Nat /\ q \in Nat /\ k + q <= r /\ s + r <= Budget
                            /\ sum[i] = s + k
      BY <1>3, <3>1, <3>2
    <3>4. s + k \in Nat /\ (s + k) + q <= Budget
      <4>1. /\ s \in Nat /\ k \in Nat /\ r \in Nat /\ q \in Nat /\ Budget \in Nat
            /\ k + q <= r /\ s + r <= Budget
        BY <1>2, <3>3
      <4> HIDE DEF T
      <4> QED
        BY <4>1
    <3>5. sum[i] \in Nat /\ sum[i] + fit[i].room <= Budget
      BY <3>3, <3>4, Zenon
    <3> QED
      BY <3>1, <3>5
  <2> HIDE DEF T
  <2>3. 0..n \subseteq T
    BY <1>2, <2>1, <2>2, InductiveUpTo
  <2>4. n \in T /\ fit[n].room \in Nat
    BY <1>2, <2>3
  <2> USE DEF T
  <2> QED
    BY <1>2, <1>5, <2>4
<1>7. ASSUME NEW i \in 1..n, NEW j \in 1..n, i < j, kept[i] = 0 PROVE kept[j] = 0
  <2>1. CASE MaxPassage = 0
    BY <1>3, <2>1
  <2>2. CASE MaxPassage # 0
    <3> DEFINE T == {k \in 0..n : k >= i => fit[k].room = 0}
    <3>1. 0 \in T
      BY <1>2
    <3>2. ASSUME NEW k \in 1..n, k - 1 \in T PROVE k \in T
      <4>1. CASE k = i
        BY <1>3, <1>7, <2>2, <4>1
      <4>2. CASE k > i
        <5>1. fit[k - 1].room = 0
          BY <3>2, <4>2
        <5> QED
          BY <1>3, <5>1
      <4>3. CASE k < i
        BY <4>3
      <4> QED
        BY <4>1, <4>2, <4>3
    <3> HIDE DEF T
    <3>3. 0..n \subseteq T
      BY <1>2, <3>1, <3>2, InductiveUpTo
    <3>4. j - 1 \in T /\ j - 1 >= i
      BY <1>2, <1>7, <3>3
    <3>5. fit[j - 1].room = 0
      BY <3>4 DEF T
    <3> QED
      BY <1>3, <3>5
  <2> QED
    BY <2>1, <2>2
<1>8. \A i, j \in DOMAIN kept : i < j /\ kept[j] > 0 => kept[i] > 0
  <2>1. DOMAIN kept = 1..n
    BY <1>4
  <2> QED
    BY <1>3, <1>7, <2>1
<1> QED
  BY <1>0, <1>4, <1>6, <1>8, Zenon

LEMMA ContextIsCounted ==
    ASSUME NEW lengths \in Seq(Lengths)
    PROVE  FitContext(lengths) \in Nat
<1>1. MaxCitations \in Nat
  BY AnsweringAssumption DEF AnsweringAssumption
<1>2. PICK m \in 0..Len(lengths) : m = Smaller(MaxCitations, Len(lengths))
  BY <1>1 DEF Smaller
<1>3. PICK first \in Seq(Lengths) : first = SubSeq(lengths, 1, m)
  <2>1. SubSeq(lengths, 1, m) \in Seq(Lengths)
    OBVIOUS
  <2> QED
    BY <2>1, Zenon
<1>4. PICK fit, n : fit = FitToBudget(first) /\ n = Len(first)
  OBVIOUS
<1>8. n \in Nat /\ DOMAIN fit = 1..n
  <2>1. fit \in [1..n -> Nat] /\ n \in Nat
    <3>1. FitToBudget(first) \in [1..Len(first) -> Nat]
      BY BudgetHolds, Zenon
    <3>2. n \in Nat
      BY <1>4
    <3> QED
      BY <1>4, <3>1, <3>2, Zenon
  <2> QED
    BY <2>1
<1> DEFINE used == {i \in DOMAIN fit : fit[i] > 0}
<1>5. IsFiniteSet(used)
  <2>1. IsFiniteSet(1..n)
    BY <1>8, FS_Interval
  <2>2. used \subseteq 1..n
    BY <1>8
  <2> QED
    BY <2>1, <2>2, FS_Subset
<1>6. Cardinality(used) \in Nat
  BY <1>5, FS_CardinalityType
<1>7. FitContext(lengths) = Cardinality(used)
  BY <1>2, <1>3, <1>4, Zenon DEF FitContext
<1> QED
  BY <1>6, <1>7, Zenon

-----------------------------------------------------------------------------
(* What is released of a reply, and when. *)

PipelineStages ==
    {"idle", "retrieve", "format", "assemble", "stream", "call", "verify",
     "done", "rejected", "failed"}

(* A run and what its reader has seen are records with these fields. *)
IsRun(r) ==
    r = [stage |-> r.stage, streamed |-> r.streamed, handed |-> r.handed,
         passages |-> r.passages, context |-> r.context, text |-> r.text,
         released |-> r.released, attempt |-> r.attempt, answer |-> r.answer,
         grounded |-> r.grounded, cited |-> r.cited, nested |-> r.nested]

(* What a reader has been shown of a reply is what is released of it, and  *)
(* is not the sentinel; what has not begun to answer has no text, and has  *)
(* handed over one event at most besides its fragments.                    *)
RunOK(r, s) ==
    /\ IsRun(r)
    /\ r.stage \in PipelineStages /\ r.streamed \in BOOLEAN /\ r.handed \in BOOLEAN
    /\ r.text \in Seq(Tokens) /\ r.released \in 0..Len(r.text)
    /\ s = [events |-> s.events, fragments |-> s.fragments]
    /\ s.events \in Nat /\ s.fragments \in Seq(Tokens)
    /\ ~IsPrefix(Sentinel, s.fragments)
    /\ r.stage \notin {"done", "rejected", "failed"} =>
         s.fragments = SubSeq(r.text, 1, r.released)
    /\ r.stage \notin {"stream", "verify"} => r.text = <<>>
    /\ r.stage \in {"idle", "retrieve"} => s.events = 0
    /\ r.stage \in {"assemble", "call"} => s.events <= 1
    /\ r.stage = "stream" => r.streamed /\ s.events <= Len(r.text) + 1 /\ Len(r.text) <= MaxTokens

AnsweringInv ==
    /\ run = [a \in Questions |-> run[a]]
    /\ shown = [a \in Questions |-> shown[a]]
    /\ \A a \in Questions : RunOK(run[a], shown[a])

LEMMA NothingShown ==
    /\ <<>> \in Seq(Tokens) /\ Len(<<>>) = 0 /\ ~IsPrefix(Sentinel, <<>>)
    /\ SubSeq(<<>>, 1, 0) = <<>>
<1>1. Len(Sentinel) = 2
  BY DEF Sentinel
<1> QED
  BY <1>1 DEF IsPrefix

LEMMA AnsweringBegins == AnsweringInit => AnsweringInv
<1> SUFFICES ASSUME AnsweringInit PROVE AnsweringInv
  OBVIOUS
<1>1. ASSUME NEW a \in Questions PROVE RunOK(run[a], shown[a])
  <2>1. run[a] = NoRun /\ shown[a] = NoShown
    BY DEF AnsweringInit
  <2>2. IsRun(NoRun) /\ NoShown = [events |-> NoShown.events, fragments |-> NoShown.fragments]
    BY DEF NoRun, NoShown, IsRun
  <2>3. /\ NoRun.stage = "idle" /\ NoRun.streamed = FALSE /\ NoRun.handed = FALSE
        /\ NoRun.text = <<>> /\ NoRun.released = 0
        /\ NoShown.events = 0 /\ NoShown.fragments = <<>>
    BY DEF NoRun, NoShown
  <2>4. NoRun.stage \in PipelineStages /\ NoRun.streamed \in BOOLEAN /\ NoRun.handed \in BOOLEAN
    BY <2>3 DEF PipelineStages
  <2> QED
    BY <2>1, <2>2, <2>3, <2>4, NothingShown DEF RunOK
<1> QED
  BY <1>1 DEF AnsweringInit, AnsweringInv

(* A run that goes on changes alone. *)
LEMMA RunGoesOn ==
    ASSUME AnsweringInv, NEW a \in Questions, NEW changed, IsRun(changed), NEW handed \in BOOLEAN,
           GoesOn(a, changed, handed)
    PROVE  /\ IsRun(run'[a])
           /\ run'[a].stage = changed.stage /\ run'[a].streamed = changed.streamed
           /\ run'[a].text = changed.text /\ run'[a].released = changed.released
           /\ run'[a].handed = handed
           /\ ~handed => shown'[a] = shown[a]
           /\ handed => shown'[a] = [events    |-> shown[a].events + 1,
                                     fragments |-> shown[a].fragments \o
                                        SubSeq(changed.text, run[a].released + 1, changed.released)]
           /\ \A b \in Questions \ {a} : run'[b] = run[b] /\ shown'[b] = shown[b]
           /\ run' = [b \in Questions |-> run'[b]] /\ shown' = [b \in Questions |-> shown'[b]]
<1>1. run' = [run EXCEPT ![a] = [changed EXCEPT !.handed = handed]]
  BY DEF GoesOn
<1>2. run'[a] = [changed EXCEPT !.handed = handed] /\ \A b \in Questions \ {a} : run'[b] = run[b]
  BY <1>1 DEF AnsweringInv
<1>3. run' = [b \in Questions |-> run'[b]]
  BY <1>1 DEF AnsweringInv
<1>4. /\ run'[a].stage = changed.stage /\ run'[a].streamed = changed.streamed
      /\ run'[a].text = changed.text /\ run'[a].released = changed.released
      /\ run'[a].handed = handed /\ IsRun(run'[a])
  BY <1>2 DEF IsRun
<1>5. CASE ~handed
  BY <1>2, <1>3, <1>4, <1>5 DEF GoesOn, AnsweringInv
<1>6. CASE handed
  <2>1. shown' = [shown EXCEPT ![a] =
                        [events    |-> @.events + 1,
                         fragments |-> @.fragments \o SubSeq(changed.text, run[a].released + 1,
                                                            changed.released)]]
    BY <1>6 DEF GoesOn
  <2> QED
    BY <1>2, <1>3, <1>4, <1>6, <2>1 DEF AnsweringInv
<1> QED
  BY <1>5, <1>6

(* The run and its reader as module Reply describes them. *)
Described ==
    [a \in Questions |-> [phase    |-> Phase(a),
                     streamed |-> run[a].streamed,
                     events   |-> shown[a].events,
                     handed   |-> run[a].handed]]

Ended == {"done", "rejected", "failed"}

LEMMA PhaseOf ==
    ASSUME NEW a \in Questions, run[a].stage \in PipelineStages
    PROVE  /\ run[a].stage = "idle" => Phase(a) = "idle"
           /\ run[a].stage = "done" => Phase(a) = "answered"
           /\ run[a].stage \in {"rejected", "failed"} => Phase(a) = run[a].stage
           /\ run[a].stage \notin Ended \cup {"idle"} => Phase(a) = "running"
BY DEF Phase, At, PipelineStages, Ended

LEMMA PhaseNext ==
    ASSUME NEW a \in Questions, run'[a].stage \in PipelineStages
    PROVE  /\ run'[a].stage = "idle" => Phase(a)' = "idle"
           /\ run'[a].stage = "done" => Phase(a)' = "answered"
           /\ run'[a].stage \in {"rejected", "failed"} => Phase(a)' = run'[a].stage
           /\ run'[a].stage \notin Ended \cup {"idle"} => Phase(a)' = "running"
BY DEF Phase, At, PipelineStages, Ended

(* How Reply changes what it knows of a run. *)
Description(p, s, n, h) == [phase |-> p, streamed |-> s, events |-> n, handed |-> h]

LEMMA Begun ==
    ASSUME NEW q
    PROVE  [R!NoReply EXCEPT !.phase = "running", !.streamed = q] =
             Description("running", q, 0, FALSE)
<1>1. PICK v : v = FALSE
  OBVIOUS
<1>2. R!NoReply = Description("idle", v, 0, v)
  BY <1>1, Zenon DEF R!NoReply, Description
<1>3. [Description("idle", v, 0, v) EXCEPT !.phase = "running"] = Description("running", v, 0, v)
  BY DEF Description
<1>4. [Description("running", v, 0, v) EXCEPT !.streamed = q] = Description("running", q, 0, v)
  BY DEF Description
<1>5. [[R!NoReply EXCEPT !.phase = "running"] EXCEPT !.streamed = q] =
        Description("running", q, 0, v)
  BY <1>2, <1>3, <1>4, Zenon
<1> QED
  BY <1>1, <1>5, Zenon

LEMMA ReplySteps ==
    ASSUME NEW a \in Questions,
           \/ \E streamed \in BOOLEAN : R!Start(a, streamed)
           \/ R!Hand(a) \/ R!Work(a)
           \/ \E outcome \in R!Outcomes : R!End(a, outcome)
    PROVE  R!ReplyNext
BY Zenon DEF R!ReplyNext

(* One run's description alone changes. *)
Redescribed(a) == Described' = [Described EXCEPT ![a] = Described'[a]]

LEMMA IsStart ==
    ASSUME NEW a \in Questions, Redescribed(a), run'[a].streamed \in BOOLEAN,
           Described[a] = Description("idle", run[a].streamed, shown[a].events, run[a].handed),
           Described'[a] = Description("running", run'[a].streamed, 0, FALSE)
    PROVE  R!ReplyNext
<1>1. PICK s \in BOOLEAN : s = run'[a].streamed
  OBVIOUS
<1>2. Described[a].phase = "idle"
  BY DEF Description
<1>3. [R!NoReply EXCEPT !.phase = "running", !.streamed = s] = Description("running", s, 0, FALSE)
  BY Begun
<1>4. Described'[a] = [R!NoReply EXCEPT !.phase = "running", !.streamed = s]
  BY <1>1, <1>3, Zenon
<1>5. R!Start(a, s)
  BY <1>2, <1>4 DEF R!Start, Described, Redescribed
<1> QED
  BY <1>5, ReplySteps

LEMMA IsHand ==
    ASSUME NEW a \in Questions, Redescribed(a),
           run[a].streamed = TRUE, shown[a].events < MaxTokens + 1,
           Described[a] = Description("running", run[a].streamed, shown[a].events, run[a].handed),
           Described'[a] = Description("running", run[a].streamed, shown[a].events + 1, TRUE)
    PROVE  R!ReplyNext
<1>1. PICK s, n, h, v : /\ s = run[a].streamed /\ n = shown[a].events /\ h = run[a].handed
                        /\ v = TRUE
  OBVIOUS
<1>2. Described[a] = Description("running", s, n, h)
  BY <1>1, Zenon
<1>3. /\ Described[a].phase = "running" /\ Described[a].streamed = s
      /\ Described[a].events < MaxTokens + 1
  BY <1>1, <1>2 DEF Description
<1>4. Described[a].streamed
  BY <1>1, <1>3, Zenon
<1>5. [Described[a] EXCEPT !.events = @ + 1] = Description("running", s, n + 1, h)
  BY <1>2 DEF Description
<1>6. [Description("running", s, n + 1, h) EXCEPT !.handed = v] = Description("running", s, n + 1, v)
  BY DEF Description
<1>7. [[Described[a] EXCEPT !.events = @ + 1] EXCEPT !.handed = v] =
        Description("running", s, n + 1, v)
  BY <1>5, <1>6, Zenon
<1>8. Described'[a] = [Described[a] EXCEPT !.events = @ + 1, !.handed = TRUE]
  BY <1>1, <1>7, Zenon
<1>9. Described' = [Described EXCEPT ![a].events = @ + 1, ![a].handed = TRUE]
  <2> DEFINE counted == [Described EXCEPT ![a].events = @ + 1]
  <2>1. /\ counted[a] = [Described[a] EXCEPT !.events = @ + 1]
        /\ counted = [b \in Questions |-> IF b = a THEN counted[a] ELSE Described[b]]
    BY DEF Described
  <2>2. Described'[a] = [counted[a] EXCEPT !.handed = TRUE]
    BY <1>8, <2>1, Zenon
  <2>3. Described' = [b \in Questions |-> IF b = a THEN Described'[a] ELSE Described[b]]
    BY DEF Redescribed, Described
  <2> HIDE DEF counted
  <2>4. Described' = [counted EXCEPT ![a].handed = TRUE]
    BY <2>1, <2>2, <2>3
  <2> QED
    BY <2>4 DEF counted
<1>10. R!Hand(a)
  BY <1>3, <1>4, <1>9 DEF R!Hand, R!Running, Described
<1> QED
  BY <1>10, ReplySteps

LEMMA IsWork ==
    ASSUME NEW a \in Questions, Redescribed(a), run[a].handed = TRUE,
           Described[a] = Description("running", run[a].streamed, shown[a].events, run[a].handed),
           Described'[a] = Description("running", run[a].streamed, shown[a].events, FALSE)
    PROVE  R!ReplyNext
<1>1. PICK s, n, h, v : /\ s = run[a].streamed /\ n = shown[a].events /\ h = run[a].handed
                        /\ v = FALSE
  OBVIOUS
<1>2. Described[a] = Description("running", s, n, h)
  BY <1>1, Zenon
<1>3. Described[a].phase = "running" /\ Described[a].handed = h
  BY <1>2 DEF Description
<1>4. Described[a].handed
  BY <1>1, <1>3, Zenon
<1>5. [Described[a] EXCEPT !.handed = v] = Description("running", s, n, v)
  BY <1>2 DEF Description
<1>6. Described'[a] = [Described[a] EXCEPT !.handed = FALSE]
  BY <1>1, <1>5, Zenon
<1>7. Described' = [Described EXCEPT ![a].handed = FALSE]
  BY <1>6 DEF Redescribed, Described
<1>8. R!Work(a)
  BY <1>3, <1>4, <1>7 DEF R!Work, R!Running, Described
<1> QED
  BY <1>8, ReplySteps

LEMMA IsEnd ==
    ASSUME NEW a \in Questions, Redescribed(a), NEW outcome \in R!Outcomes,
           outcome = "rejected" => shown[a].events = 0,
           Described[a] = Description("running", run[a].streamed, shown[a].events, run[a].handed),
           Described'[a] = Description(outcome, run[a].streamed, shown[a].events, FALSE)
    PROVE  R!ReplyNext
<1>1. PICK s, n, h, v : /\ s = run[a].streamed /\ n = shown[a].events /\ h = run[a].handed
                        /\ v = FALSE
  OBVIOUS
<1>2. Described[a] = Description("running", s, n, h)
  BY <1>1, Zenon
<1>3. Described[a].phase = "running" /\ (outcome = "rejected" => Described[a].events = 0)
  BY <1>1, <1>2 DEF Description
<1>4. [Described[a] EXCEPT !.phase = outcome] = Description(outcome, s, n, h)
  BY <1>2 DEF Description
<1>5. [Description(outcome, s, n, h) EXCEPT !.handed = v] = Description(outcome, s, n, v)
  BY DEF Description
<1>6. [[Described[a] EXCEPT !.phase = outcome] EXCEPT !.handed = v] = Description(outcome, s, n, v)
  BY <1>4, <1>5, Zenon
<1>7. Described'[a] = [Described[a] EXCEPT !.phase = outcome, !.handed = FALSE]
  BY <1>1, <1>6, Zenon
<1>8. Described' = [Described EXCEPT ![a].phase = outcome, ![a].handed = FALSE]
  BY <1>7 DEF Redescribed, Described
<1>9. R!End(a, outcome)
  BY <1>3, <1>8 DEF R!End, R!Running, Described
<1> QED
  BY <1>9, ReplySteps

(* A step that one run makes is one of module Reply, or none, if it        *)
(* begins, hands over an event, goes on or ends as Reply allows.           *)
LEMMA RunIsReply ==
    ASSUME AnsweringInv, NEW a \in Questions,
           run' = [b \in Questions |-> run'[b]], shown' = [b \in Questions |-> shown'[b]],
           \A b \in Questions \ {a} : run'[b] = run[b] /\ shown'[b] = shown[b],
           RunOK(run'[a], shown'[a]), run[a].stage \notin Ended, run'[a].stage # "idle",
           IF run[a].stage = "idle"
           THEN run'[a].stage \notin Ended /\ ~run'[a].handed /\ shown'[a].events = 0
           ELSE /\ run'[a].streamed = run[a].streamed
                /\ IF run'[a].handed
                   THEN /\ run[a].streamed /\ run'[a].stage \notin Ended
                        /\ shown[a].events < MaxTokens + 1
                        /\ shown'[a].events = shown[a].events + 1
                   ELSE /\ shown'[a].events = shown[a].events
                        /\ run'[a].stage = "rejected" => shown[a].events = 0
    PROVE  AnsweringInv' /\ [R!ReplyNext]_Described
<1>1. AnsweringInv'
  BY DEF AnsweringInv
<1>2. run[a].stage \in PipelineStages /\ run'[a].stage \in PipelineStages
  BY DEF AnsweringInv, RunOK
<1>3. /\ run[a].handed \in BOOLEAN /\ run[a].streamed \in BOOLEAN
      /\ run'[a].handed \in BOOLEAN /\ run'[a].streamed \in BOOLEAN
      /\ shown[a].events \in Nat
  BY DEF AnsweringInv, RunOK
<1>4. Described[a] = Description(Phase(a), run[a].streamed, shown[a].events, run[a].handed)
  BY DEF Described, Description
<1>5. Described'[a] =
        Description(Phase(a)', run'[a].streamed, shown'[a].events, run'[a].handed)
  BY DEF Described, Description
<1>6. \A b \in Questions \ {a} : Described'[b] = Described[b]
  BY DEF Described, Phase, At
<1>7. Described = [b \in Questions |-> Described[b]] /\ Described' = [b \in Questions |-> Described'[b]]
  BY DEF Described
<1>8. Redescribed(a)
  BY <1>6, <1>7 DEF Redescribed
<1>9. CASE run[a].stage = "idle"
  <2>1. Phase(a) = "idle" /\ Phase(a)' = "running"
    BY <1>2, <1>9, PhaseOf, PhaseNext
  <2>2. run'[a].handed = FALSE /\ shown'[a].events = 0
    BY <1>3, <1>9
  <2>3. Described[a] = Description("idle", run[a].streamed, shown[a].events, run[a].handed)
    BY <1>4, <2>1, Zenon
  <2>4. Described'[a] = Description("running", run'[a].streamed, 0, FALSE)
    BY <1>5, <2>1, <2>2, Zenon
  <2>9. R!ReplyNext
    BY <1>3, <1>8, <2>3, <2>4, IsStart, Zenon
  <2> QED
    BY <1>1, <2>9
<1>10. CASE run[a].stage # "idle" /\ run'[a].handed
  <2>1. Phase(a) = "running" /\ Phase(a)' = "running"
    BY <1>2, <1>10, PhaseOf, PhaseNext
  <2>2. /\ run'[a].handed = TRUE /\ run[a].streamed = TRUE
        /\ run'[a].streamed = run[a].streamed /\ shown'[a].events = shown[a].events + 1
        /\ shown[a].events < MaxTokens + 1
    BY <1>3, <1>10
  <2>3. Described[a] = Description("running", run[a].streamed, shown[a].events, run[a].handed)
    BY <1>4, <2>1, Zenon
  <2>4. Described'[a] = Description("running", run[a].streamed, shown[a].events + 1, TRUE)
    BY <1>5, <2>1, <2>2, Zenon
  <2>9. R!ReplyNext
    BY <1>8, <2>2, <2>3, <2>4, IsHand, Zenon
  <2> QED
    BY <1>1, <2>9
<1>11. CASE run[a].stage # "idle" /\ ~run'[a].handed /\ run'[a].stage \notin Ended
  <2>1. Phase(a) = "running" /\ Phase(a)' = "running"
    BY <1>2, <1>11, PhaseOf, PhaseNext
  <2>2. /\ run'[a].handed = FALSE /\ run'[a].streamed = run[a].streamed
        /\ shown'[a].events = shown[a].events
    BY <1>3, <1>11
  <2>3. Described[a] = Description("running", run[a].streamed, shown[a].events, run[a].handed)
    BY <1>4, <2>1, Zenon
  <2>4. Described'[a] = Description("running", run[a].streamed, shown[a].events, FALSE)
    BY <1>5, <2>1, <2>2, Zenon
  <2>5. CASE run[a].handed = TRUE
    <3>1. R!ReplyNext
      BY <1>8, <2>3, <2>4, <2>5, IsWork, Zenon
    <3> QED
      BY <1>1, <3>1
  <2>6. CASE run[a].handed = FALSE
    <3>1. Described'[a] = Described[a]
      BY <2>3, <2>4, <2>6, Zenon
    <3>2. Described' = Described
      BY <1>7, <1>8, <3>1 DEF Redescribed
    <3> QED
      BY <1>1, <3>2
  <2> QED
    BY <1>3, <2>5, <2>6
<1>12. CASE run[a].stage # "idle" /\ run'[a].stage \in Ended
  <2>1. Phase(a) = "running"
    BY <1>2, <1>12, PhaseOf
  <2>2. PICK outcome \in R!Outcomes :
          /\ outcome = Phase(a)'
          /\ outcome = "rejected" => run'[a].stage = "rejected"
    BY <1>2, <1>12, PhaseNext DEF Ended, R!Outcomes
  <2>3. /\ run'[a].handed = FALSE /\ run'[a].streamed = run[a].streamed
        /\ shown'[a].events = shown[a].events
        /\ run'[a].stage = "rejected" => shown[a].events = 0
    BY <1>3, <1>12
  <2>4. Described[a] = Description("running", run[a].streamed, shown[a].events, run[a].handed)
    BY <1>4, <2>1, Zenon
  <2>5. Described'[a] = Description(outcome, run[a].streamed, shown[a].events, FALSE)
    BY <1>5, <2>2, <2>3, Zenon
  <2>6. outcome = "rejected" => shown[a].events = 0
    BY <2>2, <2>3
  <2>9. R!ReplyNext
    BY <1>8, <2>4, <2>5, <2>6, IsEnd, Zenon
  <2> QED
    BY <1>1, <2>9
<1> QED
  BY <1>2, <1>3, <1>9, <1>10, <1>11, <1>12

(* What the properties look at in a run. *)
Like(r, s, b, t, n) ==
    IsRun(r) /\ r.stage = s /\ r.streamed = b /\ r.text = t /\ r.released = n

LEMMA LikeWith ==
    ASSUME NEW r, NEW s, NEW b, NEW t, NEW n, Like(r, s, b, t, n), NEW v
    PROVE  /\ Like([r EXCEPT !.stage = v], v, b, t, n)
           /\ Like([r EXCEPT !.streamed = v], s, v, t, n)
           /\ Like([r EXCEPT !.text = v], s, b, v, n)
           /\ Like([r EXCEPT !.released = v], s, b, t, v)
           /\ Like([r EXCEPT !.passages = v], s, b, t, n)
           /\ Like([r EXCEPT !.context = v], s, b, t, n)
           /\ Like([r EXCEPT !.attempt = v], s, b, t, n)
           /\ Like([r EXCEPT !.answer = v], s, b, t, n)
           /\ Like([r EXCEPT !.grounded = v], s, b, t, n)
           /\ Like([r EXCEPT !.cited = v], s, b, t, n)
           /\ Like([r EXCEPT !.nested = v], s, b, t, n)
<1>1. Like([r EXCEPT !.stage = v], v, b, t, n)
  BY DEF Like, IsRun
<1>2. Like([r EXCEPT !.streamed = v], s, v, t, n)
  BY DEF Like, IsRun
<1>3. Like([r EXCEPT !.text = v], s, b, v, n)
  BY DEF Like, IsRun
<1>4. Like([r EXCEPT !.released = v], s, b, t, v)
  BY DEF Like, IsRun
<1>5. Like([r EXCEPT !.passages = v], s, b, t, n)
  BY DEF Like, IsRun
<1>6. Like([r EXCEPT !.context = v], s, b, t, n)
  BY DEF Like, IsRun
<1>7. Like([r EXCEPT !.attempt = v], s, b, t, n)
  BY DEF Like, IsRun
<1>8. Like([r EXCEPT !.answer = v], s, b, t, n)
  BY DEF Like, IsRun
<1>9. Like([r EXCEPT !.grounded = v], s, b, t, n)
  BY DEF Like, IsRun
<1>10. Like([r EXCEPT !.cited = v], s, b, t, n)
  BY DEF Like, IsRun
<1>11. Like([r EXCEPT !.nested = v], s, b, t, n)
  BY DEF Like, IsRun
<1> QED
  BY <1>1, <1>2, <1>3, <1>4, <1>5, <1>6, <1>7, <1>8, <1>9, <1>10, <1>11

(* A run that hands nothing over. *)
LEMMA Quiet ==
    ASSUME AnsweringInv, NEW a \in Questions, run[a].stage \notin Ended \cup {"idle"},
           NEW changed, GoesOn(a, changed, FALSE),
           NEW s \in PipelineStages \ {"idle", "retrieve"}, NEW t \in Seq(Tokens), NEW n \in 0..Len(t),
           Like(changed, s, run[a].streamed, t, n),
           s \notin {"stream", "verify"} => t = <<>>,
           s \notin Ended => shown[a].fragments = SubSeq(t, 1, n),
           s = "rejected" => shown[a].events = 0,
           s \in {"assemble", "call"} => shown[a].events <= 1,
           s = "stream" => run[a].streamed /\ shown[a].events <= Len(t) + 1 /\ Len(t) <= MaxTokens
    PROVE  AnsweringInv' /\ [R!ReplyNext]_Described
<1>1. IsRun(changed) /\ changed.stage = s /\ changed.streamed = run[a].streamed
      /\ changed.text = t /\ changed.released = n
  BY DEF Like
<1>2. /\ IsRun(run'[a])
      /\ run'[a].stage = s /\ run'[a].streamed = run[a].streamed
      /\ run'[a].text = t /\ run'[a].released = n
      /\ run'[a].handed = FALSE /\ shown'[a] = shown[a]
      /\ \A b \in Questions \ {a} : run'[b] = run[b] /\ shown'[b] = shown[b]
      /\ run' = [b \in Questions |-> run'[b]] /\ shown' = [b \in Questions |-> shown'[b]]
  BY <1>1, RunGoesOn
<1>3. RunOK(run[a], shown[a])
  BY DEF AnsweringInv
<1>4. RunOK(run'[a], shown'[a])
  BY <1>2, <1>3 DEF RunOK, Ended
<1> QED
  BY <1>2, <1>4, RunIsReply DEF Ended

(* A streamed run that hands over an event, and what it released with it. *)
LEMMA Speaks ==
    ASSUME AnsweringInv, NEW a \in Questions, run[a].stage \notin Ended \cup {"idle"}, run[a].streamed,
           NEW changed, GoesOn(a, changed, TRUE),
           NEW s \in PipelineStages \ (Ended \cup {"idle", "retrieve"}),
           NEW t \in Seq(Tokens), NEW n \in 0..Len(t),
           Like(changed, s, run[a].streamed, t, n),
           s \notin {"stream", "verify"} => t = <<>>,
           shown[a].events < MaxTokens + 1,
           shown[a].fragments \o SubSeq(t, run[a].released + 1, n) = SubSeq(t, 1, n),
           SubSeq(t, 1, n) \in Seq(Tokens), ~IsPrefix(Sentinel, SubSeq(t, 1, n)),
           s \in {"assemble", "call"} => shown[a].events = 0,
           s = "stream" => shown[a].events <= Len(t) /\ Len(t) <= MaxTokens
    PROVE  AnsweringInv' /\ [R!ReplyNext]_Described
<1>1. IsRun(changed) /\ changed.stage = s /\ changed.streamed = run[a].streamed
      /\ changed.text = t /\ changed.released = n
  BY DEF Like
<1>2. /\ IsRun(run'[a])
      /\ run'[a].stage = s /\ run'[a].streamed = run[a].streamed
      /\ run'[a].text = t /\ run'[a].released = n
      /\ run'[a].handed = TRUE
      /\ shown'[a] = [events    |-> shown[a].events + 1,
                      fragments |-> shown[a].fragments \o SubSeq(t, run[a].released + 1, n)]
      /\ \A b \in Questions \ {a} : run'[b] = run[b] /\ shown'[b] = shown[b]
      /\ run' = [b \in Questions |-> run'[b]] /\ shown' = [b \in Questions |-> shown'[b]]
  BY <1>1, RunGoesOn
<1>3. RunOK(run[a], shown[a])
  BY DEF AnsweringInv
<1>4. /\ shown'[a].events = shown[a].events + 1
      /\ shown'[a].fragments = SubSeq(t, 1, n)
      /\ shown'[a] = [events |-> shown'[a].events, fragments |-> shown'[a].fragments]
  <2>1. PICK e, f : e = shown[a].events + 1 /\ f = SubSeq(t, 1, n)
    OBVIOUS
  <2>2. shown'[a] = [events |-> e, fragments |-> f]
    BY <1>2, <2>1, Zenon
  <2> QED
    BY <2>1, <2>2
<1>5. RunOK(run'[a], shown'[a])
  <2>1. /\ run[a].handed \in BOOLEAN /\ run[a].streamed \in BOOLEAN
        /\ shown[a].events \in Nat
    BY <1>3 DEF RunOK
  <2>2. shown'[a].events \in Nat /\ shown'[a].fragments \in Seq(Tokens)
        /\ ~IsPrefix(Sentinel, shown'[a].fragments)
    BY <1>4, <2>1
  <2>3. /\ s \in {"assemble", "call"} => shown'[a].events <= 1
        /\ s = "stream" => shown'[a].events <= Len(t) + 1
    BY <1>4, <2>1
  <2> QED
    BY <1>2, <1>4, <2>1, <2>2, <2>3 DEF RunOK, Ended
<1> QED
  BY <1>2, <1>4, <1>5, RunIsReply DEF Ended

LEMMA NoRunIs == Like(NoRun, "idle", NoRun.streamed, <<>>, 0) /\ NoRun.handed = FALSE
<1>1. IsRun(NoRun)
  BY DEF NoRun, IsRun
<1>2. NoRun.stage = "idle" /\ NoRun.text = <<>> /\ NoRun.released = 0 /\ NoRun.handed = FALSE
  BY DEF NoRun
<1> QED
  BY <1>1, <1>2 DEF Like

LEMMA OutcomeIs ==
    ASSUME NEW a \in Questions, NEW s
    PROVE  Like(Outcome(a, s), s, run[a].streamed, <<>>, 0)
<1> DEFINE staged == [NoRun EXCEPT !.stage = s]
<1>1. Like(staged, s, NoRun.streamed, <<>>, 0)
  BY NoRunIs, LikeWith
<1> HIDE DEF staged
<1>2. Like([staged EXCEPT !.streamed = run[a].streamed], s, run[a].streamed, <<>>, 0)
  BY <1>1, LikeWith
<1> QED
  BY <1>2 DEF staged, Outcome

(* What a run that has not yet answered is like. *)
LEMMA RunIs ==
    ASSUME AnsweringInv, NEW a \in Questions
    PROVE  /\ Like(run[a], run[a].stage, run[a].streamed, run[a].text, run[a].released)
           /\ run[a].stage \in PipelineStages /\ run[a].streamed \in BOOLEAN
           /\ run[a].text \in Seq(Tokens) /\ run[a].released \in 0..Len(run[a].text)
           /\ shown[a].events \in Nat /\ shown[a].fragments \in Seq(Tokens)
           /\ run[a].stage \notin Ended => shown[a].fragments = SubSeq(run[a].text, 1, run[a].released)
           /\ run[a].stage \notin {"stream", "verify"} => run[a].text = <<>> /\ run[a].released = 0
           /\ run[a].stage \notin {"stream", "verify"} \cup Ended => shown[a].fragments = <<>>
           /\ run[a].stage \in {"idle", "retrieve"} => shown[a].events = 0
           /\ run[a].stage \in {"assemble", "call"} => shown[a].events <= 1
           /\ run[a].stage = "stream" => /\ run[a].streamed
                                        /\ shown[a].events <= Len(run[a].text) + 1
                                        /\ Len(run[a].text) <= MaxTokens
<1>1. RunOK(run[a], shown[a])
  BY DEF AnsweringInv
<1>2. run[a].stage \notin {"stream", "verify"} => run[a].text = <<>> /\ run[a].released = 0
  BY <1>1, NothingShown DEF RunOK
<1> QED
  BY <1>1, <1>2, NothingShown DEF RunOK, Like, Ended

(* A run that ends: it fails, refuses or concludes. *)
LEMMA Ends ==
    ASSUME AnsweringInv, NEW a \in Questions, run[a].stage \notin Ended \cup {"idle"},
           \/ Fails(a)
           \/ Rejects(a) /\ shown[a].events = 0
           \/ Declines(a)
           \/ \E text, answer : Grounds(a, text, answer)
    PROVE  AnsweringInv' /\ [R!ReplyNext]_Described
<1>1. ASSUME NEW s \in Ended, NEW changed, Like(changed, s, run[a].streamed, <<>>, 0),
             GoesOn(a, changed, FALSE), s = "rejected" => shown[a].events = 0
      PROVE  AnsweringInv' /\ [R!ReplyNext]_Described
  <2>1. s \in PipelineStages \ {"idle", "retrieve"} /\ s \notin {"stream", "verify", "assemble", "call"}
    BY DEF Ended, PipelineStages
  <2> QED
    <3>1. <<>> \in Seq(Tokens) /\ 0 \in 0..Len(<<>>)
      BY NothingShown
    <3> QED
      BY <1>1, <2>1, <3>1, Quiet
<1>2. CASE Fails(a)
  BY <1>1, <1>2, OutcomeIs DEF Fails, Ended
<1>3. CASE Rejects(a) /\ shown[a].events = 0
  BY <1>1, <1>3, OutcomeIs DEF Rejects, Ended
<1>4. CASE Declines(a)
  <2> DEFINE done == Outcome(a, "done")
             first == [done EXCEPT !.answer = NoEvidence]
  <2>1. GoesOn(a, first, FALSE)
    BY <1>4 DEF Declines
  <2>2. Like(done, "done", run[a].streamed, <<>>, 0)
    BY OutcomeIs
  <2> HIDE DEF done
  <2>3. Like(first, "done", run[a].streamed, <<>>, 0)
    BY <2>2, LikeWith
  <2> HIDE DEF first
  <2> QED
    BY <1>1, <2>1, <2>3 DEF Ended
<1>5. ASSUME NEW text, NEW answer, Grounds(a, text, answer)
      PROVE  AnsweringInv' /\ [R!ReplyNext]_Described
  <2> DEFINE first == [Outcome(a, "done") EXCEPT !.answer = answer]
             second == [first EXCEPT !.grounded = TRUE]
             third == [second EXCEPT !.context = run[a].context]
             fourth == [third EXCEPT !.cited = Cited(text) \cap 1..run[a].context]
             fifth == [fourth EXCEPT !.nested = Nested(text)]
  <2>1. GoesOn(a, fifth, FALSE)
    BY <1>5 DEF Grounds
  <2>2. Like(first, "done", run[a].streamed, <<>>, 0)
    BY OutcomeIs, LikeWith
  <2> HIDE DEF first
  <2>3. Like(second, "done", run[a].streamed, <<>>, 0)
    BY <2>2, LikeWith
  <2> HIDE DEF second
  <2>4. Like(third, "done", run[a].streamed, <<>>, 0)
    BY <2>3, LikeWith
  <2> HIDE DEF third
  <2>5. Like(fourth, "done", run[a].streamed, <<>>, 0)
    BY <2>4, LikeWith
  <2> HIDE DEF fourth
  <2>6. Like(fifth, "done", run[a].streamed, <<>>, 0)
    BY <2>5, LikeWith
  <2> HIDE DEF fifth
  <2> QED
    BY <1>1, <2>1, <2>6 DEF Ended
<1> QED
  BY <1>2, <1>3, <1>4, <1>5

LEMMA JudgeEnds ==
    ASSUME NEW a, NEW text, Judge(a, text)
    PROVE  Fails(a) \/ Declines(a) \/ \E answer : Grounds(a, text, answer)
BY DEF Judge

LEMMA Judged ==
    ASSUME AnsweringInv, NEW a \in Questions, run[a].stage \notin Ended \cup {"idle"},
           NEW text, Judge(a, text)
    PROVE  AnsweringInv' /\ [R!ReplyNext]_Described
BY JudgeEnds, Ends

LEMMA StartStep ==
    ASSUME AnsweringInv, NEW a \in Questions, NEW streamed \in BOOLEAN, Begin(a, streamed)
    PROVE  AnsweringInv' /\ [R!ReplyNext]_Described
<1> DEFINE staged == [NoRun EXCEPT !.stage = "retrieve"]
           begun == [staged EXCEPT !.streamed = streamed]
<1>1. Like(staged, "retrieve", NoRun.streamed, <<>>, 0) /\ staged.handed = FALSE
  <2>1. NoRun.handed = FALSE /\ IsRun(NoRun)
    BY NoRunIs DEF Like
  <2>2. staged.handed = NoRun.handed
    BY <2>1 DEF IsRun
  <2> QED
    BY <2>1, <2>2, NoRunIs, LikeWith
<1>2. run[a].stage = "idle" /\ shown' = shown /\ run' = [run EXCEPT ![a] = begun]
  BY DEF Begin, At
<1> HIDE DEF staged
<1>3. Like(begun, "retrieve", streamed, <<>>, 0)
  BY <1>1, LikeWith
<1>4. begun.handed = FALSE
  BY <1>1 DEF Like, IsRun
<1> HIDE DEF begun
<1>5. /\ run'[a] = begun /\ \A b \in Questions \ {a} : run'[b] = run[b] /\ shown'[b] = shown[b]
      /\ run' = [b \in Questions |-> run'[b]] /\ shown' = [b \in Questions |-> shown'[b]]
  BY <1>2 DEF AnsweringInv
<1>6. RunOK(run[a], shown[a])
  BY DEF AnsweringInv
<1>7. RunOK(run'[a], shown'[a])
  <2>1. shown[a].fragments = <<>> /\ shown[a].events = 0
    BY <1>2, RunIs DEF Ended
  <2> QED
    <3>1. /\ run'[a].stage = "retrieve" /\ run'[a].streamed = streamed /\ run'[a].text = <<>>
          /\ run'[a].released = 0 /\ run'[a].handed = FALSE /\ IsRun(run'[a])
      BY <1>3, <1>4, <1>5 DEF Like
    <3>2. run'[a].handed \in BOOLEAN /\ run'[a].streamed \in BOOLEAN
          /\ run'[a].stage \in PipelineStages
      BY <3>1 DEF PipelineStages
    <3>3. shown'[a] = shown[a]
      BY <1>2
    <3>4. <<>> \in Seq(Tokens) /\ 0 \in 0..Len(<<>>)
      BY NothingShown
    <3> QED
      BY <1>6, <2>1, <3>1, <3>2, <3>3, <3>4, NothingShown DEF RunOK
<1> QED
  <2>1. run'[a].stage = "retrieve" /\ ~run'[a].handed /\ shown'[a].events = 0
    BY <1>2, <1>3, <1>4, <1>5, <1>6 DEF Like, RunOK
  <2> QED
    BY <1>2, <1>5, <1>7, <2>1, RunIsReply DEF Ended

(* A text one token longer, and a text released whole.                     *)
LEMMA TextGrows ==
    ASSUME NEW T, NEW t \in Seq(T), NEW x \in T, NEW r \in 0..Len(t)
    PROVE  /\ Append(t, x) \in Seq(T) /\ Len(Append(t, x)) = Len(t) + 1 /\ Append(t, x) # <<>>
           /\ SubSeq(Append(t, x), 1, r) = SubSeq(t, 1, r)
           /\ SubSeq(t, 1, r) \o SubSeq(Append(t, x), r + 1, Len(t) + 1) = Append(t, x)
           /\ SubSeq(Append(t, x), 1, Len(t) + 1) = Append(t, x)
OBVIOUS

LEMMA WholeText ==
    ASSUME NEW T, NEW t \in Seq(T)
    PROVE  SubSeq(t, 1, Len(t)) = t /\ <<>> \o SubSeq(t, 1, Len(t)) = t /\ Len(t) \in Nat
OBVIOUS

LEMMA TextIs ==
    ASSUME MaxTokens \in Nat, NEW t \in Texts
    PROVE  t \in Seq(Tokens) /\ Len(t) <= MaxTokens
<1>1. PICK k \in 0..MaxTokens : t \in [1..k -> Tokens]
  BY DEF Texts
<1> QED
  BY <1>1

LEMMA RetrieveStep ==
    ASSUME AnsweringInv, MaxTokens \in Nat, NEW a \in Questions, Retrieve(a)
    PROVE  AnsweringInv' /\ [R!ReplyNext]_Described
<1>1. run[a].stage = "retrieve"
  BY DEF Retrieve, At
<1>2. CASE Rejects(a) \/ Fails(a)
  BY <1>1, <1>2, RunIs, Ends DEF Ended
<1>3. ASSUME NEW n \in 0..MaxPassages, NEW lengths \in [1..n -> Lengths],
             GoesOn(a, [run[a] EXCEPT !.stage = IF n = 0 THEN "format" ELSE "assemble",
                                        !.passages = lengths], run[a].streamed)
      PROVE  AnsweringInv' /\ [R!ReplyNext]_Described
  <2> DEFINE s == IF n = 0 THEN "format" ELSE "assemble"
             staged == [run[a] EXCEPT !.stage = s]
             found == [staged EXCEPT !.passages = lengths]
  <2>0. Like(run[a], "retrieve", run[a].streamed, <<>>, 0)
    BY <1>1, RunIs
  <2>1. Like(staged, s, run[a].streamed, <<>>, 0)
    <3> HIDE DEF s
    <3> QED
      BY <2>0, LikeWith
  <2>2. GoesOn(a, found, run[a].streamed)
    BY <1>3
  <2>3. /\ s \in PipelineStages \ (Ended \cup {"idle", "retrieve"})
        /\ s \notin {"stream", "verify"} /\ s # "rejected"
    BY DEF PipelineStages, Ended
  <2>9. run[a].stage \notin Ended \cup {"idle"} /\ s \notin Ended
    BY <1>1, <2>3 DEF Ended
  <2> HIDE DEF s, staged
  <2>4. Like(found, s, run[a].streamed, <<>>, 0)
    BY <2>1, LikeWith
  <2> HIDE DEF found
  <2>5. /\ shown[a].fragments = <<>> /\ shown[a].events = 0 /\ run[a].released = 0
        /\ run[a].streamed \in BOOLEAN
    BY <1>1, RunIs DEF Ended
  <2>6. /\ <<>> \in Seq(Tokens) /\ 0 \in 0..Len(<<>>) /\ SubSeq(<<>>, 1, 0) = <<>>
        /\ <<>> \o SubSeq(<<>>, 0 + 1, 0) = SubSeq(<<>>, 1, 0)
    BY NothingShown
  <2>7. CASE run[a].streamed = TRUE
    <3>1. GoesOn(a, found, TRUE)
      BY <2>2, <2>7, Zenon
    <3>2. shown[a].fragments \o SubSeq(<<>>, run[a].released + 1, 0) = SubSeq(<<>>, 1, 0)
      BY <2>5, <2>6
    <3>3. /\ SubSeq(<<>>, 1, 0) \in Seq(Tokens) /\ ~IsPrefix(Sentinel, SubSeq(<<>>, 1, 0))
          /\ shown[a].events < MaxTokens + 1
      <4>1. shown[a].events < MaxTokens + 1
        BY <2>5
      <4> QED
        BY <2>6, <4>1, NothingShown
    <3>4. run[a].streamed
      BY <2>7, Zenon
    <3> QED
      BY <2>3, <2>4, <2>5, <2>6, <2>9, <3>1, <3>2, <3>3, <3>4, Speaks
  <2>8. CASE run[a].streamed = FALSE
    <3>1. GoesOn(a, found, FALSE)
      BY <2>2, <2>8, Zenon
    <3> QED
      <4>1. /\ s \in PipelineStages \ {"idle", "retrieve"} /\ shown[a].fragments = SubSeq(<<>>, 1, 0)
            /\ s = "stream" => /\ run[a].streamed /\ shown[a].events <= Len(<<>>) + 1
                               /\ Len(<<>>) <= MaxTokens
            /\ s \in {"assemble", "call"} => shown[a].events <= 1
        BY <2>3, <2>5, <2>6
      <4> QED
        BY <2>3, <2>4, <2>6, <2>9, <3>1, <4>1, Quiet
  <2> QED
    BY <2>5, <2>7, <2>8
<1> QED
  BY <1>2, <1>3 DEF Retrieve

LEMMA AssembleStep ==
    ASSUME AnsweringInv, MaxTokens \in Nat, NEW a \in Questions, Assemble(a)
    PROVE  AnsweringInv' /\ [R!ReplyNext]_Described
<1>1. run[a].stage = "assemble"
  BY DEF Assemble, At
<1>2. CASE Fails(a)
  BY <1>1, <1>2, Ends DEF Ended
<1>3. ASSUME NEW context,
             GoesOn(a, [run[a] EXCEPT !.stage = IF run[a].streamed THEN "stream" ELSE "call",
                                        !.passages = <<>>, !.context = context], FALSE)
      PROVE  AnsweringInv' /\ [R!ReplyNext]_Described
  <2> DEFINE s == IF run[a].streamed THEN "stream" ELSE "call"
             staged == [run[a] EXCEPT !.stage = s]
             emptied == [staged EXCEPT !.passages = <<>>]
             rendered == [emptied EXCEPT !.context = context]
  <2>1. GoesOn(a, rendered, FALSE)
    BY <1>3
  <2>2. s = "call" \/ (s = "stream" /\ run[a].streamed)
    OBVIOUS
  <2>0. Like(run[a], "assemble", run[a].streamed, <<>>, 0)
    BY <1>1, RunIs
  <2>3. Like(staged, s, run[a].streamed, <<>>, 0)
    <3> HIDE DEF s
    <3> QED
      BY <2>0, LikeWith
  <2> HIDE DEF s, staged
  <2>4. Like(emptied, s, run[a].streamed, <<>>, 0)
    BY <2>3, LikeWith
  <2> HIDE DEF emptied
  <2>5. Like(rendered, s, run[a].streamed, <<>>, 0)
    BY <2>4, LikeWith
  <2> HIDE DEF rendered
  <2>6. shown[a].fragments = <<>> /\ shown[a].events <= 1
    BY <1>1, RunIs DEF Ended
  <2>7. /\ <<>> \in Seq(Tokens) /\ 0 \in 0..Len(<<>>) /\ SubSeq(<<>>, 1, 0) = <<>>
        /\ Len(<<>>) = 0
    BY NothingShown
  <2>8. s \in PipelineStages \ {"idle", "retrieve"} /\ s \notin Ended /\ s \notin {"verify", "assemble"}
    BY <2>2 DEF PipelineStages, Ended
  <2> QED
    <3>1. /\ run[a].stage \notin Ended \cup {"idle"}
          /\ s = "stream" => /\ run[a].streamed /\ shown[a].events <= Len(<<>>) + 1
                             /\ Len(<<>>) <= MaxTokens
      BY <1>1, <2>2, <2>6, <2>7 DEF Ended
    <3> QED
      <4>1. /\ shown[a].fragments = SubSeq(<<>>, 1, 0) /\ s # "rejected"
            /\ s \in {"assemble", "call"} => shown[a].events <= 1
            /\ s \notin {"stream", "verify"} => <<>> = <<>>
        BY <2>2, <2>6, <2>7
      <4> QED
        BY <2>1, <2>5, <2>7, <2>8, <3>1, <4>1, Quiet
<1> QED
  BY <1>2, <1>3 DEF Assemble

LEMMA FragmentStep ==
    ASSUME AnsweringInv, MaxTokens \in Nat, NEW a \in Questions, Fragment(a)
    PROVE  AnsweringInv' /\ [R!ReplyNext]_Described
<1>1. run[a].stage = "stream" /\ Len(run[a].text) < MaxTokens
  BY DEF Fragment, At
<1>2. PICK token \in Tokens :
        GoesOn(a, [run[a] EXCEPT !.text = Append(run[a].text, token),
                                   !.released = IF Withheld(Append(run[a].text, token)) THEN @
                                                ELSE Len(Append(run[a].text, token))],
                 ~Withheld(Append(run[a].text, token)))
  BY DEF Fragment
<1>3. PICK text : text = Append(run[a].text, token)
  OBVIOUS
<1> DEFINE grown == [run[a] EXCEPT !.text = text]
           freed(n) == [grown EXCEPT !.released = n]
<1>4. /\ Like(run[a], "stream", run[a].streamed, run[a].text, run[a].released)
      /\ run[a].streamed /\ run[a].text \in Seq(Tokens) /\ run[a].released \in 0..Len(run[a].text)
      /\ shown[a].events \in Nat /\ shown[a].events <= Len(run[a].text) + 1
      /\ shown[a].fragments = SubSeq(run[a].text, 1, run[a].released)
  BY <1>1, RunIs DEF Ended
<1>5. Like(grown, "stream", run[a].streamed, text, run[a].released)
  BY <1>4, LikeWith
<1>6. ASSUME NEW n PROVE Like(freed(n), "stream", run[a].streamed, text, n)
  <2> HIDE DEF grown
  <2> QED
    BY <1>5, LikeWith
<1>7. grown.released = run[a].released
  BY <1>5 DEF Like
<1>8. /\ text \in Seq(Tokens) /\ Len(text) = Len(run[a].text) + 1 /\ Len(text) <= MaxTokens
      /\ run[a].released \in 0..Len(text) /\ Len(text) \in 0..Len(text)
      /\ SubSeq(text, 1, run[a].released) = SubSeq(run[a].text, 1, run[a].released)
      /\ SubSeq(run[a].text, 1, run[a].released) \o SubSeq(text, run[a].released + 1, Len(text)) = text
      /\ SubSeq(text, 1, Len(text)) = text
  <2>1. /\ text \in Seq(Tokens) /\ Len(text) = Len(run[a].text) + 1
        /\ SubSeq(text, 1, run[a].released) = SubSeq(run[a].text, 1, run[a].released)
        /\ SubSeq(run[a].text, 1, run[a].released)
              \o SubSeq(text, run[a].released + 1, Len(run[a].text) + 1) = text
        /\ SubSeq(text, 1, Len(run[a].text) + 1) = text
    <3>1. /\ run[a].text \in Seq(Tokens) /\ run[a].released \in 0..Len(run[a].text)
      BY <1>4
    <3> QED
      BY <1>3, <3>1, TextGrows
  <2>2. Len(run[a].text) \in Nat
    BY <1>4
  <2> QED
    <3>1. Len(text) <= MaxTokens
      BY <1>1, <2>1, <2>2
    <3>2. run[a].released \in 0..Len(text) /\ Len(text) \in 0..Len(text)
      BY <1>4, <2>1, <2>2
    <3>3. SubSeq(run[a].text, 1, run[a].released) \o SubSeq(text, run[a].released + 1, Len(text)) = text
      BY <2>1
    <3>4. SubSeq(text, 1, Len(text)) = text
      BY <2>1
    <3> QED
      BY <2>1, <3>1, <3>2, <3>3, <3>4
<1>9. /\ run[a].stage \notin Ended \cup {"idle"} /\ "stream" \notin Ended
       /\ "stream" \in PipelineStages \ (Ended \cup {"idle", "retrieve"})
       /\ "stream" \in PipelineStages \ {"idle", "retrieve"}
  BY <1>1 DEF Ended, PipelineStages
<1>10. /\ shown[a].events <= Len(text) /\ shown[a].events <= Len(text) + 1
       /\ shown[a].events < MaxTokens + 1
  BY <1>1, <1>4, <1>8
<1>11. CASE Withheld(text)
  <2>1. GoesOn(a, freed(run[a].released), FALSE)
    BY <1>2, <1>3, <1>7, <1>11
  <2> HIDE DEF freed
  <2> QED
    <3>1. Like(freed(run[a].released), "stream", run[a].streamed, text, run[a].released)
      BY <1>6
    <3>2. /\ text \in Seq(Tokens) /\ run[a].released \in 0..Len(text)
          /\ Len(text) <= MaxTokens /\ run[a].streamed
          /\ shown[a].fragments = SubSeq(text, 1, run[a].released)
      BY <1>4, <1>8
    <3> QED
      BY <1>9, <1>10, <2>1, <3>1, <3>2, Quiet
<1>12. CASE ~Withheld(text)
  <2>1. GoesOn(a, freed(Len(text)), TRUE)
    BY <1>2, <1>3, <1>7, <1>12
  <2>2. ~IsPrefix(Sentinel, text)
    BY <1>12 DEF Withheld
  <2> HIDE DEF freed
  <2> QED
    <3>1. Like(freed(Len(text)), "stream", run[a].streamed, text, Len(text))
      BY <1>6
    <3>2. /\ shown[a].fragments \o SubSeq(text, run[a].released + 1, Len(text)) =
              SubSeq(text, 1, Len(text))
          /\ SubSeq(text, 1, Len(text)) \in Seq(Tokens)
          /\ ~IsPrefix(Sentinel, SubSeq(text, 1, Len(text)))
      BY <1>4, <1>8, <2>2
    <3> QED
      BY <1>4, <1>8, <1>9, <1>10, <2>1, <3>1, <3>2, Speaks
<1> QED
  BY <1>11, <1>12

LEMMA StreamBreaksStep ==
    ASSUME AnsweringInv, MaxTokens \in Nat, NEW a \in Questions, StreamBreaks(a)
    PROVE  AnsweringInv' /\ [R!ReplyNext]_Described
<1>1. run[a].stage = "stream"
  BY DEF StreamBreaks, At
<1>2. run[a].stage \notin Ended \cup {"idle"} /\ "call" \in PipelineStages \ {"idle", "retrieve"}
      /\ "call" \notin Ended
  BY <1>1 DEF Ended, PipelineStages
<1>3. CASE Fails(a)
  BY <1>2, <1>3, Ends
<1>4. ASSUME run[a].text = <<>>, GoesOn(a, [run[a] EXCEPT !.stage = "call"], FALSE)
      PROVE  AnsweringInv' /\ [R!ReplyNext]_Described
  <2>1. /\ Like(run[a], "stream", run[a].streamed, <<>>, run[a].released)
        /\ run[a].released \in 0..Len(<<>>) /\ <<>> \in Seq(Tokens)
        /\ shown[a].fragments = SubSeq(<<>>, 1, run[a].released)
        /\ shown[a].events <= 1
    BY <1>1, <1>2, <1>4, RunIs, NothingShown
  <2>2. Like([run[a] EXCEPT !.stage = "call"], "call", run[a].streamed, <<>>, run[a].released)
    BY <2>1, LikeWith
  <2> QED
    BY <1>2, <1>4, <2>1, <2>2, Quiet
<1> QED
  BY <1>3, <1>4 DEF StreamBreaks

LEMMA CallFailsStep ==
    ASSUME AnsweringInv, MaxTokens \in Nat, NEW a \in Questions, CallFails(a)
    PROVE  AnsweringInv' /\ [R!ReplyNext]_Described
<1>1. run[a].stage = "call"
  BY DEF CallFails, At
<1>2. run[a].stage \notin Ended \cup {"idle"} /\ "call" \in PipelineStages \ {"idle", "retrieve"}
      /\ "call" \notin Ended
  BY <1>1 DEF Ended, PipelineStages
<1>3. CASE Fails(a)
  BY <1>2, <1>3, Ends
<1>4. ASSUME GoesOn(a, [run[a] EXCEPT !.attempt = @ + 1], FALSE)
      PROVE  AnsweringInv' /\ [R!ReplyNext]_Described
  <2>1. /\ Like(run[a], "call", run[a].streamed, <<>>, 0) /\ shown[a].events <= 1
        /\ shown[a].fragments = SubSeq(<<>>, 1, 0)
    <3>1. shown[a].fragments = SubSeq(<<>>, 1, 0)
      BY <1>1, RunIs, NothingShown DEF Ended
    <3> QED
      BY <1>1, <3>1, RunIs
  <2>2. <<>> \in Seq(Tokens) /\ 0 \in 0..Len(<<>>)
    BY NothingShown
  <2>3. Like([run[a] EXCEPT !.attempt = @ + 1], "call", run[a].streamed, <<>>, 0)
    BY <2>1, LikeWith
  <2> QED
    BY <1>2, <1>4, <2>1, <2>2, <2>3, Quiet
<1> QED
  BY <1>3, <1>4 DEF CallFails

LEMMA CallAnswersStep ==
    ASSUME AnsweringInv, MaxTokens \in Nat, NEW a \in Questions, CallAnswers(a)
    PROVE  AnsweringInv' /\ [R!ReplyNext]_Described
<1>1. run[a].stage = "call"
  BY DEF CallAnswers, At
<1>2. /\ run[a].stage \notin Ended \cup {"idle"}
      /\ "verify" \in PipelineStages \ (Ended \cup {"idle", "retrieve"})
  BY <1>1 DEF Ended, PipelineStages
<1>3. PICK text \in Texts :
        IF run[a].streamed /\ text # <<>> /\ ~Withheld(text)
        THEN GoesOn(a, [run[a] EXCEPT !.stage = "verify", !.text = text,
                                        !.released = Len(text)], TRUE)
        ELSE Judge(a, text)
  BY DEF CallAnswers
<1>4. CASE run[a].streamed /\ text # <<>> /\ ~Withheld(text)
  <2> DEFINE staged == [run[a] EXCEPT !.stage = "verify"]
             worded == [staged EXCEPT !.text = text]
             freed == [worded EXCEPT !.released = Len(text)]
  <2>1. GoesOn(a, freed, TRUE)
    BY <1>3, <1>4
  <2>2. /\ Like(run[a], "call", run[a].streamed, <<>>, 0) /\ shown[a].events <= 1
        /\ shown[a].fragments = <<>> /\ run[a].released = 0 /\ shown[a].events \in Nat
    BY <1>1, RunIs DEF Ended
  <2>3. Like(staged, "verify", run[a].streamed, <<>>, 0)
    BY <2>2, LikeWith
  <2> HIDE DEF staged
  <2>4. Like(worded, "verify", run[a].streamed, text, 0)
    BY <2>3, LikeWith
  <2> HIDE DEF worded
  <2>5. Like(freed, "verify", run[a].streamed, text, Len(text))
    BY <2>4, LikeWith
  <2> HIDE DEF freed
  <2>6. /\ text \in Seq(Tokens) /\ Len(text) <= MaxTokens /\ Len(text) \in 0..Len(text)
        /\ SubSeq(text, 1, Len(text)) = text /\ <<>> \o SubSeq(text, 1, Len(text)) = text
        /\ Len(text) # 0
    BY <1>4, TextIs, WholeText
  <2>7. shown[a].events < MaxTokens + 1
    BY <2>2, <2>6
  <2>8. ~IsPrefix(Sentinel, SubSeq(text, 1, Len(text)))
    BY <1>4, <2>6 DEF Withheld
  <2>9. shown[a].fragments \o SubSeq(text, run[a].released + 1, Len(text)) =
          SubSeq(text, 1, Len(text))
    BY <2>2, <2>6
  <2> QED
    BY <1>2, <1>4, <2>1, <2>5, <2>6, <2>7, <2>8, <2>9, Speaks
<1>5. CASE ~(run[a].streamed /\ text # <<>> /\ ~Withheld(text))
  BY <1>2, <1>3, <1>5, Judged
<1> QED
  BY <1>4, <1>5

LEMMA AnsweringSteps ==
    ASSUME AnsweringInv, MaxTokens \in Nat, [AnsweringNext]_answeringVars
    PROVE  AnsweringInv' /\ [R!ReplyNext]_Described
<1>1. ASSUME NEW a \in Questions, NEW streamed \in BOOLEAN, Begin(a, streamed)
      PROVE  AnsweringInv' /\ [R!ReplyNext]_Described
  BY <1>1, StartStep
<1>2. ASSUME NEW a \in Questions, RunStep(a)
      PROVE  AnsweringInv' /\ [R!ReplyNext]_Described
  <2>1. CASE Retrieve(a)
    BY <2>1, RetrieveStep
  <2>2. CASE ReportNoEvidence(a)
    BY <2>2, Ends DEF ReportNoEvidence, At, Ended
  <2>3. CASE Assemble(a)
    BY <2>3, AssembleStep
  <2>4. CASE Fragment(a)
    BY <2>4, FragmentStep
  <2>5. CASE StreamEnds(a)
    BY <2>5, Judged DEF StreamEnds, At, Ended
  <2>6. CASE StreamBreaks(a)
    BY <2>6, StreamBreaksStep
  <2>7. CASE CallFails(a)
    BY <2>7, CallFailsStep
  <2>8. CASE CallAnswers(a)
    BY <2>8, CallAnswersStep
  <2>9. CASE Verify(a)
    BY <2>9, Judged DEF Verify, At, Ended
  <2> QED
    BY <1>2, <2>1, <2>2, <2>3, <2>4, <2>5, <2>6, <2>7, <2>8, <2>9 DEF RunStep
<1>3. CASE UNCHANGED answeringVars
  <2>1. run' = run /\ shown' = shown
    BY <1>3 DEF answeringVars
  <2>2. Described' = Described
    BY <2>1 DEF Described, Phase, At
  <2> QED
    BY <2>1, <2>2 DEF AnsweringInv
<1> QED
  BY <1>1, <1>2, <1>3 DEF AnsweringNext

(* What a reader holds is what was released of the one reply being made.   *)
THEOREM AnsweringInvariant == AnsweringSpec => []AnsweringInv
<1>1. MaxTokens \in Nat
  BY AnsweringAssumption DEF AnsweringAssumption
<1>2. AnsweringInv /\ [AnsweringNext]_answeringVars => AnsweringInv'
  BY <1>1, AnsweringSteps
<1> QED
  BY <1>2, AnsweringBegins, PTL DEF AnsweringSpec

(* A run of the pipeline is one of module Reply: it refuses before its     *)
(* first event or not at all, hands events over one at a time, within      *)
(* their bound and only when streamed, and ends once (answer, stream).     *)
THEOREM PipelineKeepsReply == AnsweringSpec => ImplementsReply
<1>1. AnsweringInit => R!ReplyInit
  <2> SUFFICES ASSUME AnsweringInit PROVE R!ReplyInit
    OBVIOUS
  <2>1. ASSUME NEW a \in Questions
        PROVE [phase |-> Phase(a), streamed |-> run[a].streamed,
               events |-> shown[a].events, handed |-> run[a].handed] = R!NoReply
    <3>1. run[a] = NoRun /\ shown[a] = NoShown
      BY DEF AnsweringInit
    <3>2. Phase(a) = "idle"
      BY <3>1, NoRunIs DEF Phase, At, Like
    <3>3. run[a].streamed = FALSE /\ run[a].handed = FALSE /\ shown[a].events = 0
      BY <3>1 DEF NoRun, NoShown
    <3> QED
      BY <3>2, <3>3, Zenon DEF R!NoReply
  <2> QED
    BY <2>1, Zenon DEF R!ReplyInit
<1>2. AnsweringInv /\ [AnsweringNext]_answeringVars => [R!ReplyNext]_Described
  <2>1. MaxTokens \in Nat
    BY AnsweringAssumption DEF AnsweringAssumption
  <2> QED
    BY <2>1, AnsweringSteps
<1> QED
  BY <1>1, <1>2, AnsweringInvariant, PTL DEF AnsweringSpec, ImplementsReply, R!ReplySpec, Described

(* A reply that opens with the refusal sentinel is never shown as it       *)
(* streams, however the sentinel is cut into fragments                     *)
(* (sentinel_prefix_pending).                                              *)
THEOREM SentinelStaysWithheld == AnsweringSpec => []SentinelIsWithheld
<1>1. AnsweringInv => SentinelIsWithheld
  BY DEF AnsweringInv, RunOK, SentinelIsWithheld
<1> QED
  BY <1>1, AnsweringInvariant, PTL

(* A reader's fragments begin the one reply the outcome is made of: no     *)
(* second attempt continues what a broken stream has shown                 *)
(* (_generate_streaming).                                                  *)
THEOREM FragmentsBeginTheReply == AnsweringSpec => []FragmentsAreOneReply
<1>1. ASSUME NEW T, NEW t \in Seq(T), NEW n \in 0..Len(t)
      PROVE  IsPrefix(SubSeq(t, 1, n), t)
  BY DEF IsPrefix
<1>2. AnsweringInv => FragmentsAreOneReply
  BY <1>1 DEF AnsweringInv, RunOK, FragmentsAreOneReply
<1> QED
  BY <1>2, AnsweringInvariant, PTL

-----------------------------------------------------------------------------
(* The passages a prompt is made of.                                       *)

(* What a run's prompt rests on.                                           *)
Content(r, s, p, c) == IsRun(r) /\ r.stage = s /\ r.passages = p /\ r.context = c

LEMMA ContentWith ==
    ASSUME NEW r, NEW s, NEW p, NEW c, Content(r, s, p, c), NEW v
    PROVE  /\ Content([r EXCEPT !.stage = v], v, p, c)
           /\ Content([r EXCEPT !.streamed = v], s, p, c)
           /\ Content([r EXCEPT !.text = v], s, p, c)
           /\ Content([r EXCEPT !.released = v], s, p, c)
           /\ Content([r EXCEPT !.passages = v], s, v, c)
           /\ Content([r EXCEPT !.context = v], s, p, v)
           /\ Content([r EXCEPT !.attempt = v], s, p, c)
           /\ Content([r EXCEPT !.answer = v], s, p, c)
           /\ Content([r EXCEPT !.grounded = v], s, p, c)
           /\ Content([r EXCEPT !.handed = v], s, p, c)
           /\ Content([r EXCEPT !.cited = v], s, p, c)
           /\ Content([r EXCEPT !.nested = v], s, p, c)
<1>1. Content([r EXCEPT !.stage = v], v, p, c)
  BY DEF Content, IsRun
<1>2. Content([r EXCEPT !.streamed = v], s, p, c)
  BY DEF Content, IsRun
<1>3. Content([r EXCEPT !.text = v], s, p, c)
  BY DEF Content, IsRun
<1>4. Content([r EXCEPT !.released = v], s, p, c)
  BY DEF Content, IsRun
<1>5. Content([r EXCEPT !.passages = v], s, v, c)
  BY DEF Content, IsRun
<1>6. Content([r EXCEPT !.context = v], s, p, v)
  BY DEF Content, IsRun
<1>7. Content([r EXCEPT !.attempt = v], s, p, c)
  BY DEF Content, IsRun
<1>8. Content([r EXCEPT !.answer = v], s, p, c)
  BY DEF Content, IsRun
<1>9. Content([r EXCEPT !.grounded = v], s, p, c)
  BY DEF Content, IsRun
<1>10. Content([r EXCEPT !.handed = v], s, p, c)
  BY DEF Content, IsRun
<1>11. Content([r EXCEPT !.cited = v], s, p, c)
  BY DEF Content, IsRun
<1>12. Content([r EXCEPT !.nested = v], s, p, c)
  BY DEF Content, IsRun
<1> QED
  BY <1>1, <1>2, <1>3, <1>4, <1>5, <1>6, <1>7, <1>8, <1>9, <1>10, <1>11, <1>12

OutcomeOK(r) == r.passages \in Seq(Lengths) /\ r.context \in Nat

OutcomeInv == \A a \in Questions : OutcomeOK(run[a])

LEMMA NoRunContent ==
    /\ Content(NoRun, "idle", <<>>, 0)
    /\ <<>> \in Seq(Lengths) /\ 0 \in Nat
<1>1. IsRun(NoRun)
  BY DEF NoRun, IsRun
<1>2. NoRun.stage = "idle" /\ NoRun.passages = <<>> /\ NoRun.context = 0
  BY DEF NoRun
<1> QED
  BY <1>1, <1>2 DEF Content

LEMMA OutcomeContent ==
    ASSUME NEW a \in Questions, NEW s
    PROVE  Content(Outcome(a, s), s, <<>>, 0)
<1> DEFINE staged == [NoRun EXCEPT !.stage = s]
<1>1. Content(staged, s, <<>>, 0)
  BY NoRunContent, ContentWith
<1> HIDE DEF staged
<1>2. Content([staged EXCEPT !.streamed = run[a].streamed], s, <<>>, 0)
  BY <1>1, ContentWith
<1> QED
  BY <1>2 DEF staged, Outcome

LEMMA RunContent ==
    ASSUME AnsweringInv, OutcomeInv, NEW a \in Questions
    PROVE  /\ Content(run[a], run[a].stage, run[a].passages, run[a].context)
           /\ run[a].passages \in Seq(Lengths) /\ run[a].context \in Nat
           /\ run[a].text \in Seq(Tokens)
<1>1. RunOK(run[a], shown[a])
  BY DEF AnsweringInv
<1>2. IsRun(run[a]) /\ run[a].text \in Seq(Tokens)
  BY <1>1 DEF RunOK
<1> QED
  BY <1>2 DEF OutcomeInv, OutcomeOK, Content

LEMMA OutcomeGoesOn ==
    ASSUME AnsweringInv, OutcomeInv, NEW a \in Questions, NEW changed, NEW handed,
           GoesOn(a, changed, handed),
           NEW s, NEW p \in Seq(Lengths), NEW c \in Nat, Content(changed, s, p, c)
    PROVE  OutcomeInv'
<1>1. run' = [run EXCEPT ![a] = [changed EXCEPT !.handed = handed]]
  BY DEF GoesOn
<1>2. Content([changed EXCEPT !.handed = handed], s, p, c)
  BY ContentWith
<1>3. run'[a] = [changed EXCEPT !.handed = handed] /\ \A b \in Questions \ {a} : run'[b] = run[b]
  BY <1>1 DEF AnsweringInv
<1>4. Content(run'[a], s, p, c)
  BY <1>2, <1>3, Zenon
<1>5. OutcomeOK(run'[a])
  BY <1>4 DEF Content, OutcomeOK
<1>6. \A b \in Questions : OutcomeOK(run'[b])
  BY <1>3, <1>5 DEF OutcomeInv
<1> QED
  BY <1>6 DEF OutcomeInv

LEMMA OutcomeEnds ==
    ASSUME AnsweringInv, OutcomeInv, NEW a \in Questions,
           \/ Fails(a) \/ Rejects(a) \/ Declines(a)
           \/ \E text, answer : Grounds(a, text, answer)
    PROVE  OutcomeInv'
<1>1. <<>> \in Seq(Lengths) /\ 0 \in Nat /\ run[a].context \in Nat
  BY NoRunContent, RunContent
<1>2. CASE Fails(a)
  <2>1. GoesOn(a, Outcome(a, "failed"), FALSE)
    BY <1>2 DEF Fails
  <2> QED
    BY <1>1, <2>1, OutcomeContent, OutcomeGoesOn
<1>3. CASE Rejects(a)
  <2>1. GoesOn(a, Outcome(a, "rejected"), FALSE)
    BY <1>3 DEF Rejects
  <2> QED
    BY <1>1, <2>1, OutcomeContent, OutcomeGoesOn
<1>4. CASE Declines(a)
  <2> DEFINE done == Outcome(a, "done")
             first == [done EXCEPT !.answer = NoEvidence]
  <2>1. GoesOn(a, first, FALSE)
    BY <1>4 DEF Declines
  <2>2. Content(done, "done", <<>>, 0)
    BY OutcomeContent
  <2> HIDE DEF done
  <2>3. Content(first, "done", <<>>, 0)
    BY <2>2, ContentWith
  <2> HIDE DEF first
  <2> QED
    BY <1>1, <2>1, <2>3, OutcomeGoesOn
<1>5. ASSUME NEW text, NEW answer, Grounds(a, text, answer)
      PROVE  OutcomeInv'
  <2> DEFINE first == [Outcome(a, "done") EXCEPT !.answer = answer]
             second == [first EXCEPT !.grounded = TRUE]
             third == [second EXCEPT !.context = run[a].context]
             fourth == [third EXCEPT !.cited = Cited(text) \cap 1..run[a].context]
             fifth == [fourth EXCEPT !.nested = Nested(text)]
  <2>1. GoesOn(a, fifth, FALSE)
    BY <1>5 DEF Grounds
  <2>2. Content(first, "done", <<>>, 0)
    BY OutcomeContent, ContentWith
  <2> HIDE DEF first
  <2>3. Content(second, "done", <<>>, 0)
    BY <2>2, ContentWith
  <2> HIDE DEF second
  <2>4. Content(third, "done", <<>>, run[a].context)
    BY <2>3, ContentWith
  <2> HIDE DEF third
  <2>5. Content(fourth, "done", <<>>, run[a].context)
    BY <2>4, ContentWith
  <2> HIDE DEF fourth
  <2>6. Content(fifth, "done", <<>>, run[a].context)
    BY <2>5, ContentWith
  <2> HIDE DEF fifth
  <2> QED
    BY <1>1, <2>1, <2>6, OutcomeGoesOn
<1> QED
  BY <1>2, <1>3, <1>4, <1>5

LEMMA OutcomeBegins ==
    ASSUME AnsweringInv, OutcomeInv, NEW a \in Questions, NEW streamed, Begin(a, streamed)
    PROVE  OutcomeInv'
<1> DEFINE staged == [NoRun EXCEPT !.stage = "retrieve"]
           begun == [staged EXCEPT !.streamed = streamed]
<1>1. run' = [run EXCEPT ![a] = begun]
  BY DEF Begin
<1>2. Content(staged, "retrieve", <<>>, 0)
  BY NoRunContent, ContentWith
<1> HIDE DEF staged
<1>3. Content(begun, "retrieve", <<>>, 0)
  BY <1>2, ContentWith
<1> HIDE DEF begun
<1>4. run'[a] = begun /\ \A b \in Questions \ {a} : run'[b] = run[b]
  BY <1>1 DEF AnsweringInv
<1>5. OutcomeOK(run'[a])
  BY <1>3, <1>4, NoRunContent DEF Content, OutcomeOK
<1>6. \A b \in Questions : OutcomeOK(run'[b])
  BY <1>4, <1>5 DEF OutcomeInv
<1> QED
  BY <1>6 DEF OutcomeInv

LEMMA OutcomeRetrieves ==
    ASSUME AnsweringInv, OutcomeInv, NEW a \in Questions, Retrieve(a)
    PROVE  OutcomeInv'
<1>1. CASE Rejects(a) \/ Fails(a)
  BY <1>1, OutcomeEnds
<1>2. ASSUME NEW n \in 0..MaxPassages, NEW lengths \in [1..n -> Lengths],
             GoesOn(a, [run[a] EXCEPT !.stage = IF n = 0 THEN "format" ELSE "assemble",
                                      !.passages = lengths], run[a].streamed)
      PROVE  OutcomeInv'
  <2> DEFINE s == IF n = 0 THEN "format" ELSE "assemble"
             staged == [run[a] EXCEPT !.stage = s]
             found == [staged EXCEPT !.passages = lengths]
  <2>1. s # "done"
    OBVIOUS
  <2>2. GoesOn(a, found, run[a].streamed)
    BY <1>2
  <2> HIDE DEF s
  <2>3. Content(staged, s, run[a].passages, run[a].context)
    BY RunContent, ContentWith
  <2> HIDE DEF staged
  <2>4. Content(found, s, lengths, run[a].context)
    BY <2>3, ContentWith
  <2> HIDE DEF found
  <2>5. lengths \in Seq(Lengths)
    OBVIOUS
  <2>6. run[a].context \in Nat
    BY RunContent
  <2> QED
    BY <2>1, <2>2, <2>4, <2>5, <2>6, OutcomeGoesOn
<1> QED
  BY <1>1, <1>2 DEF Retrieve

LEMMA OutcomeAssembles ==
    ASSUME AnsweringInv, OutcomeInv, NEW a \in Questions, Assemble(a)
    PROVE  OutcomeInv'
<1>1. CASE Fails(a)
  BY <1>1, OutcomeEnds
<1>2. ASSUME NEW context \in Nat,
             GoesOn(a, [run[a] EXCEPT !.stage = IF run[a].streamed THEN "stream" ELSE "call",
                                      !.passages = <<>>, !.context = context], FALSE)
      PROVE  OutcomeInv'
  <2> DEFINE s == IF run[a].streamed THEN "stream" ELSE "call"
             staged == [run[a] EXCEPT !.stage = s]
             emptied == [staged EXCEPT !.passages = <<>>]
             rendered == [emptied EXCEPT !.context = context]
  <2>1. s # "done"
    OBVIOUS
  <2>2. GoesOn(a, rendered, FALSE)
    BY <1>2
  <2> HIDE DEF s
  <2>3. Content(staged, s, run[a].passages, run[a].context)
    BY RunContent, ContentWith
  <2> HIDE DEF staged
  <2>4. Content(emptied, s, <<>>, run[a].context)
    BY <2>3, ContentWith
  <2> HIDE DEF emptied
  <2>5. Content(rendered, s, <<>>, context)
    BY <2>4, ContentWith
  <2> HIDE DEF rendered
  <2>6. <<>> \in Seq(Lengths)
    OBVIOUS
  <2> QED
    BY <2>1, <2>2, <2>5, <2>6, OutcomeGoesOn
<1>3. FitContext(run[a].passages) \in Nat
  BY RunContent, ContextIsCounted
<1> QED
  BY <1>1, <1>2, <1>3 DEF Assemble

(* A run that keeps its passages and stays in hand.                       *)
LEMMA OutcomeStays ==
    ASSUME AnsweringInv, OutcomeInv, NEW a \in Questions, NEW changed, NEW handed,
           GoesOn(a, changed, handed), NEW s,
           Content(changed, s, run[a].passages, run[a].context)
    PROVE  OutcomeInv'
<1>1. run[a].passages \in Seq(Lengths) /\ run[a].context \in Nat
  BY RunContent
<1> QED
  BY <1>1, OutcomeGoesOn

LEMMA OutcomeWaits ==
    ASSUME AnsweringInv, OutcomeInv, NEW a \in Questions,
           Fragment(a) \/ StreamBreaks(a) \/ CallFails(a)
    PROVE  OutcomeInv'
<1> DEFINE Stays(r, s) ==
             Content(r, s, run[a].passages, run[a].context)
<1>1. Stays(run[a], run[a].stage)
  BY RunContent
<1>2. CASE Fragment(a)
  <2>1. PICK text, released, handed :
          /\ run[a].stage = "stream"
          /\ GoesOn(a, [run[a] EXCEPT !.text = text, !.released = released], handed)
    <3>1. PICK token \in Tokens :
            GoesOn(a, [run[a] EXCEPT !.text = Append(run[a].text, token),
                                     !.released = IF Withheld(Append(run[a].text, token)) THEN @
                                                  ELSE Len(Append(run[a].text, token))],
                   ~Withheld(Append(run[a].text, token)))
      BY <1>2 DEF Fragment
    <3> DEFINE grown == [run[a] EXCEPT !.text = Append(run[a].text, token)]
               n == IF Withheld(Append(run[a].text, token)) THEN grown.released
                    ELSE Len(Append(run[a].text, token))
    <3>2. GoesOn(a, [run[a] EXCEPT !.text = Append(run[a].text, token), !.released = n],
                 ~Withheld(Append(run[a].text, token)))
      BY <3>1
    <3>3. run[a].stage = "stream"
      BY <1>2 DEF Fragment, At
    <3> HIDE DEF n
    <3> QED
      BY <3>2, <3>3
  <2> DEFINE grown == [run[a] EXCEPT !.text = text]
             freed == [grown EXCEPT !.released = released]
  <2>2. Stays(grown, "stream")
    BY <1>1, <2>1, ContentWith
  <2> HIDE DEF grown
  <2>3. Stays(freed, "stream")
    BY <2>2, ContentWith
  <2>4. GoesOn(a, freed, handed)
    BY <2>1 DEF grown
  <2> HIDE DEF freed
  <2> QED
    BY <2>3, <2>4, OutcomeStays
<1>3. CASE StreamBreaks(a)
  <2>1. CASE Fails(a)
    BY <2>1, OutcomeEnds
  <2>2. CASE GoesOn(a, [run[a] EXCEPT !.stage = "call"], FALSE)
    <3>1. Stays([run[a] EXCEPT !.stage = "call"], "call")
      BY <1>1, ContentWith
    <3> QED
      BY <2>2, <3>1, OutcomeStays
  <2> QED
    BY <1>3, <2>1, <2>2 DEF StreamBreaks
<1>4. CASE CallFails(a)
  <2>1. CASE Fails(a)
    BY <2>1, OutcomeEnds
  <2>2. CASE GoesOn(a, [run[a] EXCEPT !.attempt = @ + 1], FALSE)
    <3>1. run[a].stage = "call"
      BY <1>4 DEF CallFails, At
    <3>2. Stays([run[a] EXCEPT !.attempt = run[a].attempt + 1], "call")
      BY <1>1, <3>1, ContentWith
    <3>3. GoesOn(a, [run[a] EXCEPT !.attempt = run[a].attempt + 1], FALSE)
      BY <2>2
    <3> QED
      BY <3>2, <3>3, OutcomeStays
  <2> QED
    BY <1>4, <2>1, <2>2 DEF CallFails
<1> QED
  BY <1>2, <1>3, <1>4

LEMMA OutcomeAnswers ==
    ASSUME AnsweringInv, OutcomeInv, NEW a \in Questions, CallAnswers(a)
    PROVE  OutcomeInv'
<1>1. PICK text \in Texts :
        IF run[a].streamed /\ text # <<>> /\ ~Withheld(text)
        THEN GoesOn(a, [run[a] EXCEPT !.stage = "verify", !.text = text,
                                      !.released = Len(text)], TRUE)
        ELSE Judge(a, text)
  BY DEF CallAnswers
<1>2. CASE GoesOn(a, [run[a] EXCEPT !.stage = "verify", !.text = text,
                                    !.released = Len(text)], TRUE)
  <2> DEFINE staged == [run[a] EXCEPT !.stage = "verify"]
             worded == [staged EXCEPT !.text = text]
             freed == [worded EXCEPT !.released = Len(text)]
             Stays(r, s) ==
               Content(r, s, run[a].passages, run[a].context)
  <2>1. GoesOn(a, freed, TRUE)
    BY <1>2
  <2>2. Stays(staged, "verify")
    BY RunContent, ContentWith
  <2> HIDE DEF staged
  <2>3. Stays(worded, "verify")
    BY <2>2, ContentWith
  <2> HIDE DEF worded
  <2>4. Stays(freed, "verify")
    BY <2>3, ContentWith
  <2> HIDE DEF freed
  <2> QED
    BY <2>1, <2>4, OutcomeStays
<1>3. CASE Judge(a, text)
  BY <1>3, JudgeEnds, OutcomeEnds
<1> QED
  BY <1>1, <1>2, <1>3

LEMMA OutcomeStep == AnsweringInv /\ OutcomeInv /\ [AnsweringNext]_answeringVars => OutcomeInv'
<1> SUFFICES ASSUME AnsweringInv, OutcomeInv, [AnsweringNext]_answeringVars PROVE OutcomeInv'
  OBVIOUS
<1>1. ASSUME NEW a \in Questions, RunStep(a) PROVE OutcomeInv'
  <2>1. CASE Retrieve(a)
    BY <2>1, OutcomeRetrieves
  <2>2. CASE ReportNoEvidence(a)
    BY <2>2, OutcomeEnds DEF ReportNoEvidence
  <2>3. CASE Assemble(a)
    BY <2>3, OutcomeAssembles
  <2>4. CASE Fragment(a) \/ StreamBreaks(a) \/ CallFails(a)
    BY <2>4, OutcomeWaits
  <2>5. CASE CallAnswers(a)
    BY <2>5, OutcomeAnswers
  <2>6. CASE StreamEnds(a) \/ Verify(a)
    BY <2>6, JudgeEnds, OutcomeEnds DEF StreamEnds, Verify
  <2> QED
    BY <1>1, <2>1, <2>2, <2>3, <2>4, <2>5, <2>6 DEF RunStep
<1>2. ASSUME NEW a \in Questions, NEW streamed \in BOOLEAN, Begin(a, streamed) PROVE OutcomeInv'
  BY <1>2, OutcomeBegins
<1>3. CASE UNCHANGED answeringVars
  BY <1>3 DEF answeringVars, OutcomeInv
<1> QED
  BY <1>1, <1>2, <1>3 DEF AnsweringNext

LEMMA OutcomeInitially == AnsweringInit => OutcomeInv
<1> SUFFICES ASSUME AnsweringInit, NEW a \in Questions PROVE OutcomeOK(run[a])
  BY DEF OutcomeInv
<1>1. run[a] = NoRun
  BY DEF AnsweringInit
<1> QED
  BY <1>1, NoRunContent DEF Content, OutcomeOK

LEMMA ContextsFit == OutcomeInv => ContextIsMostRelevant
<1> SUFFICES ASSUME OutcomeInv, NEW a \in Questions
             PROVE  LET fit == FitToBudget(run[a].passages)
                    IN /\ Total(fit) <= Budget
                       /\ \A i, j \in DOMAIN fit : i < j /\ fit[j] > 0 => fit[i] > 0
  BY DEF ContextIsMostRelevant
<1>1. run[a].passages \in Seq(Lengths)
  BY DEF OutcomeInv, OutcomeOK
<1> QED
  BY <1>1, BudgetHolds

(* The passages of a run and the size of its prompt.                       *)
THEOREM OutcomeInvariant == AnsweringSpec => []OutcomeInv
BY OutcomeInitially, OutcomeStep, AnsweringInvariant, PTL DEF AnsweringSpec

(* What a prompt's passages are allowed is within the budget, and drops no *)
(* passage for a less relevant one, for any lengths, budget and bounds     *)
(* (fit_to_budget).                                                        *)
THEOREM ContextsAreMostRelevant == AnsweringSpec => []ContextIsMostRelevant
BY OutcomeInvariant, ContextsFit, PTL

=============================================================================
