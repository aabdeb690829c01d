----------------------------- MODULE Answering -----------------------------
(***************************************************************************)
(* One run of the question-answering pipeline per ask: validate, retrieve, *)
(* assemble the prompt, generate, verify, format (services/rag.py, the     *)
(* graph of services/rag_graph.py and the retries of services/llm.py).     *)
(* A streamed run hands its caller a retrieval event and then fragments of *)
(* the model's text; a blocking run hands over nothing before its outcome. *)
(* A text is a sequence of tokens: words, the two halves of the refusal    *)
(* sentinel INSUFFICIENT_EVIDENCE, and the two halves of a citation        *)
(* marker: an opening bracket, then digits and the closing bracket.  The   *)
(* digits are plain when they are what Python writes for their number, and *)
(* not when they lead with a zero or are Arabic-Indic: int() reads both.   *)
(* The run implements module Reply, which module Conversation builds on.   *)
(***************************************************************************)
EXTENDS Naturals, FiniteSets, SequencesExt

CONSTANTS
    Questions,      \* the questions, each asked once
    Lengths,        \* lengths a retrieved passage may have
    MaxPassages,    \* bound: passages one retrieval returns (top_k)
    MaxCitations,   \* RAG_MAX_CITATIONS
    Budget,         \* RAG_MAX_CONTEXT_CHARACTERS
    MaxPassage,     \* RAG_MAX_PASSAGE_CHARACTERS
    MinPassage,     \* MIN_PASSAGE_CHARACTERS
    Markers,        \* citation numbers a model may write
    MaxTokens,      \* bound: tokens of one model reply
    MaxAttempts     \* LLM_MAX_ATTEMPTS

ASSUME AnsweringAssumption ==
    /\ Lengths \subseteq Nat \ {0}
    /\ Markers \subseteq Nat
    /\ {MaxPassages, MaxTokens, Budget, MaxPassage, MinPassage} \subseteq Nat
    /\ {MaxCitations, MaxAttempts} \subseteq Nat \ {0}

VARIABLES
    run,     \* each run: its stage, the reply so far and what of it is released
    shown    \* what the reader of each run has been handed

answeringVars == <<run, shown>>

Words == <<"words">>
Bracket == <<"bracket">>
Digits(m, plain) == <<"digits", m, plain>>
Tokens == {Words, <<"open">>, <<"close">>, Bracket}
            \cup {Digits(m, plain) : m \in Markers, plain \in BOOLEAN}
Sentinel == << <<"open">>, <<"close">> >>
Texts == UNION {[1..k -> Tokens] : k \in 0..MaxTokens}

\* The platform's own sentence, which no model writes.
NoEvidence == << <<"notice">> >>

NoRun == [stage |-> "idle", streamed |-> FALSE, handed |-> FALSE, passages |-> <<>>,
          context |-> 0, text |-> <<>>, released |-> 0, attempt |-> 1,
          answer |-> <<>>, grounded |-> FALSE, cited |-> {}, nested |-> FALSE]

NoShown == [events |-> 0, fragments |-> <<>>]

AnsweringInit ==
    /\ run = [a \in Questions |-> NoRun]
    /\ shown = [a \in Questions |-> NoShown]

----------------------------------------------------------------------------
(* The pure rules of core/rag.py. *)

Smaller(i, j) == IF i <= j THEN i ELSE j

\* A bug: a shorter passage further down takes the room one was refused.
FitOneSkipping(room, length) ==
    LET allowance == Smaller(length, MaxPassage)
    IN IF allowance <= room THEN [kept |-> allowance, room |-> room - allowance]
       ELSE [kept |-> 0, room |-> room]

\* What one passage gets of the room that is left, and what it leaves; a
\* passage that is refused leaves none.
FitOne(room, length) ==
    LET allowance == Smaller(length, MaxPassage)
    IN IF allowance <= room THEN [kept |-> allowance, room |-> room - allowance]
       ELSE [kept |-> IF room >= MinPassage THEN room ELSE 0, room |-> 0]

FitToBudget(lengths) ==
    LET Fit[i \in 0..Len(lengths)] == IF i = 0 THEN [kept |-> 0, room |-> Budget]
                                      ELSE FitOne(Fit[i - 1].room, lengths[i])
    IN [i \in DOMAIN lengths |-> Fit[i].kept]

\* How many passages the prompt holds.
FitContext(lengths) ==
    LET fit == FitToBudget(SubSeq(lengths, 1, Smaller(MaxCitations, Len(lengths))))
    IN Cardinality({i \in DOMAIN fit : fit[i] > 0})

\* CITATION_MARKER_PATTERN, for a marker whose digits are the given ones.
MarkerAt(text, i, digits) ==
    /\ {i, i + 1} \subseteq DOMAIN text
    /\ text[i] = Bracket /\ text[i + 1] = digits

Cited(text) ==
    {m \in Markers : \E i \in DOMAIN text, plain \in BOOLEAN : MarkerAt(text, i, Digits(m, plain))}

\* A bug: the last source counts as unknown.
UnknownMarkersOffByOne(text, sources) == {m \in Cited(text) : m < 1 \/ m >= sources}

UnknownMarkers(text, sources) == {m \in Cited(text) : m < 1 \/ m > sources}

\* The text without a number's marker, which str.replace finds only where it
\* is plainly written.
Without(text, m) ==
    LET Gone(i) == \E j \in {i - 1, i} : MarkerAt(text, j, Digits(m, TRUE))
        Kept[i \in 0..Len(text)] == IF i = 0 THEN <<>>
                                    ELSE IF Gone(i) THEN Kept[i - 1]
                                    ELSE Append(Kept[i - 1], text[i])
    IN Kept[Len(text)]

\* The invented markers go one number after the other; what one leaves behind
\* may be a marker that was not there before.
StripInvented(text, order) == FoldLeft(Without, text, order)

\* One marker inside another, as in "[1[9]2]".
Nested(text) == \E i \in 2..Len(text) : text[i - 1] = Bracket /\ text[i] = Bracket

Refused(text) == \E i \in DOMAIN text : IsPrefix(Sentinel, SubSeq(text, i, Len(text)))

\* A bug: only a text still becoming the sentinel is withheld.
WithheldWhileBecoming(text) == IsStrictPrefix(text, Sentinel)

\* A fragment is withheld while the text may still become the sentinel, and
\* once it begins with it.
Withheld(text) == IsPrefix(text, Sentinel) \/ IsPrefix(Sentinel, text)

----------------------------------------------------------------------------
(* Steps.  What a run does between two events it hands over touches only   *)
(* its own state, so stages that follow each other without one are a step. *)
(* A run that ends keeps its outcome alone.                                *)

At(a, stage) == run[a].stage = stage

\* The run goes on, having handed an event to its caller or not: the caller
\* of a streamed run may never ask for more.
GoesOn(a, changed, handed) ==
    /\ run' = [run EXCEPT ![a] = [changed EXCEPT !.handed = handed]]
    /\ shown' = IF ~handed THEN shown
                ELSE [shown EXCEPT ![a] =
                        [events    |-> @.events + 1,
                         fragments |-> @.fragments \o SubSeq(changed.text, run[a].released + 1,
                                                            changed.released)]]

Outcome(a, stage) == [NoRun EXCEPT !.stage = stage, !.streamed = run[a].streamed]

Fails(a)   == GoesOn(a, Outcome(a, "failed"), FALSE)
Rejects(a) == GoesOn(a, Outcome(a, "rejected"), FALSE)
Declines(a) == GoesOn(a, [Outcome(a, "done") EXCEPT !.answer = NoEvidence], FALSE)

Begin(a, streamed) ==
    /\ At(a, "idle")
    /\ shown' = shown
    /\ run' = [run EXCEPT ![a] = [NoRun EXCEPT !.stage = "retrieve", !.streamed = streamed]]

\* The question is not answerable or the search refuses its filters; the
\* deadline has passed or the search is unavailable; or there are passages,
\* perhaps none, whose documents still exist.
Retrieve(a) ==
    /\ At(a, "retrieve")
    /\ \/ Rejects(a)
       \/ Fails(a)
       \/ \E n \in 0..MaxPassages : \E lengths \in [1..n -> Lengths] :
             GoesOn(a, [run[a] EXCEPT !.stage = IF n = 0 THEN "format" ELSE "assemble",
                                      !.passages = lengths],
                    run[a].streamed)

\* A bug: finding nothing is taken for a bad request, its event handed over.
ReportNoEvidenceAsError(a) == At(a, "format") /\ Rejects(a)

ReportNoEvidence(a) == At(a, "format") /\ Declines(a)

\* The deadline has passed, no passage fits or the template is unusable; or
\* the prompt is rendered and the model asked.
Assemble(a) ==
    /\ At(a, "assemble")
    /\ LET context == FitContext(run[a].passages)
       IN \/ Fails(a)
          \/ /\ context > 0
             /\ GoesOn(a, [run[a] EXCEPT !.stage = IF run[a].streamed THEN "stream" ELSE "call",
                                         !.passages = <<>>, !.context = context], FALSE)

\* The markers of the reply that name a source are noted before those that do
\* not are taken out of it.
Grounds(a, text, answer) ==
    GoesOn(a, [Outcome(a, "done") EXCEPT !.answer = answer, !.grounded = TRUE,
                                         !.context = run[a].context,
                                         !.cited = Cited(text) \cap 1..run[a].context,
                                         !.nested = Nested(text)], FALSE)

\* verify_response and format_output: an empty reply is a failure, a refusal
\* becomes the platform's sentence, invented markers go, and an answer they
\* leave empty is no answer.  The numbers go in the order of a Python set.
Judge(a, text) ==
    IF text = <<>> THEN Fails(a)
    ELSE IF Refused(text) THEN Declines(a)
    ELSE \E order \in SetToSeqs(UnknownMarkers(text, run[a].context)) :
            LET answer == StripInvented(text, order)
            IN IF answer = <<>> THEN Declines(a) ELSE Grounds(a, text, answer)

\* One more token of the reply, released with what was withheld before it
\* unless the text may still be the sentinel.
Fragment(a) ==
    /\ At(a, "stream")
    /\ Len(run[a].text) < MaxTokens
    /\ \E token \in Tokens :
          LET text == Append(run[a].text, token)
          IN GoesOn(a, [run[a] EXCEPT !.text = text,
                                      !.released = IF Withheld(text) THEN @ ELSE Len(text)],
                    ~Withheld(text))

StreamEnds(a) == At(a, "stream") /\ Judge(a, run[a].text)

\* A bug: the call replaces a stream broken anywhere.
StreamBreaksAnywhere(a) ==
    /\ At(a, "stream")
    /\ GoesOn(a, [run[a] EXCEPT !.stage = "call", !.text = <<>>, !.released = 0], FALSE)

\* A stream that never began is replaced by one whole call, deadline
\* permitting; one that broke after its first fragment is not.
StreamBreaks(a) ==
    /\ At(a, "stream")
    /\ \/ Fails(a)
       \/ /\ run[a].text = <<>>
          /\ GoesOn(a, [run[a] EXCEPT !.stage = "call"], FALSE)

\* with_retries: a transient failure is tried again, any other is the last.
CallFails(a) ==
    /\ At(a, "call")
    /\ \/ Fails(a)
       \/ /\ run[a].attempt < MaxAttempts
          /\ GoesOn(a, [run[a] EXCEPT !.attempt = @ + 1], FALSE)

\* The whole reply; a streamed run shows it as a single fragment first.
CallAnswers(a) ==
    /\ At(a, "call")
    /\ \E text \in Texts :
          IF run[a].streamed /\ text # <<>> /\ ~Withheld(text)
          THEN GoesOn(a, [run[a] EXCEPT !.stage = "verify", !.text = text,
                                        !.released = Len(text)], TRUE)
          ELSE Judge(a, text)

Verify(a) == At(a, "verify") /\ Judge(a, run[a].text)

\* The sources listed under an answer: every passage of its prompt.
Citations(a) == IF run[a].grounded THEN 1..run[a].context ELSE {}

RunStep(a) ==
    \/ Retrieve(a) \/ ReportNoEvidence(a) \/ Assemble(a)
    \/ Fragment(a) \/ StreamEnds(a) \/ StreamBreaks(a)
    \/ CallFails(a) \/ CallAnswers(a) \/ Verify(a)

AnsweringNext == \E a \in Questions : RunStep(a) \/ \E streamed \in BOOLEAN : Begin(a, streamed)

AnsweringSpec == AnsweringInit /\ [][AnsweringNext]_answeringVars

----------------------------------------------------------------------------
(* Properties. *)

\* A source flagged as referenced is listed under the answer, and the answer
\* still holds a marker that names it, although the flags are set before the
\* invented markers are taken out; and unless the reply nests its markers,
\* no plainly written marker of the answer names a source that is not listed
\* (verify_response, _strip_invented_markers, _citations).
MarkersResolve ==
    \A a \in Questions : At(a, "done") =>
        /\ run[a].cited \subseteq Citations(a) \cap Cited(run[a].answer)
        /\ run[a].nested \/ \A m \in Markers \ Citations(a) : \A i \in DOMAIN run[a].answer :
                                ~MarkerAt(run[a].answer, i, Digits(m, TRUE))

\* A reply that opens with the refusal sentinel is never shown as it streams
\* (core/rag.py sentinel_prefix_pending).
SentinelIsWithheld ==
    \A a \in Questions : ~IsPrefix(Sentinel, shown[a].fragments)

\* The fragments a reader was handed are the beginning of the one reply the
\* outcome is made of: a stream that breaks after a fragment is not continued
\* with a second reply (_generate_streaming).
FragmentsAreOneReply ==
    \A a \in Questions : run[a].stage \in {"stream", "call", "verify"} =>
        IsPrefix(shown[a].fragments, run[a].text)

Total(lengths) ==
    LET Sum[i \in 0..Len(lengths)] == IF i = 0 THEN 0 ELSE Sum[i - 1] + lengths[i]
    IN Sum[Len(lengths)]

\* What the passages of a prompt are allowed sums up to the budget at most, and
\* goes to the passages that came first: none after one that was left out
\* (fit_to_budget).  The ellipsis clip_passage adds to a passage it cuts is not
\* part of the sum.
ContextIsMostRelevant ==
    \A a \in Questions : At(a, "assemble") =>
        LET fit == FitToBudget(run[a].passages)
        IN /\ Total(fit) <= Budget
           /\ \A i, j \in DOMAIN fit : i < j /\ fit[j] > 0 => fit[i] > 0

Phase(a) == CASE At(a, "idle") -> "idle"
              [] At(a, "done") -> "answered"
              [] run[a].stage \in {"rejected", "failed"} -> run[a].stage
              [] OTHER -> "running"

R == INSTANCE Reply WITH
        Asks <- Questions, MaxEvents <- MaxTokens + 1,
        reply <- [a \in Questions |-> [phase    |-> Phase(a),
                                  streamed |-> run[a].streamed,
                                  events   |-> shown[a].events,
                                  handed   |-> run[a].handed]]

\* The run keeps what module Reply promises its caller.
ImplementsReply == R!ReplySpec

=============================================================================
