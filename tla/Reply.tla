------------------------------- MODULE Reply -------------------------------
(***************************************************************************)
(* What a run of the answering pipeline promises its caller, whatever      *)
(* happens inside: events are handed over one at a time, a request that is *)
(* refused is refused before the first of them, so that it keeps its HTTP  *)
(* status (api/v1/assistant/router.py stream_message), and the run ends    *)
(* once, in an answer, a refusal or a failure.                             *)
(***************************************************************************)
EXTENDS Naturals

CONSTANTS Asks, MaxEvents      \* bound: events of one streamed run

ASSUME ReplyAssumption == MaxEvents \in Nat

VARIABLE reply

Outcomes == {"answered", "rejected", "failed"}

NoReply == [phase |-> "idle", streamed |-> FALSE, events |-> 0, handed |-> FALSE]

ReplyTypeOK ==
    reply \in [Asks -> [phase : {"idle", "running"} \cup Outcomes, streamed : BOOLEAN,
                        events : 0..MaxEvents, handed : BOOLEAN]]

ReplyInit == reply = [a \in Asks |-> NoReply]

Running(a) == reply[a].phase = "running"

Start(a, streamed) ==
    /\ reply[a].phase = "idle"
    /\ reply' = [reply EXCEPT ![a] = [NoReply EXCEPT !.phase = "running", !.streamed = streamed]]

\* An event is handed over, and the run waits for its caller to take it.
Hand(a) ==
    /\ Running(a) /\ reply[a].streamed
    /\ reply[a].events < MaxEvents
    /\ reply' = [reply EXCEPT ![a].events = @ + 1, ![a].handed = TRUE]

\* The run works on, with nothing to hand over.
Work(a) ==
    /\ Running(a) /\ reply[a].handed
    /\ reply' = [reply EXCEPT ![a].handed = FALSE]

End(a, outcome) ==
    /\ Running(a)
    /\ outcome = "rejected" => reply[a].events = 0
    /\ reply' = [reply EXCEPT ![a].phase = outcome, ![a].handed = FALSE]

ReplyNext ==
    \E a \in Asks : \/ \E streamed \in BOOLEAN : Start(a, streamed)
                    \/ Hand(a) \/ Work(a)
                    \/ \E outcome \in Outcomes : End(a, outcome)

ReplySpec == ReplyInit /\ [][ReplyNext]_reply
=============================================================================
