----------------------------- MODULE MCPipeline -----------------------------
(* Instances of Pipeline for TLC. *)
EXTENDS Pipeline, TLC

MCReadings == {"long", "short"}
MCBlank    == {}
MCPassages == [t \in MCReadings |-> IF t = "long" THEN <<1, 2>> ELSE <<1>>]

(* One of the readings has no word in it. *)
MCSparse         == {"short", "blank"}
MCSparseBlank    == {"blank"}
MCSparsePassages == [t \in MCSparse |-> IF t = "short" THEN <<1>> ELSE <<>>]

=============================================================================
