---------------------------- MODULE MCAnswering ----------------------------
(* The instance TLC checks: one question, every reply of up to MaxTokens. *)
EXTENDS Answering
============================================================================
