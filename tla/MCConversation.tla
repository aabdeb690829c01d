-------------------------- MODULE MCConversation --------------------------
(* The instance TLC checks: questions asked in one conversation at once. *)
EXTENDS Conversation
===========================================================================
