-------------------------- MODULE MCEmailDelivery --------------------------
(* Instances of EmailDelivery for TLC: the sets come from the              *)
(* configurations.                                                         *)
EXTENDS EmailDelivery, TLC

Interchangeable == Permutations(Mails) \cup Permutations(Workers)

=============================================================================
