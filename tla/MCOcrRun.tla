------------------------------ MODULE MCOcrRun ------------------------------
(* Instances of OcrRun for TLC: the sets come from the configurations. *)
EXTENDS OcrRun, TLC

Interchangeable ==
    Permutations(Requests) \cup Permutations(Workers) \cup Permutations(Readings)

=============================================================================
