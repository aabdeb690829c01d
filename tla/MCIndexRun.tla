----------------------------- MODULE MCIndexRun -----------------------------
(* Instances of IndexRun for TLC.  Two readings of one version disagree on *)
(* how many passages there are and on which page the second one begins, so *)
(* that an upsert alone would not replace the points of the other reading. *)
EXTENDS IndexRun, TLC

MCReadings == {"long", "short", "blank"}
MCBlank    == {"blank"}

MCPassages ==
    [t \in MCReadings |-> CASE t = "long"  -> <<1, 1, 2, 2>>
                            [] t = "short" -> <<1, 2>>
                            [] t = "blank" -> <<>>]

Interchangeable == Permutations(Requests) \cup Permutations(IndexThreads)

=============================================================================
