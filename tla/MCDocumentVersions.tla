------------------------- MODULE MCDocumentVersions -------------------------
(* Instances of DocumentVersions for TLC: the values come from the          *)
(* configurations.  Requests are interchangeable.                           *)
EXTENDS DocumentVersions, TLC

=============================================================================
