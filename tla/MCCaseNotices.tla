--------------------------- MODULE MCCaseNotices ---------------------------
(* Instances of CaseNotices for TLC: the values come from the               *)
(* configurations.                                                          *)
EXTENDS CaseNotices, TLC

=============================================================================
