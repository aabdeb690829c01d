---------------------------- MODULE MCReportRun ----------------------------
(* Instances of ReportRun for TLC: the values come from the configurations. *)
EXTENDS ReportRun, TLC

=============================================================================
