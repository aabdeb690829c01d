--------------------------- MODULE MCEventChannel ---------------------------
(* Small instances of EventChannel. *)
EXTENDS EventChannel

=============================================================================
