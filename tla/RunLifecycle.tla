---------------------------- MODULE RunLifecycle ----------------------------
(***************************************************************************)
(* What a background run promises, whoever executes it: the status of each *)
(* run only moves along STATUS_TRANSITIONS of core/ocr.py, which           *)
(* core/indexing.py and core/reports.py repeat under their own names.  The *)
(* table is a cycle: a terminal run goes back to "pending" and only a      *)
(* claim takes a run from "pending" to "processing".                       *)
(*                                                                         *)
(* The detailed modules (OcrRun, IndexRun) implement this one.             *)
(***************************************************************************)

CONSTANT Runs        \* the runs a table can hold: one per document version

VARIABLE status      \* status[r]: "none" until the row of r is inserted

LifecycleStatuses == {"pending", "processing", "completed", "failed"}

Statuses == LifecycleStatuses \cup {"none"}

(* The table itself.  "none" is the absence of a row: a row is inserted as *)
(* "pending" and never deleted.                                            *)
StatusTransitions ==
    [none       |-> {"pending"},
     pending    |-> {"processing", "failed"},
     processing |-> {"completed", "failed"},
     completed  |-> {"pending"},
     failed     |-> {"pending"}]

CanTransition(current, target) ==
    current \in LifecycleStatuses /\ target \in StatusTransitions[current]

RetryableStatuses == {s \in LifecycleStatuses : "pending" \in StatusTransitions[s]}

CanRetry(current) == current \in RetryableStatuses

Init == status = [r \in Runs |-> "none"]

Move(r) ==
    \E target \in StatusTransitions[status[r]] :
        status' = [status EXCEPT ![r] = target]

Next == \E r \in Runs : Move(r)

Spec == Init /\ [][Next]_status

=============================================================================
