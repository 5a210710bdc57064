---------------------------- MODULE JobContract ----------------------------
(***************************************************************************)
(* What the job table promises the rest of the CRM, row by row.            *)
(*                                                                         *)
(* A row is planted once, is worked on only after being claimed, comes     *)
(* back to `pending` only from `running` (a retry, or a lease that ran     *)
(* out), and rests in `succeeded`, `dead` or `cancelled`.  Nothing is      *)
(* forgotten: a row leaves the table only after it succeeded.  JobQueue    *)
(* is shown to implement this; Messaging and Automation schedule their     *)
(* own work by it.                                                         *)
(***************************************************************************)

CONSTANT Jobs          \* identities of rows

VARIABLE states        \* states[j]: the `state` column, or "absent"

State == {"absent", "pending", "running", "succeeded", "dead", "cancelled"}

Live == {"pending", "running"}

(* The changes of one row a client of the queue has to reckon with.        *)
Change ==
  { <<"absent", "pending">>,                            \* enqueue
    <<"pending", "running">>, <<"pending", "cancelled">>,  \* claim, cancel
    <<"running", "pending">>,                           \* retry, reclaim
    <<"running", "succeeded">>, <<"running", "dead">>,
    <<"succeeded", "absent">> }                         \* prune

Init == states = [j \in Jobs |-> "absent"]

(* Claiming, reclaiming and pruning touch several rows in one statement.   *)
Next ==
  /\ states' \in [Jobs -> State]
  /\ \A j \in Jobs : states'[j] # states[j] => <<states[j], states'[j]>> \in Change

Spec == Init /\ [][Next]_states
=============================================================================
