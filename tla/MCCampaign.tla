----------------------------- MODULE MCCampaign -----------------------------
(* Small instances of Campaign for TLC. *)
EXTENDS Campaign

CONSTANTS Sends, Pauses

MCAllowance ==
  [audience |-> 1, send |-> Sends, pause |-> Pauses, resume |-> Pauses]

(* Of what may happen on the way, three things do: a pause, a second send,   *)
(* an exit, and the client who unsubscribes.                               *)
Troubles ==
  (Pauses - left["pause"]) + (IF left["send"] = 0 THEN Sends - 1 ELSE 0) + exits
    + Cardinality(optedOut)

(* A row of the queue is free at all times: no chain waits for one.        *)
FewTroubles == Troubles <= 3 /\ \E j \in Jobs : job[j].state = "free"
=============================================================================
