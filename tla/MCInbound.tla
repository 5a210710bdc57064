----------------------------- MODULE MCInbound -----------------------------
(* Small instances of Inbound for TLC. *)
EXTENDS Inbound

CONSTANTS ann, bob, cat, cell, home

\* Ann has the number the texts come from; the others have another one.
MCBobElsewhere == [c \in Customers |-> IF c = ann THEN cell ELSE home]
=============================================================================
