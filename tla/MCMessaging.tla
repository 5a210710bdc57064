---------------------------- MODULE MCMessaging ----------------------------
(* Small instances of Messaging for TLC. *)
EXTENDS Messaging

CONSTANTS text, update, mail, twin

(* A marketing text, a transactional text, a service email, and a second  *)
(* call of `send` with the first one's dedupe key.                        *)
MCKey == [r \in Requests |-> IF r \in {text, twin} THEN text ELSE r]
=============================================================================
