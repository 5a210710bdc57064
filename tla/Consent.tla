------------------------------ MODULE Consent ------------------------------
(***************************************************************************)
(* What the send gate looks at before a marketing text goes out: the       *)
(* client records with the numbers they have and the merges between them,  *)
(* the consents, and the suppressions a STOP leaves (src/domain/consent.ts *)
(* with gateFor of src/services/messaging.ts); and what it owes a client   *)
(* who has texted STOP.  Inbound is what changes these tables.             *)
(***************************************************************************)
EXTENDS Naturals, Sequences

CONSTANTS
  Customers,       \* customer records
  Phones,          \* numbers a record can have
  Sender,          \* the number the texts come from
  NoPhone, Nobody, \* NULLs of phone_e164 and merged_into_id
  Texts,           \* external ids of the client's texts
  StopTexts, StartTexts      \* those whose whole body is a stop word, a start word

ASSUME ConsentAssumption ==
  /\ Sender \in Phones /\ NoPhone \notin Phones /\ Nobody \notin Customers
  /\ StopTexts \subseteq Texts /\ StartTexts \subseteq Texts /\ StopTexts \cap StartTexts = {}

VARIABLES
  phone,         \* phone[c]: customers.phone_e164
  merged,        \* merged[c]: customers.merged_into_id
  consents,      \* consent rows for marketing texts, oldest first
  suppressions   \* live stop_keyword suppressions: customer and address

-----------------------------------------------------------------------------
(* The gate.                                                               *)

(* For a mutant: a merged record's consents are forgotten.                 *)
CountsOwnOnly(r, c) == r = c

CountsFor(r, c) == r = c \/ merged[r] = c

(* The newest consent row of the record and of what was merged into it;    *)
(* every client here consented once, before anything else.                 *)
Consented(c) ==
  LET mine == {i \in 1..Len(consents) : CountsFor(consents[i].customer, c)}
  IN  \A i \in mine : (\A k \in mine : k <= i) => consents[i].granted

Suppressed(c) ==
  \E s \in suppressions : s.customer = c \/ s.address = phone[c]

MayText(c) ==
  /\ phone[c] # NoPhone /\ merged[c] = Nobody
  /\ ~Suppressed(c)
  /\ Consented(c)

-----------------------------------------------------------------------------
(* What it owes the client.                                                *)

(* Record r is c, or was merged into it, however many merges away: c is in *)
(* every set that holds r and, with a record, the one it was merged into.  *)
FoldedInto(r, c) ==
  \A S \in SUBSET Customers :
    (r \in S /\ \A x \in S : merged[x] # Nobody => merged[x] \in S) => c \in S

(* A STOP follows the client: as long as it is the last word of a record   *)
(* or of one folded into it, before or after the merge, no marketing text  *)
(* may be sent to that record, whatever number it has by now.              *)
StopFollowsTheClient ==
  \A c \in Customers, i \in 1..Len(consents) :
    /\ consents[i].text \in StopTexts
    /\ FoldedInto(consents[i].customer, c)
    /\ \A k \in (i + 1)..Len(consents) : ~FoldedInto(consents[k].customer, c)
    => ~MayText(c)

(* customers.ts:350 "so there is never a chain to follow": the record a    *)
(* merged one points at is in use, so the gate need look only one step     *)
(* back.                                                                   *)
MergesAreFlat ==
  \A c \in Customers : merged[c] # Nobody => merged[merged[c]] = Nobody

(* Both: the gate looks one step back, and one step is enough.             *)
StopOutlivesMerges == StopFollowsTheClient /\ MergesAreFlat
=============================================================================
