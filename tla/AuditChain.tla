------------------------------ MODULE AuditChain ------------------------------
(***************************************************************************)
(* The audit log and its chain (src/services/audit.ts: recordAudit,        *)
(* verifyChain).  An entry is appended in the transaction of the change it *)
(* describes, under a lock on the table, or on a connection of its own     *)
(* once the change is made.  A hash stands for its row: it is the row's id.*)
(***************************************************************************)
EXTENDS Naturals, Sequences

CONSTANTS
  Inside,     \* entries written in the transaction of their change
  Outside     \* entries written on a connection of their own

AuditChainAssumption == Inside \cap Outside = {}

VARIABLES
  rows,       \* audit_log, in the order of the ids: [by, prev, state]
  pc,         \* where each writer is
  prev,       \* prevHash, as each writer read it
  made        \* the changes that are made

vars == <<rows, pc, prev, made>>

Writers == Inside \cup Outside
First == 0

Init ==
  /\ rows = <<>> /\ made = {}
  /\ pc = [w \in Writers |-> "change"] /\ prev = [w \in Writers |-> First]

Goto(w, to) == pc' = [pc EXCEPT ![w] = to]

(* EXCLUSIVE conflicts with itself and with an INSERT, not with a SELECT.  *)
Locked == \E w \in Inside : pc[w] \in {"read", "insert", "commit"}

In == {i \in DOMAIN rows : rows[i].state = "in"}
LastOf(S) == IF S = {} THEN First ELSE CHOOSE i \in S : \A k \in S : k <= i

-----------------------------------------------------------------------------
(* Outside a transaction the change stands before its entry is begun.      *)
Change(w) ==
  /\ pc[w] = "change"
  /\ made' = IF w \in Outside THEN made \cup {w} ELSE made
  /\ Goto(w, IF w \in Outside THEN "read" ELSE "lock")
  /\ UNCHANGED <<rows, prev>>

(* Fault: a mode that does not conflict with itself.                       *)
LockShared(w) ==
  /\ pc[w] = "lock"
  /\ Goto(w, "read")
  /\ UNCHANGED <<rows, prev, made>>

Lock(w) ==
  /\ pc[w] = "lock" /\ ~Locked
  /\ Goto(w, "read")
  /\ UNCHANGED <<rows, prev, made>>

ReadPrevious(w) ==
  /\ pc[w] = "read"
  /\ prev' = [prev EXCEPT ![w] = LastOf(In)]
  /\ Goto(w, "insert")
  /\ UNCHANGED <<rows, made>>

(* The row of a transaction is seen when it commits.                       *)
AppendRow(w) ==
  /\ pc[w] = "insert"
  /\ w \in Outside => ~Locked
  /\ rows' = Append(rows, [by |-> w, prev |-> prev[w],
                           state |-> IF w \in Outside THEN "in" ELSE "open"])
  /\ Goto(w, IF w \in Outside THEN "done" ELSE "commit")
  /\ UNCHANGED <<prev, made>>

Ours(w, to) == [i \in DOMAIN rows |->
  IF rows[i].by = w THEN [rows[i] EXCEPT !.state = to] ELSE rows[i]]

Commit(w) ==
  /\ pc[w] = "commit"
  /\ rows' = Ours(w, "in") /\ made' = made \cup {w}
  /\ Goto(w, "done")
  /\ UNCHANGED prev

(* Something throws, or the process ends: the transaction is undone, and   *)
(* what is outside one leaves its change without an entry.                 *)
Fail(w) ==
  /\ pc[w] \notin {"change", "done"}
  /\ rows' = IF w \in Inside THEN Ours(w, "gone") ELSE rows
  /\ Goto(w, "done")
  /\ UNCHANGED <<prev, made>>

Done == (\A w \in Writers : pc[w] = "done") /\ UNCHANGED vars

Next ==
  \/ \E w \in Writers : Change(w) \/ Lock(w) \/ ReadPrevious(w) \/ AppendRow(w)
                        \/ Commit(w) \/ Fail(w)
  \/ Done

Spec == Init /\ [][Next]_vars

-----------------------------------------------------------------------------
(* verifyChain: the rows that do not follow from the one before them.      *)
Breaks == {i \in In : rows[i].prev # LastOf({k \in In : k < i})}

TypeOK ==
  /\ rows \in Seq([by : Writers, prev : Nat, state : {"open", "in", "gone"}])
  /\ pc \in [Writers -> {"change", "lock", "read", "insert", "commit", "done"}]
  /\ prev \in [Writers -> Nat] /\ made \subseteq Writers

(* audit.ts:96, "serialised against concurrent appends".  Not all of them: *)
(* two entries written outside a transaction may read one predecessor, and *)
(* the verification reports a row nobody has touched.                      *)
ChainHolds == Breaks = {}

(* audit.ts:98: an entry written under the lock always follows the one     *)
(* before it, whatever those outside a transaction do meanwhile and        *)
(* whichever transactions are undone; and no entry describes a change that *)
(* was not made.                                                           *)
LockedEntriesFollow ==
  /\ \A i \in Breaks : rows[i].by \in Outside
  /\ \A i \in In : rows[i].by \in made
=============================================================================
