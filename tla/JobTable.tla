------------------------------ MODULE JobTable ------------------------------
(***************************************************************************)
(* The `jobs` table (src/migrations/0001_foundation.sql) beside what the   *)
(* workers hold of it in memory, and what is true of the two whoever       *)
(* writes and however late: JobQueue says how they change.                 *)
(***************************************************************************)
EXTENDS Naturals

CONSTANTS
  Jobs,      \* identities the `jobs` rows can have
  NoKey      \* dedupe_key IS NULL

VARIABLES
  rows,      \* rows[j]: one row of `jobs`
  runs       \* jobs the workers hold in memory

(* The rows of the partial unique index jobs_dedupe_key.                   *)
Keyed == {j \in Jobs : rows[j].state \in {"pending", "running"} /\ rows[j].key # NoKey}

-----------------------------------------------------------------------------
(* Properties.                                                             *)

(* Idempotent enqueue: whatever is retried, reclaimed, re-run or primed in *)
(* whatever order, a dedupe key is never owned by two live rows.           *)
LiveKeyUnique == \A j1, j2 \in Keyed : rows[j1].key = rows[j2].key => j1 = j2

(* `attempts` numbers the claims of a row: even when a slow handler is     *)
(* reclaimed and its job runs twice, no two runs carry the same number and *)
(* none is ahead of the row, so the latest claim can always be told.       *)
LeaseExclusive ==
  /\ \A r1, r2 \in runs :
       r1.job = r2.job /\ r1.attempts = r2.attempts => r1 = r2
  /\ \A r \in runs : rows[r.job].state # "absent" =>
       r.attempts <= rows[r.job].attempts

(* Visible failure: a dead-lettered job leaves the status screen only by   *)
(* the hand of another run of it, one a reclaim let in beside the run that *)
(* gave up; no timer and no other job reopens it.                          *)
DeadReopenedOnlyByOverrun ==
  [][\A j \in Jobs :
       rows[j].state = "dead" /\ rows'[j].state # "dead" =>
         /\ rows'[j].state \in {"pending", "succeeded"}
         /\ \E r \in runs : r.job = j /\ r \notin runs']_<<rows, runs>>
=============================================================================
