------------------------------ MODULE JobQueue ------------------------------
(***************************************************************************)
(* The Postgres job queue (src/jobs/queue.ts) and the worker loop that     *)
(* drains it (src/jobs/worker.ts).                                         *)
(*                                                                         *)
(* Several worker processes share one `jobs` table.  Each statement on the *)
(* table is one step; everything a worker does between two statements is   *)
(* in its memory (`runs`) and is lost when the process exits.  Clock time  *)
(* is kept as two facts about a row: whether `run_after` has passed        *)
(* (`due`) and whether `locked_at` is past the reclaim limit (`stale`).    *)
(***************************************************************************)
EXTENDS JobTable, Naturals, FiniteSets

CONSTANTS
  Workers,         \* worker processes
  Keys,            \* dedupe keys in use
  RecurringKeys,   \* keys of work whose handler returns { rerunAt }
  UnknownKeys,     \* keys of work no handler is registered for
  AskedKeys,       \* keys (NoKey too) the rest of the CRM enqueues with
  MaxAttempts,     \* max_attempts
  Concurrency,     \* WorkerOptions.concurrency
  Batch,           \* WorkerOptions.batch
  Overruns,        \* may a handler outlive the reclaim limit?
  DbErrors,        \* may a statement of a running job throw?
  PrimeErrors,     \* may the priming at the start?
  MaxClaims,       \* bound: claims of one row
  MaxExits         \* bound: exits of worker processes

ASSUME QueueAssumption ==
  /\ NoKey \notin Keys
  /\ RecurringKeys \subseteq Keys
  /\ UnknownKeys \subseteq Keys
  /\ RecurringKeys \cap UnknownKeys = {}
  /\ AskedKeys \subseteq (Keys \ RecurringKeys) \cup {NoKey}
  /\ MaxAttempts \in Nat \ {0}
  /\ Concurrency \in Nat \ {0}
  /\ Batch \in Nat \ {0}
  /\ Overruns \in BOOLEAN
  /\ DbErrors \in BOOLEAN /\ PrimeErrors \in BOOLEAN
  /\ MaxClaims \in Nat
  /\ MaxExits \in Nat

VARIABLES
  phase,     \* phase[w]: the worker process
  toPrime,   \* toPrime[w]: recurring keys primeRecurringJobs has still to plant
  exits      \* how many worker processes have exited (bounds the model)

vars == <<rows, runs, phase, toPrime, exits>>

Live == {"pending", "running"}
Serving == {"up", "unprimed"}   \* the process runs; the priming at its start failed
RowState == {"absent", "pending", "running", "succeeded", "dead", "cancelled"}

Row == [state : RowState, key : Keys \cup {NoKey}, attempts : Nat,
        due : BOOLEAN, stale : BOOLEAN]

(* A claimed job as the worker holds it: the row as RETURNING gave it, and *)
(* how far `run` has got.  "claimed": the UPDATE has committed and the     *)
(* tick has not yet seen its answer.                                       *)
Run == [worker : Workers, job : Jobs, key : Keys \cup {NoKey}, attempts : Nat,
        pc : {"claimed", "handler", "succeed", "rerun", "fail"}]

NoRow == [state |-> "absent", key |-> NoKey, attempts |-> 0,
          due |-> FALSE, stale |-> FALSE]

-----------------------------------------------------------------------------
(* The table.                                                              *)

(* The partial unique index jobs_dedupe_key: rows that own this key now.   *)
Holders(k) == {j \in Jobs : rows[j].state \in Live /\ rows[j].key = k}

(* Fault: the index covers only waiting rows.                              *)
FreeOfPending(k) == k = NoKey \/ {j \in Holders(k) : rows[j].state = "pending"} = {}

Free(k) == k = NoKey \/ Holders(k) = {}

(* BIGSERIAL never repeats: an identity is reused only once nothing can    *)
(* still name the row that had it.                                         *)
Fresh(j) == rows[j].state = "absent" /\ \A r \in runs : r.job # j

(* INSERT ... ON CONFLICT DO NOTHING: a key that is owned plants nothing.  *)
Plant(k, due) ==
  \/ /\ ~Free(k)
     /\ UNCHANGED rows
  \/ /\ Free(k)
     /\ \E j \in Jobs :
          /\ Fresh(j)
          /\ rows' = [rows EXCEPT ![j] = [state |-> "pending", key |-> k,
                        attempts |-> 0, due |-> due, stale |-> FALSE]]

Init ==
  /\ rows = [j \in Jobs |-> NoRow]
  /\ runs = {}
  /\ phase = [w \in Workers |-> "stopped"]
  /\ toPrime = [w \in Workers |-> {}]
  /\ exits = 0

(* A route, a service or a handler asks for work, now or later.            *)
Enqueue(k, due) ==
  /\ Free(k)
  /\ Plant(k, due)
  /\ UNCHANGED <<runs, phase, toPrime, exits>>

(* Exported by the queue; nothing in the CRM calls it for recurring work.  *)
CancelByDedupeKey(k) ==
  /\ \E j \in Holders(k) : rows[j].state = "pending"
  /\ rows' = [j \in Jobs |-> IF rows[j].state = "pending" /\ rows[j].key = k
                               THEN [rows[j] EXCEPT !.state = "cancelled"]
                               ELSE rows[j]]
  /\ UNCHANGED <<runs, phase, toPrime, exits>>

-----------------------------------------------------------------------------
(* The worker loop.                                                        *)

Dispatched(w) == {r \in runs : r.worker = w /\ r.pc # "claimed"}
Undispatched(w) == {r \in runs : r.worker = w /\ r.pc = "claimed"}

(* Fault: a tick asks for a batch whatever is in flight.                   *)
LimitOfBatch(w) == Batch

Limit(w) == LET capacity == Concurrency - Cardinality(Dispatched(w))
            IN  IF Batch < capacity THEN Batch ELSE capacity

(* Fault: the claim query forgets `state = 'pending'`.                     *)
DueWhateverState ==
  {j \in Jobs : rows[j].state \notin {"absent", "running"} /\ rows[j].due}

Due == {j \in Jobs : rows[j].state = "pending" /\ rows[j].due}

(* Fault: the claim does not count.                                        *)
ClaimedUncounted(row) == [row EXCEPT !.state = "running", !.stale = FALSE]

(* What the claiming UPDATE does to a row.                                 *)
Claimed(row) == [row EXCEPT !.state = "running", !.stale = FALSE,
                            !.attempts = row.attempts + 1]

(* One tick's UPDATE ... FOR UPDATE SKIP LOCKED.  Rows another transaction *)
(* holds are stepped over, so the batch is any set of due rows that fits.  *)
Claim(w) ==
  /\ phase[w] \in Serving
  /\ Undispatched(w) = {}
  /\ Cardinality(Dispatched(w)) < Concurrency
  /\ \E S \in SUBSET Due :
       /\ S # {}
       /\ Cardinality(S) <= Limit(w)
       /\ \A j \in S : rows[j].attempts < MaxClaims
       /\ rows' = [j \in Jobs |-> IF j \in S THEN Claimed(rows[j]) ELSE rows[j]]
       /\ runs' = runs \cup {[worker |-> w, job |-> j, key |-> rows[j].key,
                              attempts |-> Claimed(rows[j]).attempts,
                              pc |-> "claimed"] : j \in S}
  /\ UNCHANGED <<phase, toPrime, exits>>

(* The tick resumes with the claimed jobs and starts `run` on each; it     *)
(* does not look at `stopping` again.                                      *)
Dispatch(w) ==
  /\ Undispatched(w) # {}
  /\ runs' = (runs \ Undispatched(w))
               \cup {[r EXCEPT !.pc = "handler"] : r \in Undispatched(w)}
  /\ UNCHANGED <<rows, phase, toPrime, exits>>

Goto(r, pc) == runs' = (runs \ {r}) \cup {[r EXCEPT !.pc = pc]}
Finish(r) == runs' = runs \ {r}

HandlerReturns(r) ==
  /\ r.pc = "handler"
  /\ r.key \notin UnknownKeys
  /\ Goto(r, "succeed")
  /\ UNCHANGED <<rows, phase, toPrime, exits>>

(* The handler threw, or there is none for this kind.                      *)
HandlerThrows(r) ==
  /\ r.pc = "handler"
  /\ Goto(r, "fail")
  /\ UNCHANGED <<rows, phase, toPrime, exits>>

(* Fault: the dead letter is written as JobState's `failed`.               *)
SettleAsFailed(j, state) ==
  rows' = [rows EXCEPT ![j] = IF @.state = "absent" THEN @
             ELSE [@ EXCEPT !.state = IF state = "dead" THEN "failed" ELSE state,
                            !.stale = FALSE]]

(* Fault: a row that is settled begins to count anew.                      *)
SettleAfresh(j, state) ==
  rows' = [rows EXCEPT ![j] = IF @.state = "absent" THEN @
             ELSE [@ EXCEPT !.state = state, !.stale = FALSE, !.attempts = 0]]

(* UPDATE ... WHERE id: whatever state the row is in by now.               *)
Settle(j, state) ==
  rows' = [rows EXCEPT ![j] = IF @.state = "absent" THEN @
                              ELSE [@ EXCEPT !.state = state, !.stale = FALSE]]

(* Fault: recurring work enqueues itself while it still owns its key.      *)
SucceedSelfEnqueuing(r) ==
  /\ r.pc = "succeed"
  /\ Settle(r.job, "succeeded")
  /\ Finish(r)
  /\ UNCHANGED <<phase, toPrime, exits>>

Succeed(r) ==
  /\ r.pc = "succeed"
  /\ Settle(r.job, "succeeded")
  /\ IF r.key \in RecurringKeys THEN Goto(r, "rerun") ELSE Finish(r)
  /\ UNCHANGED <<phase, toPrime, exits>>

(* The next run of recurring work, planted only now that the key is free.  *)
Rerun(r) ==
  /\ r.pc = "rerun"
  /\ Plant(r.key, FALSE)
  /\ Finish(r)
  /\ UNCHANGED <<phase, toPrime, exits>>

(* `succeed` or the re-enqueue throws into the same catch as the handler.  *)
RecordingThrows(r) ==
  /\ DbErrors
  /\ r.pc \in {"succeed", "rerun"}
  /\ Goto(r, "fail")
  /\ UNCHANGED <<rows, phase, toPrime, exits>>

(* Fault: nothing counts as spent.                                         *)
NeverExhausted(r) == FALSE

(* `attempts` is the claim's copy; a kind with no handler counts as spent. *)
Exhausted(r) == r.attempts >= MaxAttempts \/ r.key \in UnknownKeys

DeadLetter(r) ==
  /\ r.pc = "fail"
  /\ Exhausted(r)
  /\ Settle(r.job, "dead")
  /\ Finish(r)
  /\ UNCHANGED <<phase, toPrime, exits>>

Retry(r) ==
  /\ r.pc = "fail"
  /\ ~Exhausted(r)
  /\ r.key = NoKey \/ Holders(r.key) \subseteq {r.job}
  /\ rows' = [rows EXCEPT ![r.job] =
                IF @.state = "absent" THEN @
                ELSE [@ EXCEPT !.state = "pending", !.due = FALSE, !.stale = FALSE]]
  /\ Finish(r)
  /\ UNCHANGED <<phase, toPrime, exits>>

(* The UPDATE in `fail` is refused: the key has a new owner, or the        *)
(* database is away.  It is logged and the row stays as it is.             *)
FailThrows(r) ==
  /\ r.pc = "fail"
  /\ \/ DbErrors
     \/ ~Exhausted(r) /\ r.key # NoKey /\ ~(Holders(r.key) \subseteq {r.job})
  /\ Finish(r)
  /\ UNCHANGED <<rows, phase, toPrime, exits>>

-----------------------------------------------------------------------------
(* Time, and the housekeeping timer.                                       *)

BecomesDue(j) ==
  /\ rows[j].state = "pending" /\ ~rows[j].due
  /\ rows' = [rows EXCEPT ![j].due = TRUE]
  /\ UNCHANGED <<runs, phase, toPrime, exits>>

Held(j) == \E r \in runs : r.job = j

LockAges(j) ==
  /\ rows[j].state = "running" /\ ~rows[j].stale
  /\ Overruns \/ ~Held(j)
  /\ rows' = [rows EXCEPT ![j].stale = TRUE]
  /\ UNCHANGED <<runs, phase, toPrime, exits>>

(* Faults: the reclaim forgets its age limit, reads the wrong state, or    *)
(* sweeps dead rows too.                                                   *)
StalledAtAnyAge == {j \in Jobs : rows[j].state = "running"}
StalledPending == {j \in Jobs : rows[j].state = "pending" /\ rows[j].stale}
StalledOrDead ==
  {j \in Jobs : \/ rows[j].state = "running" /\ rows[j].stale
                \/ rows[j].state = "dead"}

Stalled == {j \in Jobs : rows[j].state = "running" /\ rows[j].stale}

ReclaimStalled(w) ==
  /\ phase[w] \in Serving
  /\ Stalled # {}
  /\ rows' = [j \in Jobs |-> IF j \in Stalled
                THEN [rows[j] EXCEPT !.state = "pending", !.stale = FALSE]
                ELSE rows[j]]
  /\ UNCHANGED <<runs, phase, toPrime, exits>>

(* Only what succeeded long ago; `dead` rows are kept.                     *)
PruneFinishedJobs(w) ==
  /\ phase[w] \in Serving
  /\ \E old \in SUBSET {j \in Jobs : rows[j].state = "succeeded"} :
       /\ old # {}
       /\ rows' = [j \in Jobs |-> IF j \in old THEN NoRow ELSE rows[j]]
  /\ UNCHANGED <<runs, phase, toPrime, exits>>

-----------------------------------------------------------------------------
(* The process.                                                            *)

Start(w) ==
  /\ phase[w] \in {"stopped", "crashed"}
  /\ phase' = [phase EXCEPT ![w] = "up"]
  /\ toPrime' = [toPrime EXCEPT ![w] = RecurringKeys]
  /\ UNCHANGED <<rows, runs, exits>>

Prime(w, k) ==
  /\ k \in toPrime[w]
  /\ Plant(k, TRUE)
  /\ toPrime' = [toPrime EXCEPT ![w] = @ \ {k}]
  /\ UNCHANGED <<runs, phase, exits>>

(* start logs it and goes on without what was not planted.                 *)
PrimeThrows(w) ==
  /\ PrimeErrors
  /\ toPrime[w] # {}
  /\ toPrime' = [toPrime EXCEPT ![w] = {}]
  /\ phase' = [phase EXCEPT ![w] = IF @ = "up" THEN "unprimed" ELSE @]
  /\ UNCHANGED <<rows, runs, exits>>

Stop(w) ==
  /\ phase[w] \in Serving
  /\ exits < MaxExits
  /\ phase' = [phase EXCEPT ![w] = "stopping"]
  /\ exits' = exits + 1
  /\ UNCHANGED <<rows, runs, toPrime>>

(* The memory of the process goes with it.                                 *)
Exit(w, how) ==
  /\ phase' = [phase EXCEPT ![w] = how]
  /\ runs' = {r \in runs : r.worker # w}
  /\ toPrime' = [toPrime EXCEPT ![w] = {}]
  /\ UNCHANGED rows

(* `stop` waits for inFlight, which counts dispatched jobs only; then the  *)
(* pool is closed and the process exits.                                   *)
StopReturns(w) ==
  /\ phase[w] = "stopping"
  /\ Dispatched(w) = {}
  /\ Exit(w, "stopped")
  /\ UNCHANGED exits

StopTimesOut(w) ==
  /\ phase[w] = "stopping"
  /\ Dispatched(w) # {}
  /\ Exit(w, "crashed")
  /\ UNCHANGED exits

Crash(w) ==
  /\ phase[w] \in Serving
  /\ exits < MaxExits
  /\ Exit(w, "crashed")
  /\ exits' = exits + 1

-----------------------------------------------------------------------------
RunStep(r) ==
  \/ HandlerReturns(r) \/ HandlerThrows(r) \/ Succeed(r) \/ Rerun(r)
  \/ RecordingThrows(r) \/ DeadLetter(r) \/ Retry(r) \/ FailThrows(r)

WorkerStep(w) ==
  \/ Claim(w) \/ Dispatch(w) \/ ReclaimStalled(w) \/ PruneFinishedJobs(w)
  \/ Start(w) \/ (\E k \in RecurringKeys : Prime(w, k)) \/ PrimeThrows(w)
  \/ Stop(w) \/ StopReturns(w) \/ StopTimesOut(w) \/ Crash(w)

Next ==
  \/ \E k \in AskedKeys, due \in BOOLEAN : Enqueue(k, due)
  \/ \E k \in Keys \ RecurringKeys : CancelByDedupeKey(k)
  \/ \E r \in runs : RunStep(r)
  \/ \E j \in Jobs : BecomesDue(j) \/ LockAges(j)
  \/ \E w \in Workers : WorkerStep(w)

Spec == Init /\ [][Next]_vars

-----------------------------------------------------------------------------
(* What the scheduling justifies.  A handler that runs ends; stop has a    *)
(* deadline; the timers and the clock run; systemd restarts the process.   *)
(* A due row is claimed in the end because the claim orders by priority    *)
(* and run_after, so only finitely many rows go before it.                 *)
ClaimOf(j) == rows[j].state = "pending" /\ \E w \in Workers : Claim(w)
              /\ rows'[j].state = "running"

Fairness ==
  /\ \A w \in Workers :
       /\ WF_vars(Start(w))
       /\ WF_vars(Dispatch(w))
       /\ WF_vars(StopReturns(w) \/ StopTimesOut(w))
       /\ \A k \in RecurringKeys : WF_vars(Prime(w, k))
       /\ \A j \in Jobs :
            WF_vars(\E r \in runs : r.worker = w /\ r.job = j /\ RunStep(r))
  /\ \A j \in Jobs :
       /\ WF_vars(BecomesDue(j))
       /\ WF_vars(LockAges(j))
       /\ SF_vars(ClaimOf(j))
  /\ WF_vars(\E w \in Workers : ReclaimStalled(w))
  /\ WF_vars(\E w \in Workers : PruneFinishedJobs(w))

FairSpec == Spec /\ Fairness

-----------------------------------------------------------------------------
(* Properties.                                                             *)

TypeOK ==
  /\ rows \in [Jobs -> Row]
  /\ runs \subseteq Run
  /\ phase \in [Workers -> {"stopped", "crashed", "stopping"} \cup Serving]
  /\ toPrime \in [Workers -> SUBSET RecurringKeys]
  /\ exits \in Nat

(* While no handler outlives the reclaim limit, a job is in the hands of   *)
(* one run at a time and that run holds the row's latest claim: crashes,   *)
(* retries and reclaims do not make two workers do the same work.          *)
SoleHolder ==
  /\ \A r1, r2 \in runs : r1.job = r2.job => r1 = r2
  /\ \A r \in runs : r.pc # "rerun" =>
       rows[r.job].state = "running" /\ rows[r.job].attempts = r.attempts

(* The table as its clients see it.                                        *)
Contract == INSTANCE JobContract WITH states <- [j \in Jobs |-> rows[j].state]

ImplementsContract == Contract!Spec

(* Recurring work, while no statement of a finishing run fails: once       *)
(* primed, its next run is planted, in progress, about to be planted, or   *)
(* has visibly given up.  The end of a process may take a run away from    *)
(* under another worker; the only worker plants anew when it is back.      *)
OneWorker == \A v, w \in Workers : v = w

ChainAccounted ==
  exits = 0 \/ OneWorker =>
    \A w \in Workers, k \in RecurringKeys :
      phase[w] = "up" /\ k \notin toPrime[w] =>
        \/ Holders(k) # {}
        \/ \E r \in runs : r.key = k
        \/ \E j \in Jobs : rows[j].state = "dead" /\ rows[j].key = k

(* A worker never runs more jobs than its concurrency, although claims are *)
(* answered while earlier jobs are still finishing.                        *)
ConcurrencyBound == \A w \in Workers : Cardinality(Dispatched(w)) <= Concurrency

(* Work stranded by a crash, or by an UPDATE that was refused, comes back. *)
StrandedReturns ==
  \A j \in Jobs : rows[j].state = "running" ~> rows[j].state # "running"

(* A job that is asked for is done, cancelled, or reported dead.           *)
EveryJobSettles ==
  \A j \in Jobs :
    rows[j].state = "pending" ~> rows[j].state \in {"succeeded", "dead", "cancelled"}

(* Both, exits included.                                                   *)
JobsSettle == StrandedReturns /\ EveryJobSettles

-----------------------------------------------------------------------------
(* What the comments say and the code does not do.                         *)

(* handlers/index.ts:102 "The tick reschedules itself, so this only has to *)
(* plant the first one".                                                   *)
TickReschedulesItself == \A k \in RecurringKeys : []<>(Holders(k) # {})

(* worker.ts:9 "the loop stops claiming and waits for what it holds".      *)
StopWaitsForWhatItHolds ==
  [][\A w \in Workers :
       phase[w] = "stopping" /\ phase'[w] = "stopped" =>
         ~\E r \in runs : r.worker = w]_vars

(* queue.ts:20 "A job that exhausts its attempts becomes `dead`".          *)
ExhaustedBecomesDead ==
  \A j \in Jobs : rows[j].state \in Live => rows[j].attempts <= MaxAttempts

(* handlers/automation.ts:22 "there is exactly one of it however many      *)
(* workers are running" (the tick).                                        *)
TickRunsAlone ==
  \A r1, r2 \in runs :
    r1.key \in RecurringKeys /\ r1.key = r2.key
      /\ r1.pc = "handler" /\ r2.pc = "handler" => r1 = r2
=============================================================================
