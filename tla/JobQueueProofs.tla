--------------------------- MODULE JobQueueProofs ---------------------------
(***************************************************************************)
(* Proofs about JobQueue, for any set of jobs, workers and keys and any    *)
(* bound, and of what it implements: JobContract, while no handler         *)
(* outlives the reclaim limit and the statements that record an outcome    *)
(* do not fail.                                                            *)
(***************************************************************************)
EXTENDS JobQueue, FiniteSetTheorems, TLAPS

-----------------------------------------------------------------------------
(* Types.                                                                  *)

LEMMA PlantType ==
  ASSUME TypeOK, NEW k \in Keys \cup {NoKey}, NEW due \in BOOLEAN, Plant(k, due)
  PROVE  rows' \in [Jobs -> Row]
<1>1. [state |-> "pending", key |-> k, attempts |-> 0, due |-> due,
       stale |-> FALSE] \in Row
  BY DEF Row, RowState
<1>2. CASE UNCHANGED rows
  BY <1>2 DEF TypeOK
<1>3. ASSUME NEW j \in Jobs,
             rows' = [rows EXCEPT ![j] = [state |-> "pending", key |-> k,
                        attempts |-> 0, due |-> due, stale |-> FALSE]]
      PROVE  rows' \in [Jobs -> Row]
  BY <1>1, <1>3 DEF TypeOK
<1> QED
  BY <1>2, <1>3 DEF Plant

LEMMA ClaimedType ==
  ASSUME NEW row \in Row
  PROVE  Claimed(row) \in Row /\ Claimed(row).attempts \in Nat
<1>1. row.attempts + 1 \in Nat
  BY DEF Row
<1>2. \A n \in Nat : [row EXCEPT !.state = "running", !.stale = FALSE,
                                  !.attempts = n] \in Row
  BY DEF Row, RowState
<1> QED
  BY <1>1, <1>2 DEF Claimed, Row

LEMMA SettleType ==
  ASSUME TypeOK, NEW j \in Jobs, NEW state \in RowState, Settle(j, state)
  PROVE  rows' \in [Jobs -> Row]
BY ZenonT(40) DEF TypeOK, Settle, Row, RowState

LEMMA GotoType ==
  ASSUME TypeOK, NEW r \in runs,
         NEW pc \in {"claimed", "handler", "succeed", "rerun", "fail"}, Goto(r, pc)
  PROVE  runs' \subseteq Run
BY DEF TypeOK, Goto, Run

LEMMA ClaimType ==
  ASSUME TypeOK, NEW w \in Workers, Claim(w)
  PROVE  TypeOK'
<1>1. PICK S \in SUBSET Due :
        /\ rows' = [j \in Jobs |-> IF j \in S THEN Claimed(rows[j]) ELSE rows[j]]
        /\ runs' = runs \cup {[worker |-> w, job |-> j, key |-> rows[j].key,
                               attempts |-> Claimed(rows[j]).attempts,
                               pc |-> "claimed"] : j \in S}
  BY DEF Claim
<1>2. S \subseteq Jobs
  BY DEF Due
<1>3. \A j \in Jobs : Claimed(rows[j]) \in Row
  BY ClaimedType DEF TypeOK
<1>4. rows' \in [Jobs -> Row]
  BY <1>1, <1>3 DEF TypeOK
<1>5. \A j \in S : [worker |-> w, job |-> j, key |-> rows[j].key,
                    attempts |-> Claimed(rows[j]).attempts, pc |-> "claimed"] \in Run
  BY <1>2, <1>3 DEF TypeOK, Row, Run
<1>6. runs' \subseteq Run
  BY <1>1, <1>5 DEF TypeOK
<1> QED
  BY <1>4, <1>6 DEF TypeOK, Claim

LEMMA RunStepType ==
  ASSUME TypeOK, NEW r \in runs, RunStep(r)
  PROVE  TypeOK'
<1>0. r \in Run /\ r.job \in Jobs /\ r.key \in Keys \cup {NoKey}
  BY DEF TypeOK, Run
<1>1. UNCHANGED <<phase, toPrime, exits>>
  BY DEF RunStep, HandlerReturns, HandlerThrows, Succeed, Rerun, RecordingThrows,
         DeadLetter, Retry, FailThrows
<1>2. runs' \subseteq Run
  BY <1>0, GotoType DEF RunStep, HandlerReturns, HandlerThrows, Succeed, Rerun,
     RecordingThrows, DeadLetter, Retry, FailThrows, Finish, TypeOK
<1>3. rows' \in [Jobs -> Row]
  <2>1. CASE Succeed(r) \/ DeadLetter(r)
    BY <2>1, <1>0, SettleType DEF Succeed, DeadLetter, RowState
  <2>2. CASE Rerun(r)
    BY <2>2, <1>0, PlantType DEF Rerun
  <2>3. CASE Retry(r)
    BY <2>3, <1>0, ZenonT(40) DEF Retry, TypeOK, Row, RowState
  <2>4. CASE HandlerReturns(r) \/ HandlerThrows(r) \/ RecordingThrows(r) \/ FailThrows(r)
    BY <2>4 DEF HandlerReturns, HandlerThrows, RecordingThrows, FailThrows, TypeOK
  <2> QED
    BY <2>1, <2>2, <2>3, <2>4 DEF RunStep
<1> QED
  BY <1>1, <1>2, <1>3 DEF TypeOK

LEMMA ProcessType ==
  ASSUME QueueAssumption, TypeOK, NEW w \in Workers, WorkerStep(w)
  PROVE  TypeOK'
<1>1. CASE Claim(w)
  BY <1>1, ClaimType
<1>2. CASE Dispatch(w)
  BY <1>2 DEF Dispatch, Undispatched, TypeOK, Run
<1>3. CASE ReclaimStalled(w)
  <2>1. \A j \in Jobs : [rows[j] EXCEPT !.state = "pending", !.stale = FALSE] \in Row
    BY ZenonT(40) DEF TypeOK, Row, RowState
  <2> QED
    BY <1>3, <2>1 DEF ReclaimStalled, TypeOK
<1>4. CASE PruneFinishedJobs(w)
  BY <1>4 DEF PruneFinishedJobs, NoRow, TypeOK, Row, RowState
<1>5. CASE Start(w)
  BY <1>5 DEF Start, Serving, TypeOK
<1>6. CASE \E k \in RecurringKeys : Prime(w, k)
  BY <1>6, PlantType DEF Prime, TypeOK, QueueAssumption
<1>7. CASE PrimeThrows(w)
  BY <1>7 DEF PrimeThrows, Serving, TypeOK
<1>8. CASE Stop(w)
  BY <1>8 DEF Stop, TypeOK
<1>9. CASE StopReturns(w) \/ StopTimesOut(w) \/ Crash(w)
  BY <1>9 DEF StopReturns, StopTimesOut, Crash, Exit, TypeOK
<1> QED
  BY <1>1, <1>2, <1>3, <1>4, <1>5, <1>6, <1>7, <1>8, <1>9 DEF WorkerStep

(* Every variable keeps its type: a row read back by a worker, a retry or  *)
(* a reclaim is always a row of the table the code expects.                *)
THEOREM TypeCorrect ==
  ASSUME QueueAssumption PROVE Spec => []TypeOK
<1>1. Init => TypeOK
  BY DEF Init, TypeOK, NoRow, Row, RowState
<1>2. TypeOK /\ [Next]_vars => TypeOK'
  <2> SUFFICES ASSUME TypeOK, [Next]_vars PROVE TypeOK'
    OBVIOUS
  <2>1. CASE UNCHANGED vars
    BY <2>1 DEF vars, TypeOK
  <2>2. ASSUME NEW k \in AskedKeys, NEW due \in BOOLEAN, Enqueue(k, due) PROVE TypeOK'
    BY <2>2, PlantType DEF Enqueue, TypeOK, QueueAssumption
  <2>3. ASSUME NEW k \in Keys, CancelByDedupeKey(k) PROVE TypeOK'
    BY <2>3 DEF CancelByDedupeKey, TypeOK, Row, RowState
  <2>4. ASSUME NEW j \in Jobs, BecomesDue(j) PROVE TypeOK'
    <3>1. /\ rows' = [rows EXCEPT ![j].due = TRUE]
          /\ UNCHANGED <<runs, phase, toPrime, exits>>
      BY <2>4 DEF BecomesDue
    <3>2. [rows[j] EXCEPT !.due = TRUE] \in Row
      BY ZenonT(40) DEF TypeOK, Row
    <3> QED
      BY <3>1, <3>2 DEF TypeOK
  <2>5. ASSUME NEW j \in Jobs, LockAges(j) PROVE TypeOK'
    <3>1. /\ rows' = [rows EXCEPT ![j].stale = TRUE]
          /\ UNCHANGED <<runs, phase, toPrime, exits>>
      BY <2>5 DEF LockAges
    <3>2. [rows[j] EXCEPT !.stale = TRUE] \in Row
      BY ZenonT(40) DEF TypeOK, Row
    <3> QED
      BY <3>1, <3>2 DEF TypeOK
  <2> QED
    BY <2>1, <2>2, <2>3, <2>4, <2>5, RunStepType, ProcessType DEF Next
<1> QED
  BY <1>1, <1>2, PTL DEF Spec

-----------------------------------------------------------------------------
(* Keys and leases.                                                        *)

(* A run knows the key its row was planted with: rows are reused by nobody *)
(* while something in memory still names them.                             *)
RunKeys == \A r \in runs :
             rows[r.job].state # "absent" => rows[r.job].key = r.key

LeaseInv == TypeOK /\ RunKeys /\ LeaseExclusive

(* A step that changes a row leaves its key and never lowers its claims,   *)
(* unless the row goes, or was free to be planted anew.                    *)
RowKept(j) ==
  \/ rows'[j].state = "absent"
  \/ Fresh(j)
  \/ /\ rows[j].state # "absent"
     /\ rows'[j].key = rows[j].key
     /\ rows[j].attempts <= rows'[j].attempts

LEMMA PlantKeeps ==
  ASSUME TypeOK, NEW k \in Keys \cup {NoKey}, NEW due \in BOOLEAN, Plant(k, due)
  PROVE  \A j \in Jobs : RowKept(j)
BY DEF TypeOK, Plant, RowKept, Row

LEMMA SettleKeeps ==
  ASSUME TypeOK, NEW i \in Jobs, NEW state \in RowState, Settle(i, state)
  PROVE  \A j \in Jobs : RowKept(j)
BY DEF TypeOK, Settle, RowKept, Row

LEMMA StepKeeps ==
  ASSUME QueueAssumption, TypeOK, Next
  PROVE  \A j \in Jobs : RowKept(j)
<1>1. ASSUME UNCHANGED rows PROVE \A j \in Jobs : RowKept(j)
  BY <1>1 DEF TypeOK, RowKept, Row
<1>2. ASSUME NEW k \in AskedKeys, NEW due \in BOOLEAN, Enqueue(k, due)
      PROVE  \A j \in Jobs : RowKept(j)
  BY <1>2, PlantKeeps DEF Enqueue, QueueAssumption
<1>3. ASSUME NEW k \in Keys, CancelByDedupeKey(k)
      PROVE  \A j \in Jobs : RowKept(j)
  BY <1>3 DEF CancelByDedupeKey, TypeOK, RowKept, Row
<1>4. ASSUME NEW i \in Jobs, BecomesDue(i) PROVE \A j \in Jobs : RowKept(j)
  BY <1>4 DEF BecomesDue, TypeOK, RowKept, Row
<1>5. ASSUME NEW i \in Jobs, LockAges(i) PROVE \A j \in Jobs : RowKept(j)
  BY <1>5 DEF LockAges, TypeOK, RowKept, Row
<1>6. ASSUME NEW r \in runs, RunStep(r) PROVE \A j \in Jobs : RowKept(j)
  <2>0. r.job \in Jobs /\ r.key \in Keys \cup {NoKey}
    BY DEF TypeOK, Run
  <2>1. CASE Succeed(r) \/ DeadLetter(r)
    BY <2>0, <2>1, SettleKeeps DEF Succeed, DeadLetter, RowState
  <2>2. CASE Rerun(r)
    BY <2>0, <2>2, PlantKeeps DEF Rerun
  <2>3. CASE Retry(r)
    BY <2>0, <2>3 DEF Retry, TypeOK, RowKept, Row
  <2>4. CASE HandlerReturns(r) \/ HandlerThrows(r) \/ RecordingThrows(r) \/ FailThrows(r)
    BY <2>4, <1>1 DEF HandlerReturns, HandlerThrows, RecordingThrows, FailThrows
  <2> QED
    BY <1>6, <2>1, <2>2, <2>3, <2>4 DEF RunStep
<1>7. ASSUME NEW w \in Workers, WorkerStep(w) PROVE \A j \in Jobs : RowKept(j)
  <2>1. CASE Claim(w)
    <3>1. PICK S \in SUBSET Due :
            rows' = [j \in Jobs |-> IF j \in S THEN Claimed(rows[j]) ELSE rows[j]]
      BY <2>1 DEF Claim
    <3>2. \A j \in Jobs : rows[j].attempts <= rows[j].attempts + 1
      BY DEF TypeOK, Row
    <3>3. \A j \in Jobs : /\ Claimed(rows[j]).key = rows[j].key
                          /\ Claimed(rows[j]).attempts = rows[j].attempts + 1
      BY DEF Claimed, TypeOK, Row
    <3>4. \A j \in S : rows'[j] = Claimed(rows[j]) /\ rows[j].state # "absent"
      BY <3>1 DEF Due
    <3>5. \A j \in Jobs \ S : rows'[j] = rows[j]
      BY <3>1
    <3> QED
      BY <3>2, <3>3, <3>4, <3>5 DEF RowKept, TypeOK, Row
  <2>2. CASE ReclaimStalled(w)
    <3>1. \A j \in Jobs : \/ rows'[j] = rows[j]
                          \/ /\ rows[j].state = "running"
                             /\ rows'[j].key = rows[j].key
                             /\ rows'[j].attempts = rows[j].attempts
      BY <2>2, ZenonT(40) DEF ReclaimStalled, Stalled, TypeOK, Row
    <3> QED
      BY <3>1 DEF TypeOK, RowKept, Row
  <2>3. CASE PruneFinishedJobs(w)
    BY <2>3 DEF PruneFinishedJobs, NoRow, TypeOK, RowKept, Row
  <2>4. CASE \E k \in RecurringKeys : Prime(w, k)
    BY <2>4, PlantKeeps DEF Prime, QueueAssumption
  <2>5. CASE UNCHANGED rows
    BY <2>5, <1>1
  <2> QED
    BY <1>7, <2>1, <2>2, <2>3, <2>4, <2>5 DEF WorkerStep, Dispatch, Start,
       PrimeThrows, Stop, StopReturns, StopTimesOut, Crash, Exit
<1> QED
  BY <1>2, <1>3, <1>4, <1>5, <1>6, <1>7 DEF Next

(* A run comes from the same claim of the same row, or is a claim made now. *)
RunKept(r) ==
  \E q \in runs : q.job = r.job /\ q.key = r.key /\ q.attempts = r.attempts

NewClaim(r) ==
  /\ r.job \in Due
  /\ r.key = rows[r.job].key
  /\ r.attempts = rows[r.job].attempts + 1
  /\ rows'[r.job].key = r.key
  /\ rows'[r.job].attempts = r.attempts

LEMMA ClaimDescends ==
  ASSUME TypeOK, NEW w \in Workers, Claim(w), NEW r \in runs', r \notin runs
  PROVE  NewClaim(r)
<1>1. PICK S \in SUBSET Due :
        /\ rows' = [j \in Jobs |-> IF j \in S THEN Claimed(rows[j]) ELSE rows[j]]
        /\ runs' = runs \cup {[worker |-> w, job |-> j, key |-> rows[j].key,
                               attempts |-> Claimed(rows[j]).attempts,
                               pc |-> "claimed"] : j \in S}
  BY DEF Claim
<1>2. PICK j \in S : r = [worker |-> w, job |-> j, key |-> rows[j].key,
                          attempts |-> Claimed(rows[j]).attempts, pc |-> "claimed"]
  BY <1>1
<1>3. j \in Due /\ j \in Jobs
  BY DEF Due
<1>4. rows'[j] = Claimed(rows[j])
  BY <1>1, <1>2, <1>3
<1>5. /\ Claimed(rows[j]).key = rows[j].key
      /\ Claimed(rows[j]).attempts = rows[j].attempts + 1
  BY <1>3 DEF Claimed, TypeOK, Row
<1> QED
  BY <1>2, <1>3, <1>4, <1>5 DEF NewClaim

LEMMA StepDescends ==
  ASSUME TypeOK, Next
  PROVE  \A r \in runs' : RunKept(r) \/ NewClaim(r)
<1>1. ASSUME runs' \subseteq runs PROVE \A r \in runs' : RunKept(r)
  BY <1>1 DEF RunKept
<1>2. ASSUME NEW q \in runs, RunStep(q) PROVE \A r \in runs' : RunKept(r)
  <2>1. ASSUME NEW pc, Goto(q, pc) PROVE \A r \in runs' : RunKept(r)
    <3>1. q \in Run
      BY DEF TypeOK
    <3>2. LET p == [q EXCEPT !.pc = pc]
          IN  p.job = q.job /\ p.key = q.key /\ p.attempts = q.attempts
      BY <3>1 DEF Run
    <3> QED
      BY <2>1, <3>2 DEF Goto, RunKept
  <2>2. CASE Finish(q)
    BY <2>2, <1>1 DEF Finish
  <2> QED
    BY <1>2, <2>1, <2>2 DEF RunStep, HandlerReturns, HandlerThrows, Succeed, Rerun,
       RecordingThrows, DeadLetter, Retry, FailThrows
<1>3. ASSUME NEW w \in Workers, Claim(w) PROVE \A r \in runs' : RunKept(r) \/ NewClaim(r)
  BY <1>3, ClaimDescends DEF RunKept
<1>4. ASSUME NEW w \in Workers, Dispatch(w) PROVE \A r \in runs' : RunKept(r)
  BY <1>4 DEF Dispatch, Undispatched, RunKept, TypeOK, Run
<1>5. ASSUME NEW w \in Workers, WorkerStep(w)
      PROVE  \A r \in runs' : RunKept(r) \/ NewClaim(r)
  BY <1>1, <1>3, <1>4, <1>5 DEF WorkerStep, ReclaimStalled, PruneFinishedJobs, Start,
     Prime, PrimeThrows, Stop, StopReturns, StopTimesOut, Crash, Exit
<1> QED
  BY <1>1, <1>2, <1>5 DEF Next, Enqueue, CancelByDedupeKey, BecomesDue, LockAges

LEMMA StepExclusive ==
  ASSUME LeaseInv, Next,
         NEW r1 \in runs', NEW r2 \in runs', r1.job = r2.job, r1.attempts = r2.attempts
  PROVE  r1 = r2
<1>0. \A p, q \in runs : p.job = q.job /\ p.attempts = q.attempts => p = q
  BY DEF LeaseInv, LeaseExclusive
<1>1. CASE runs' \subseteq runs
  BY <1>1, <1>0
<1>2. ASSUME NEW q \in runs, RunStep(q) PROVE r1 = r2
  <2>1. ASSUME NEW pc, Goto(q, pc) PROVE r1 = r2
    <3>1. q \in Run
      BY DEF LeaseInv, TypeOK
    <3>2. LET p == [q EXCEPT !.pc = pc]
          IN  p.job = q.job /\ p.key = q.key /\ p.attempts = q.attempts
      BY <3>1 DEF Run
    <3> QED
      BY <2>1, <3>2, <1>0 DEF Goto
  <2>2. CASE Finish(q)
    BY <2>2, <1>1 DEF Finish
  <2> QED
    BY <1>2, <2>1, <2>2 DEF RunStep, HandlerReturns, HandlerThrows, Succeed, Rerun,
       RecordingThrows, DeadLetter, Retry, FailThrows
<1>3. ASSUME NEW w \in Workers, Claim(w) PROVE r1 = r2
  <2>1. ASSUME NEW p \in runs, NEW q, NewClaim(q), p.job = q.job
        PROVE  p.attempts # q.attempts
    <3>1. p.attempts <= rows[p.job].attempts
      BY <2>1 DEF LeaseInv, LeaseExclusive, NewClaim, Due
    <3>2. p.attempts \in Nat /\ rows[p.job].attempts \in Nat
      BY DEF LeaseInv, TypeOK, Run, Row
    <3> QED
      BY <2>1, <3>1, <3>2 DEF NewClaim
  <2>2. CASE r1 \in runs /\ r2 \in runs
    BY <2>2, <1>0
  <2>3. CASE r1 \in runs /\ r2 \notin runs
    BY <2>3, <1>3, <2>1, ClaimDescends DEF LeaseInv
  <2>4. CASE r1 \notin runs /\ r2 \in runs
    BY <2>4, <1>3, <2>1, ClaimDescends DEF LeaseInv
  <2>5. CASE r1 \notin runs /\ r2 \notin runs
    BY <2>5, <1>3 DEF Claim
  <2> QED
    BY <2>2, <2>3, <2>4, <2>5
<1>4. ASSUME NEW w \in Workers, Dispatch(w) PROVE r1 = r2
  <2>1. \A q \in runs : LET p == [q EXCEPT !.pc = "handler"]
                       IN  p.job = q.job /\ p.attempts = q.attempts
    BY DEF LeaseInv, TypeOK, Run
  <2>2. ASSUME NEW r \in runs'
        PROVE  \E q \in runs :
                 /\ q.job = r.job /\ q.attempts = r.attempts
                 /\ \/ q \in Undispatched(w) /\ r = [q EXCEPT !.pc = "handler"]
                    \/ q \notin Undispatched(w) /\ r = q
    <3>1. CASE r \in runs \ Undispatched(w)
      BY <3>1
    <3>2. CASE r \in {[q EXCEPT !.pc = "handler"] : q \in Undispatched(w)}
      <4>1. PICK q \in Undispatched(w) : r = [q EXCEPT !.pc = "handler"]
        BY <3>2
      <4>2. q \in runs
        BY DEF Undispatched
      <4> QED
        BY <4>1, <4>2, <2>1
    <3> QED
      BY <1>4, <2>2, <3>1, <3>2 DEF Dispatch
  <2>3. PICK q1 \in runs :
          /\ q1.job = r1.job /\ q1.attempts = r1.attempts
          /\ \/ q1 \in Undispatched(w) /\ r1 = [q1 EXCEPT !.pc = "handler"]
             \/ q1 \notin Undispatched(w) /\ r1 = q1
    BY <2>2
  <2>4. PICK q2 \in runs :
          /\ q2.job = r2.job /\ q2.attempts = r2.attempts
          /\ \/ q2 \in Undispatched(w) /\ r2 = [q2 EXCEPT !.pc = "handler"]
             \/ q2 \notin Undispatched(w) /\ r2 = q2
    BY <2>2
  <2>5. q1 = q2
    BY <2>3, <2>4, <1>0
  <2> QED
    BY <2>3, <2>4, <2>5
<1>5. ASSUME NEW w \in Workers, WorkerStep(w) PROVE r1 = r2
  BY <1>1, <1>3, <1>4, <1>5 DEF WorkerStep, ReclaimStalled, PruneFinishedJobs, Start,
     Prime, PrimeThrows, Stop, StopReturns, StopTimesOut, Crash, Exit
<1> QED
  BY <1>1, <1>2, <1>5 DEF Next, Enqueue, CancelByDedupeKey, BecomesDue, LockAges

LEMMA LeaseStep ==
  ASSUME QueueAssumption, LeaseInv, TypeOK', [Next]_vars
  PROVE  LeaseInv'
<1>1. CASE UNCHANGED vars
  BY <1>1 DEF vars, LeaseInv, RunKeys, LeaseExclusive
<1>2. CASE Next
  <2>1. \A r \in runs' : RunKept(r) \/ NewClaim(r)
    BY <1>2, StepDescends DEF LeaseInv
  <2>2. \A j \in Jobs : RowKept(j)
    BY <1>2, StepKeeps DEF LeaseInv
  <2>3. ASSUME NEW r \in runs', rows'[r.job].state # "absent"
        PROVE  rows'[r.job].key = r.key /\ r.attempts <= rows'[r.job].attempts
    <3>1. CASE NewClaim(r)
      BY <3>1 DEF NewClaim, TypeOK, Run
    <3>2. CASE RunKept(r)
      <4>1. PICK q \in runs : q.job = r.job /\ q.key = r.key /\ q.attempts = r.attempts
        BY <3>2 DEF RunKept
      <4>2. /\ q.job \in Jobs /\ q.attempts \in Nat
            /\ rows[q.job].attempts \in Nat /\ rows'[q.job].attempts \in Nat
        BY DEF LeaseInv, TypeOK, Run, Row
      <4>3. /\ rows[q.job].state # "absent"
            /\ rows'[q.job].key = rows[q.job].key
            /\ rows[q.job].attempts <= rows'[q.job].attempts
        BY <2>2, <2>3, <4>1, <4>2 DEF RowKept, Fresh
      <4>4. rows[q.job].key = q.key /\ q.attempts <= rows[q.job].attempts
        BY <4>3 DEF LeaseInv, RunKeys, LeaseExclusive
      <4> QED
        BY <4>1, <4>2, <4>3, <4>4
    <3> QED
      BY <2>1, <3>1, <3>2
  <2>4. RunKeys' /\ LeaseExclusive'
    BY <1>2, <2>3, StepExclusive DEF RunKeys, LeaseExclusive
  <2> QED
    BY <2>4 DEF LeaseInv
<1> QED
  BY <1>1, <1>2

LEMMA LeaseAlways ==
  ASSUME QueueAssumption PROVE Spec => []LeaseInv
<1>1. Init /\ TypeOK => LeaseInv
  BY DEF Init, LeaseInv, RunKeys, LeaseExclusive
<1>2. LeaseInv /\ TypeOK' /\ [Next]_vars => LeaseInv'
  BY LeaseStep
<1> QED
  BY <1>1, <1>2, TypeCorrect, PTL DEF Spec

(* However late a handler comes back and however often its row was         *)
(* reclaimed meanwhile, two runs of a job never carry the same attempt.    *)
THEOREM LeasesAreExclusive ==
  ASSUME QueueAssumption PROVE Spec => []LeaseExclusive
<1>1. LeaseInv => LeaseExclusive
  BY DEF LeaseInv
<1> QED
  BY <1>1, LeaseAlways, PTL

-----------------------------------------------------------------------------
(* The dedupe index.                                                       *)

KeyInv == LeaseInv /\ LiveKeyUnique

(* No row comes to own a key it did not own before.                        *)
NoNewOwner ==
  \A j \in Jobs : rows'[j].state \in Live =>
    rows[j].state \in Live /\ rows'[j].key = rows[j].key

LEMMA NoNewOwnerKeeps ==
  ASSUME LiveKeyUnique, NoNewOwner
  PROVE  LiveKeyUnique'
BY DEF LiveKeyUnique, Keyed, Live, NoNewOwner

LEMMA PlantUnique ==
  ASSUME KeyInv, NEW k \in Keys \cup {NoKey}, NEW due \in BOOLEAN, Plant(k, due)
  PROVE  LiveKeyUnique'
<1>1. CASE UNCHANGED rows
  BY <1>1 DEF KeyInv, LiveKeyUnique, Keyed, Live
<1>2. ASSUME NEW j \in Jobs, Free(k),
             rows' = [rows EXCEPT ![j] = [state |-> "pending", key |-> k,
                        attempts |-> 0, due |-> due, stale |-> FALSE]]
      PROVE  LiveKeyUnique'
  <2>1. \A i \in Jobs \ {j} : rows'[i] = rows[i]
    BY <1>2 DEF KeyInv, LeaseInv, TypeOK
  <2>2. rows'[j].key = k
    BY <1>2 DEF KeyInv, LeaseInv, TypeOK
  <2>3. k # NoKey => \A i \in Jobs : ~(rows[i].state \in Live /\ rows[i].key = k)
    BY <1>2 DEF Free, Holders
  <2> QED
    BY <2>1, <2>2, <2>3 DEF KeyInv, LiveKeyUnique, Keyed, Live
<1> QED
  BY <1>1, <1>2 DEF Plant

LEMMA RetryUnique ==
  ASSUME KeyInv, NEW r \in runs, Retry(r)
  PROVE  LiveKeyUnique'
<1>0. r.job \in Jobs /\ rows \in [Jobs -> Row]
  BY DEF KeyInv, LeaseInv, TypeOK, Run
<1>1. \A i \in Jobs \ {r.job} : rows'[i] = rows[i]
  BY <1>0 DEF Retry
<1>2. rows'[r.job].state \in Live => rows'[r.job].key = r.key
  <2>1. rows[r.job].state # "absent" => rows[r.job].key = r.key
    BY DEF KeyInv, LeaseInv, RunKeys
  <2>2. rows[r.job].state # "absent" => rows'[r.job].key = rows[r.job].key
    BY <1>0 DEF Retry, Row
  <2>3. rows[r.job].state = "absent" => rows'[r.job].state = "absent"
    BY <1>0 DEF Retry
  <2> QED
    BY <2>1, <2>2, <2>3 DEF Live
<1>3. r.key # NoKey =>
        \A i \in Jobs \ {r.job} : ~(rows[i].state \in Live /\ rows[i].key = r.key)
  BY DEF Retry, Holders
<1> QED
  BY <1>1, <1>2, <1>3 DEF KeyInv, LiveKeyUnique, Keyed, Live

LEMMA RunStepUnique ==
  ASSUME KeyInv, NEW r \in runs, RunStep(r)
  PROVE  LiveKeyUnique'
<1>0. r.job \in Jobs /\ r.key \in Keys \cup {NoKey} /\ rows \in [Jobs -> Row]
  BY DEF KeyInv, LeaseInv, TypeOK, Run
<1>1. ASSUME NEW state \in {"succeeded", "dead"}, Settle(r.job, state)
      PROVE  LiveKeyUnique'
  <2>1. NoNewOwner
    BY <1>0, <1>1 DEF Settle, NoNewOwner, Live, Row
  <2> QED
    BY <2>1, NoNewOwnerKeeps DEF KeyInv
<1>2. CASE Rerun(r)
  BY <1>0, <1>2, PlantUnique DEF Rerun
<1>3. CASE Retry(r)
  BY <1>3, RetryUnique
<1>4. CASE UNCHANGED rows
  BY <1>4 DEF KeyInv, LiveKeyUnique, Keyed, Live
<1> QED
  BY <1>1, <1>2, <1>3, <1>4 DEF RunStep, HandlerReturns, HandlerThrows, Succeed,
     RecordingThrows, DeadLetter, FailThrows

LEMMA WorkerStepUnique ==
  ASSUME QueueAssumption, KeyInv, NEW w \in Workers, WorkerStep(w)
  PROVE  LiveKeyUnique'
<1>0. rows \in [Jobs -> Row]
  BY DEF KeyInv, LeaseInv, TypeOK
<1>1. CASE Claim(w)
  <2>1. PICK S \in SUBSET Due :
          rows' = [j \in Jobs |-> IF j \in S THEN Claimed(rows[j]) ELSE rows[j]]
    BY <1>1 DEF Claim
  <2>2. \A j \in Jobs : Claimed(rows[j]).key = rows[j].key
    BY <1>0 DEF Claimed, Row
  <2>3. NoNewOwner
    BY <1>0, <2>1, <2>2 DEF NoNewOwner, Due, Live
  <2> QED
    BY <2>3, NoNewOwnerKeeps DEF KeyInv
<1>2. CASE ReclaimStalled(w)
  <2>1. \A j \in Jobs : \/ rows'[j] = rows[j]
                        \/ /\ rows[j].state = "running"
                           /\ rows'[j].key = rows[j].key
    BY <1>0, <1>2 DEF ReclaimStalled, Stalled, Row
  <2> QED
    BY <2>1, NoNewOwnerKeeps DEF NoNewOwner, Live, KeyInv
<1>3. CASE PruneFinishedJobs(w)
  <2>1. NoNewOwner
    BY <1>0, <1>3 DEF PruneFinishedJobs, NoNewOwner, NoRow, Live
  <2> QED
    BY <2>1, NoNewOwnerKeeps DEF KeyInv
<1>4. CASE \E k \in RecurringKeys : Prime(w, k)
  BY <1>4, PlantUnique DEF Prime, QueueAssumption
<1>5. CASE UNCHANGED rows
  BY <1>5 DEF KeyInv, LiveKeyUnique, Keyed, Live
<1> QED
  BY <1>1, <1>2, <1>3, <1>4, <1>5 DEF WorkerStep, Dispatch, Start, PrimeThrows,
     Stop, StopReturns, StopTimesOut, Crash, Exit

(* Idempotent enqueue, for every mixture of enqueues, retries, reclaims    *)
(* and re-runs: a dedupe key has at most one pending or running row.       *)
THEOREM KeysAreUnique ==
  ASSUME QueueAssumption PROVE Spec => []LiveKeyUnique
<1>1. Init /\ TypeOK => KeyInv
  BY DEF Init, KeyInv, LeaseInv, RunKeys, LeaseExclusive, LiveKeyUnique, Keyed, Live,
    NoRow
<1>2. KeyInv /\ TypeOK' /\ [Next]_vars => KeyInv'
  <2> SUFFICES ASSUME KeyInv, TypeOK', [Next]_vars PROVE LiveKeyUnique'
    BY LeaseStep DEF KeyInv
  <2>1. CASE UNCHANGED rows
    BY <2>1 DEF KeyInv, LiveKeyUnique, Keyed, Live
  <2>2. ASSUME NEW k \in AskedKeys, NEW due \in BOOLEAN, Enqueue(k, due)
        PROVE  LiveKeyUnique'
    BY <2>2, PlantUnique DEF Enqueue, QueueAssumption
  <2>3. ASSUME NEW k \in Keys, CancelByDedupeKey(k) PROVE LiveKeyUnique'
    <3>1. NoNewOwner
      BY <2>3 DEF CancelByDedupeKey, NoNewOwner, Live, KeyInv, LeaseInv, TypeOK, Row
    <3> QED
      BY <3>1, NoNewOwnerKeeps DEF KeyInv
  <2>4. ASSUME NEW j \in Jobs, BecomesDue(j) PROVE LiveKeyUnique'
    <3>1. NoNewOwner
      BY <2>4 DEF BecomesDue, NoNewOwner, KeyInv, LeaseInv, TypeOK, Row
    <3> QED
      BY <3>1, NoNewOwnerKeeps DEF KeyInv
  <2>5. ASSUME NEW j \in Jobs, LockAges(j) PROVE LiveKeyUnique'
    <3>1. NoNewOwner
      BY <2>5 DEF LockAges, NoNewOwner, KeyInv, LeaseInv, TypeOK, Row
    <3> QED
      BY <3>1, NoNewOwnerKeeps DEF KeyInv
  <2> QED
    BY <2>1, <2>2, <2>3, <2>4, <2>5, RunStepUnique, WorkerStepUnique DEF Next, vars
<1>3. KeyInv => LiveKeyUnique
  BY DEF KeyInv
<1> QED
  BY <1>1, <1>2, <1>3, TypeCorrect, PTL DEF Spec

-----------------------------------------------------------------------------
(* The contract.                                                           *)

Timely == Overruns = FALSE /\ DbErrors = FALSE

(* A run that has recorded its success no longer owns a live row.          *)
RerunSettled ==
  \A r \in runs : r.pc = "rerun" => rows[r.job].state \in {"succeeded", "absent"}

HeldNotStale == \A r \in runs : ~rows[r.job].stale

HolderInv == TypeOK /\ SoleHolder /\ RerunSettled /\ HeldNotStale

(* What HolderInv asks of one run. *)
Holds(r) ==
  /\ r.pc # "rerun" => rows[r.job].state = "running" /\ rows[r.job].attempts = r.attempts
  /\ r.pc = "rerun" => rows[r.job].state \in {"succeeded", "absent"}
  /\ ~rows[r.job].stale

LEMMA HolderInvByRun ==
  HolderInv <=> /\ TypeOK
                /\ \A r1, r2 \in runs : r1.job = r2.job => r1 = r2
                /\ \A r \in runs : Holds(r)
BY DEF HolderInv, SoleHolder, RerunSettled, HeldNotStale, Holds

(* The rows a step touches are held by nobody.                             *)
LEMMA UntouchedHolds ==
  ASSUME HolderInv, TypeOK', runs' \subseteq runs,
         \A r \in runs' : rows'[r.job] = rows[r.job]
  PROVE  HolderInv'
<1>1. \A r \in runs' : Holds(r)'
  BY HolderInvByRun DEF Holds
<1>2. \A r1, r2 \in runs' : r1.job = r2.job => r1 = r2
  BY HolderInvByRun
<1> QED
  BY <1>1, <1>2 DEF HolderInv, SoleHolder, RerunSettled, HeldNotStale, Holds

(* One run moves on, together with its own row.                            *)
LEMMA AdvancedHolds ==
  ASSUME HolderInv, TypeOK', NEW r \in runs, NEW pc, Goto(r, pc),
         \A j \in Jobs \ {r.job} : rows'[j] = rows[j],
         LET q == [r EXCEPT !.pc = pc] IN Holds(q)'
  PROVE  HolderInv'
<1> DEFINE q == [r EXCEPT !.pc = pc]
<1>1. r \in Run /\ q.job = r.job
  BY DEF HolderInv, TypeOK, Run
<1>2. runs' = (runs \ {r}) \cup {q}
  BY DEF Goto
<1>3. ASSUME NEW p \in runs \ {r} PROVE p.job # r.job /\ Holds(p)'
  <2>1. p.job # r.job /\ p.job \in Jobs
    BY <1>3 DEF HolderInv, SoleHolder, TypeOK, Run
  <2>2. rows'[p.job] = rows[p.job]
    BY <2>1
  <2> QED
    BY <2>1, <2>2, HolderInvByRun DEF Holds
<1>4. \A p \in runs' : Holds(p)'
  BY <1>2, <1>3
<1>5. \A p1, p2 \in runs' : p1.job = p2.job => p1 = p2
  BY <1>1, <1>2, <1>3 DEF HolderInv, SoleHolder
<1> QED
  BY <1>4, <1>5 DEF HolderInv, SoleHolder, RerunSettled, HeldNotStale, Holds

LEMMA FinishedHolds ==
  ASSUME HolderInv, TypeOK', NEW r \in runs, Finish(r),
         \A j \in Jobs \ {r.job} : rows'[j] = rows[j] \/ Fresh(j)
  PROVE  HolderInv'
<1>1. \A p \in runs' : p \in runs /\ p.job # r.job /\ p.job \in Jobs
  BY DEF Finish, HolderInv, SoleHolder, TypeOK, Run
<1>2. \A p \in runs' : rows'[p.job] = rows[p.job]
  BY <1>1 DEF Fresh
<1> QED
  BY <1>1, <1>2, UntouchedHolds

LEMMA PlantTouchesFresh ==
  ASSUME TypeOK, NEW k, NEW due, Plant(k, due)
  PROVE  \A j \in Jobs : rows'[j] = rows[j] \/ Fresh(j)
BY DEF TypeOK, Plant

LEMMA RunStepHolds ==
  ASSUME Timely, HolderInv, TypeOK', NEW r \in runs, RunStep(r)
  PROVE  HolderInv'
<1>0. /\ r \in Run /\ r.job \in Jobs /\ Holds(r)
      /\ rows \in [Jobs -> Row]
  BY HolderInvByRun DEF TypeOK, Run
<1>1. CASE HandlerReturns(r)
  <2>1. LET q == [r EXCEPT !.pc = "succeed"] IN Holds(q)'
    BY <1>0, <1>1 DEF HandlerReturns, Holds, Run
  <2> QED
    BY <1>1, <2>1, AdvancedHolds DEF HandlerReturns
<1>2. CASE HandlerThrows(r)
  <2>1. LET q == [r EXCEPT !.pc = "fail"] IN Holds(q)'
    BY <1>0, <1>2 DEF HandlerThrows, Holds, Run
  <2> QED
    BY <1>2, <2>1, AdvancedHolds DEF HandlerThrows
<1>3. CASE Succeed(r)
  <2>1. \A j \in Jobs \ {r.job} : rows'[j] = rows[j]
    BY <1>0, <1>3 DEF Succeed, Settle
  <2>2. CASE Goto(r, "rerun")
    <3>1. LET q == [r EXCEPT !.pc = "rerun"] IN Holds(q)'
      BY <1>0, <1>3 DEF Succeed, Settle, Holds, Run, Row
    <3> QED
      BY <2>1, <2>2, <3>1, AdvancedHolds
  <2>3. CASE Finish(r)
    BY <2>1, <2>3, FinishedHolds
  <2> QED
    BY <1>3, <2>2, <2>3 DEF Succeed
<1>4. CASE Rerun(r)
  BY <1>4, FinishedHolds, PlantTouchesFresh DEF Rerun, HolderInv
<1>5. CASE DeadLetter(r) \/ Retry(r) \/ FailThrows(r)
  <2>1. \A j \in Jobs \ {r.job} : rows'[j] = rows[j]
    BY <1>0, <1>5 DEF DeadLetter, Retry, FailThrows, Settle
  <2> QED
    BY <1>5, <2>1, FinishedHolds DEF DeadLetter, Retry, FailThrows
<1> QED
  BY <1>1, <1>2, <1>3, <1>4, <1>5 DEF RunStep, RecordingThrows, Timely

LEMMA ClaimHolds ==
  ASSUME HolderInv, TypeOK', NEW w \in Workers, Claim(w)
  PROVE  HolderInv'
<1>1. PICK S \in SUBSET Due :
        /\ rows' = [j \in Jobs |-> IF j \in S THEN Claimed(rows[j]) ELSE rows[j]]
        /\ runs' = runs \cup {[worker |-> w, job |-> j, key |-> rows[j].key,
                               attempts |-> Claimed(rows[j]).attempts,
                               pc |-> "claimed"] : j \in S}
  BY DEF Claim
<1>2. \A r \in runs : r.job \in Jobs /\ r.job \notin S
  BY <1>1, HolderInvByRun DEF Holds, Due, TypeOK, Run
<1>3. \A r \in runs : Holds(r)'
  <2>1. \A r \in runs : rows'[r.job] = rows[r.job]
    BY <1>1, <1>2
  <2> QED
    BY <2>1, HolderInvByRun DEF Holds
<1>4. ASSUME NEW r \in runs' \ runs PROVE r.job \in S /\ Holds(r)'
  <2>1. PICK j \in S : r = [worker |-> w, job |-> j, key |-> rows[j].key,
                            attempts |-> Claimed(rows[j]).attempts, pc |-> "claimed"]
    BY <1>1, <1>4
  <2>2. j \in Jobs /\ rows'[j] = Claimed(rows[j])
    BY <1>1, <2>1 DEF Due
  <2>3. Claimed(rows[j]).state = "running" /\ ~Claimed(rows[j]).stale
    BY <2>2 DEF Claimed, HolderInv, TypeOK, Row
  <2> QED
    BY <2>1, <2>2, <2>3 DEF Holds
<1>5. \A r1, r2 \in runs' : r1.job = r2.job => r1 = r2
  <2>1. \A r1, r2 \in runs' \ runs : r1.job = r2.job => r1 = r2
    BY <1>1
  <2> QED
    BY <1>2, <1>4, <2>1 DEF HolderInv, SoleHolder
<1> QED
  BY <1>3, <1>4, <1>5 DEF HolderInv, SoleHolder, RerunSettled, HeldNotStale, Holds

LEMMA DispatchHolds ==
  ASSUME HolderInv, TypeOK', NEW w \in Workers, Dispatch(w)
  PROVE  HolderInv'
<1>1. rows' = rows
  BY DEF Dispatch
<1>2. ASSUME NEW r \in runs'
      PROVE  \E q \in runs : /\ q.job = r.job
                             /\ Holds(r)'
                             /\ \/ q \in Undispatched(w) /\ r = [q EXCEPT !.pc = "handler"]
                                \/ q \notin Undispatched(w) /\ r = q
  <2>1. CASE r \in runs \ Undispatched(w)
    BY <1>1, <2>1, HolderInvByRun DEF Holds
  <2>2. CASE r \notin runs \ Undispatched(w)
    <3>1. PICK q \in Undispatched(w) : r = [q EXCEPT !.pc = "handler"]
      BY <1>2, <2>2 DEF Dispatch
    <3>2. q \in runs /\ q \in Run /\ q.pc = "claimed" /\ Holds(q)
      BY <3>1, HolderInvByRun DEF Undispatched, TypeOK
    <3>3. r.job = q.job /\ r.attempts = q.attempts /\ r.pc = "handler"
      BY <3>1, <3>2 DEF Run
    <3> QED
      BY <1>1, <3>1, <3>2, <3>3 DEF Holds
  <2> QED
    BY <2>1, <2>2
<1>3. ASSUME NEW r1 \in runs', NEW r2 \in runs', r1.job = r2.job PROVE r1 = r2
  <2>1. PICK q1 \in runs :
          /\ q1.job = r1.job
          /\ \/ q1 \in Undispatched(w) /\ r1 = [q1 EXCEPT !.pc = "handler"]
             \/ q1 \notin Undispatched(w) /\ r1 = q1
    BY <1>2
  <2>2. PICK q2 \in runs :
          /\ q2.job = r2.job
          /\ \/ q2 \in Undispatched(w) /\ r2 = [q2 EXCEPT !.pc = "handler"]
             \/ q2 \notin Undispatched(w) /\ r2 = q2
    BY <1>2
  <2>3. q1 = q2
    BY <1>3, <2>1, <2>2 DEF HolderInv, SoleHolder
  <2> QED
    BY <2>1, <2>2, <2>3
<1> QED
  BY <1>2, <1>3 DEF HolderInv, SoleHolder, RerunSettled, HeldNotStale, Holds

LEMMA WorkerStepHolds ==
  ASSUME HolderInv, TypeOK', NEW w \in Workers, WorkerStep(w)
  PROVE  HolderInv'
<1>0. \A r \in runs : r.job \in Jobs /\ Holds(r) /\ Held(r.job) /\ ~Fresh(r.job)
  BY HolderInvByRun DEF TypeOK, Run, Held, Fresh
<1>1. CASE Claim(w)
  BY <1>1, ClaimHolds
<1>2. CASE Dispatch(w)
  BY <1>2, DispatchHolds
<1>3. CASE ReclaimStalled(w)
  <2>1. \A r \in runs : rows'[r.job] = rows[r.job]
    BY <1>0, <1>3 DEF ReclaimStalled, Stalled, Holds
  <2> QED
    BY <1>3, <2>1, UntouchedHolds DEF ReclaimStalled
<1>4. CASE PruneFinishedJobs(w)
  <2>1. \A r \in runs : \/ rows'[r.job] = rows[r.job]
                        \/ rows[r.job].state = "succeeded" /\ rows'[r.job] = NoRow
    BY <1>0, <1>4 DEF PruneFinishedJobs
  <2>2. \A r \in runs : Holds(r)'
    BY <1>0, <2>1 DEF Holds, NoRow
  <2> QED
    BY <1>4, <2>2 DEF PruneFinishedJobs, HolderInv, SoleHolder, RerunSettled,
       HeldNotStale, Holds
<1>5. CASE \E k \in RecurringKeys : Prime(w, k)
  <2>1. \A r \in runs : rows'[r.job] = rows[r.job]
    BY <1>0, <1>5, PlantTouchesFresh DEF Prime, HolderInv
  <2> QED
    BY <1>5, <2>1, UntouchedHolds DEF Prime
<1>6. CASE UNCHANGED rows /\ runs' \subseteq runs
  BY <1>6, UntouchedHolds
<1> QED
  BY <1>1, <1>2, <1>3, <1>4, <1>5, <1>6 DEF WorkerStep, Start, PrimeThrows, Stop,
     StopReturns, StopTimesOut, Crash, Exit

LEMMA HolderStep ==
  ASSUME QueueAssumption, Timely, HolderInv, TypeOK', [Next]_vars
  PROVE  HolderInv'
<1>0. \A r \in runs : r.job \in Jobs /\ Holds(r) /\ Held(r.job) /\ ~Fresh(r.job)
  BY HolderInvByRun DEF TypeOK, Run, Held, Fresh
<1>1. CASE UNCHANGED vars
  BY <1>1, UntouchedHolds DEF vars
<1>2. ASSUME NEW k \in AskedKeys, NEW due \in BOOLEAN, Enqueue(k, due) PROVE HolderInv'
  <2>1. \A r \in runs : rows'[r.job] = rows[r.job]
    BY <1>0, <1>2, PlantTouchesFresh DEF Enqueue, HolderInv
  <2> QED
    BY <1>2, <2>1, UntouchedHolds DEF Enqueue
<1>3. ASSUME NEW k \in Keys, CancelByDedupeKey(k) PROVE HolderInv'
  <2>1. \A r \in runs : rows'[r.job] = rows[r.job]
    BY <1>0, <1>3 DEF CancelByDedupeKey, Holds
  <2> QED
    BY <1>3, <2>1, UntouchedHolds DEF CancelByDedupeKey
<1>4. ASSUME NEW j \in Jobs, BecomesDue(j) PROVE HolderInv'
  <2>1. \A r \in runs : rows'[r.job] = rows[r.job]
    BY <1>0, <1>4 DEF BecomesDue, Holds, HolderInv, TypeOK
  <2> QED
    BY <1>4, <2>1, UntouchedHolds DEF BecomesDue
<1>5. ASSUME NEW j \in Jobs, LockAges(j) PROVE HolderInv'
  <2>1. \A r \in runs : rows'[r.job] = rows[r.job]
    BY <1>0, <1>5 DEF LockAges, Timely, HolderInv, TypeOK
  <2> QED
    BY <1>5, <2>1, UntouchedHolds DEF LockAges
<1> QED
  BY <1>1, <1>2, <1>3, <1>4, <1>5, RunStepHolds, WorkerStepHolds DEF Next

LEMMA HolderAlways ==
  ASSUME QueueAssumption, Timely PROVE Spec => []HolderInv
<1>1. Init /\ TypeOK => HolderInv
  BY DEF Init, HolderInv, SoleHolder, RerunSettled, HeldNotStale
<1>2. HolderInv /\ TypeOK' /\ [Next]_vars => HolderInv'
  BY HolderStep
<1> QED
  BY <1>1, <1>2, TypeCorrect, PTL DEF Spec

(* Crashes, retries and reclaims never put one job in the hands of two     *)
(* runs while handlers end within the reclaim limit.                       *)
THEOREM OneHolder ==
  ASSUME QueueAssumption, Timely PROVE Spec => []SoleHolder
<1>1. HolderInv => SoleHolder
  BY DEF HolderInv
<1> QED
  BY <1>1, HolderAlways, PTL

-----------------------------------------------------------------------------
(* Refinement.                                                             *)

Allowed(j) ==
  rows'[j].state # rows[j].state =>
    <<rows[j].state, rows'[j].state>> \in Contract!Change

LEMMA AllowedIsStep ==
  ASSUME TypeOK, TypeOK', \A j \in Jobs : Allowed(j)
  PROVE  Contract!Next
<1>1. [j \in Jobs |-> rows[j].state]' \in [Jobs -> Contract!State]
  BY DEF TypeOK, Row, RowState, Contract!State
<1> QED
  BY <1>1 DEF Contract!Next, Allowed

LEMMA PlantAllowed ==
  ASSUME TypeOK, NEW k, NEW due, Plant(k, due)
  PROVE  \A j \in Jobs : Allowed(j)
BY DEF TypeOK, Plant, Fresh, Allowed, Contract!Change

LEMMA RunStepAllowed ==
  ASSUME Timely, HolderInv, NEW r \in runs, RunStep(r)
  PROVE  \A j \in Jobs : Allowed(j)
<1>0. /\ r.job \in Jobs /\ rows \in [Jobs -> Row]
      /\ r.pc # "rerun" => rows[r.job].state = "running"
  BY DEF HolderInv, SoleHolder, TypeOK, Run
<1>1. CASE Succeed(r) \/ DeadLetter(r)
  BY <1>0, <1>1, ZenonT(40) DEF Succeed, DeadLetter, Settle, Row, Allowed,
    Contract!Change
<1>2. CASE Rerun(r)
  BY <1>2, PlantAllowed DEF Rerun, HolderInv
<1>3. CASE Retry(r)
  BY <1>0, <1>3 DEF Retry, Row, Allowed, Contract!Change
<1>4. CASE UNCHANGED rows
  BY <1>4 DEF Allowed
<1> QED
  BY <1>1, <1>2, <1>3, <1>4 DEF RunStep, HandlerReturns, HandlerThrows,
     RecordingThrows, FailThrows

LEMMA WorkerStepAllowed ==
  ASSUME HolderInv, NEW w \in Workers, WorkerStep(w)
  PROVE  \A j \in Jobs : Allowed(j)
<1>0. rows \in [Jobs -> Row]
  BY DEF HolderInv, TypeOK
<1>1. CASE Claim(w)
  <2>1. PICK S \in SUBSET Due :
          rows' = [j \in Jobs |-> IF j \in S THEN Claimed(rows[j]) ELSE rows[j]]
    BY <1>1 DEF Claim
  <2>2. \A j \in Jobs : Claimed(rows[j]).state = "running"
    BY <1>0 DEF Claimed, Row
  <2> QED
    BY <2>1, <2>2 DEF Due, Allowed, Contract!Change
<1>2. CASE ReclaimStalled(w)
  <2>1. \A j \in Jobs : \/ rows'[j] = rows[j]
                        \/ rows[j].state = "running" /\ rows'[j].state = "pending"
    BY <1>0, <1>2 DEF ReclaimStalled, Stalled, Row
  <2> QED
    BY <2>1 DEF Allowed, Contract!Change
<1>3. CASE PruneFinishedJobs(w)
  BY <1>0, <1>3 DEF PruneFinishedJobs, NoRow, Allowed, Contract!Change
<1>4. CASE \E k \in RecurringKeys : Prime(w, k)
  BY <1>4, PlantAllowed DEF Prime, HolderInv
<1>5. CASE UNCHANGED rows
  BY <1>5 DEF Allowed
<1> QED
  BY <1>1, <1>2, <1>3, <1>4, <1>5 DEF WorkerStep, Dispatch, Start, PrimeThrows,
     Stop, StopReturns, StopTimesOut, Crash, Exit

(* The queue keeps the contract its clients are written against: a row is  *)
(* claimed before it ends, comes back only from running, and disappears    *)
(* only after it succeeded.                                                *)
THEOREM QueueImplementsContract ==
  ASSUME QueueAssumption, Timely PROVE Spec => ImplementsContract
<1>1. Init => Contract!Init
  BY DEF Init, Contract!Init, NoRow
<1>2. HolderInv /\ HolderInv' /\ [Next]_vars
        => [Contract!Next]_([j \in Jobs |-> rows[j].state])
  <2> SUFFICES ASSUME HolderInv, HolderInv', [Next]_vars
               PROVE  [Contract!Next]_([j \in Jobs |-> rows[j].state])
    OBVIOUS
  <2>0. TypeOK /\ TypeOK' /\ rows \in [Jobs -> Row]
    BY DEF HolderInv, TypeOK
  <2>1. CASE UNCHANGED vars
    BY <2>1 DEF vars
  <2>2. ASSUME NEW k \in AskedKeys, NEW due \in BOOLEAN, Enqueue(k, due)
        PROVE  \A j \in Jobs : Allowed(j)
    BY <2>0, <2>2, PlantAllowed DEF Enqueue
  <2>3. ASSUME NEW k \in Keys, CancelByDedupeKey(k) PROVE \A j \in Jobs : Allowed(j)
    BY <2>0, <2>3 DEF CancelByDedupeKey, Row, Allowed, Contract!Change
  <2>4. ASSUME NEW i \in Jobs, BecomesDue(i) PROVE \A j \in Jobs : Allowed(j)
    BY <2>0, <2>4 DEF BecomesDue, Row, Allowed
  <2>5. ASSUME NEW i \in Jobs, LockAges(i) PROVE \A j \in Jobs : Allowed(j)
    BY <2>0, <2>5 DEF LockAges, Row, Allowed
  <2>6. CASE Next
    BY <2>0, <2>2, <2>3, <2>4, <2>5, <2>6, RunStepAllowed, WorkerStepAllowed,
       AllowedIsStep DEF Next
  <2> QED
    BY <2>1, <2>6
<1> QED
  BY <1>1, <1>2, HolderAlways, PTL DEF Spec, ImplementsContract, Contract!Spec
-----------------------------------------------------------------------------
(* Recurring work.                                                         *)

(* A row under the key is on its way or has visibly given up.              *)
Owes(j, k) == rows[j].state \in {"pending", "running", "dead"} /\ rows[j].key = k

(* There is such a row, or a run in memory that will plant one.            *)
Accounted(k) == (\E j \in Jobs : Owes(j, k)) \/ (\E r \in runs : r.key = k)

LEMMA AccountedSays ==
  ASSUME NEW k
  PROVE  Accounted(k) <=> \/ Holders(k) # {}
                          \/ \E r \in runs : r.key = k
                          \/ \E j \in Jobs : rows[j].state = "dead" /\ rows[j].key = k
BY DEF Accounted, Owes, Holders, Live

ChainInv ==
  exits = 0 \/ OneWorker =>
    \A w \in Workers, k \in RecurringKeys :
      phase[w] = "up" /\ k \notin toPrime[w] => Accounted(k)

(* A worker that is going has an exit to its name.                         *)
ExitsCount ==
  /\ exits \in Nat
  /\ \A w \in Workers : phase[w] = "stopping" => exits > 0

LEMMA RowsStillOwe ==
  ASSUME NEW k, Accounted(k),
         \A j \in Jobs : Owes(j, k) => Owes(j, k)',
         \A r \in runs : \E q \in runs' : q.key = r.key
  PROVE  Accounted(k)'
BY DEF Accounted

LEMMA PlantOwes ==
  ASSUME TypeOK, NEW c \in Keys \cup {NoKey}, NEW due \in BOOLEAN, Plant(c, due), NEW k
  PROVE  \A j \in Jobs : Owes(j, k) => Owes(j, k)'
BY DEF Plant, Fresh, Owes, TypeOK

(* What was to be planted is there: planted, or owned by another row.      *)
LEMMA PlantAccounts ==
  ASSUME TypeOK, NEW k \in Keys, NoKey \notin Keys, NEW due \in BOOLEAN, Plant(k, due)
  PROVE  Accounted(k)'
<1>1. CASE ~Free(k) /\ UNCHANGED rows
  BY <1>1 DEF Free, Holders, Live, Accounted, Owes
<1>2. CASE Free(k) /\ \E j \in Jobs :
             rows' = [rows EXCEPT ![j] = [state |-> "pending", key |-> k,
                        attempts |-> 0, due |-> due, stale |-> FALSE]]
  BY <1>2 DEF Accounted, Owes, TypeOK
<1> QED
  BY <1>1, <1>2 DEF Plant

LEMMA GotoKeepsKeys ==
  ASSUME TypeOK, NEW r \in runs, NEW pc, Goto(r, pc)
  PROVE  \A p \in runs : \E q \in runs' : q.key = p.key
<1>1. [r EXCEPT !.pc = pc].key = r.key
  BY DEF TypeOK, Run
<1> QED
  BY <1>1 DEF Goto

LEMMA SettleOwes ==
  ASSUME TypeOK, NEW i \in Jobs, NEW state, Settle(i, state), NEW k,
         rows[i].key # k \/ state = "dead"
  PROVE  \A j \in Jobs : Owes(j, k) => Owes(j, k)'
BY DEF Settle, Owes, TypeOK, Row

(* A run that ends leaves its key with a row, whether it succeeded, will   *)
(* be tried again, is dead, or could not say so.                           *)
LEMMA RunStepAccounts ==
  ASSUME QueueAssumption, Timely, HolderInv, RunKeys, NEW k \in RecurringKeys, Accounted(k),
         NEW r \in runs, RunStep(r)
  PROVE  Accounted(k)'
<1>0. /\ TypeOK /\ r \in Run /\ r.job \in Jobs /\ r.key \in Keys \cup {NoKey}
      /\ k \in Keys /\ NoKey \notin Keys /\ k # NoKey
  BY DEF HolderInv, TypeOK, Run, QueueAssumption
<1>1. Holds(r) /\ (rows[r.job].state # "absent" => rows[r.job].key = r.key)
  BY HolderInvByRun DEF RunKeys
<1>2. ASSUME NEW pc, Goto(r, pc), \A j \in Jobs : Owes(j, k) => Owes(j, k)' PROVE Accounted(k)'
  BY <1>0, <1>2, GotoKeepsKeys, RowsStillOwe
<1>3. ASSUME r.key # k, Finish(r), \A j \in Jobs : Owes(j, k) => Owes(j, k)' PROVE Accounted(k)'
  BY <1>3 DEF Finish, Accounted
<1>4. CASE HandlerReturns(r) \/ HandlerThrows(r) \/ RecordingThrows(r)
  BY <1>2, <1>4 DEF HandlerReturns, HandlerThrows, RecordingThrows, Owes
<1>5. CASE Succeed(r)
  <2>1. CASE r.key \in RecurringKeys
    <3>1. runs' = (runs \ {r}) \cup {[r EXCEPT !.pc = "rerun"]}
      BY <1>5, <2>1 DEF Succeed, Goto
    <3>2. CASE r.key = k
      <4>1. [r EXCEPT !.pc = "rerun"].key = k
        BY <1>0, <3>2 DEF Run
      <4> QED
        BY <3>1, <4>1 DEF Accounted
    <3>3. CASE r.key # k
      <4>1. \A j \in Jobs : Owes(j, k) => Owes(j, k)'
        BY <1>0, <1>1, <1>5, <3>3, SettleOwes DEF Succeed, Holds
      <4> QED
        BY <1>2, <1>5, <2>1, <4>1 DEF Succeed
    <3> QED
      BY <3>2, <3>3
  <2>2. CASE r.key \notin RecurringKeys
    <3>1. \A j \in Jobs : Owes(j, k) => Owes(j, k)'
      BY <1>0, <1>1, <1>5, <2>2, SettleOwes DEF Succeed, Holds
    <3> QED
      BY <1>3, <1>5, <2>2, <3>1 DEF Succeed
  <2> QED
    BY <2>1, <2>2
<1>6. CASE Rerun(r)
  <2>1. CASE r.key = k
    BY <1>0, <1>6, <2>1, PlantAccounts DEF Rerun
  <2>2. CASE r.key # k
    BY <1>0, <1>3, <1>6, <2>2, PlantOwes DEF Rerun
  <2> QED
    BY <2>1, <2>2
<1>7. CASE DeadLetter(r)
  <2>1. rows[r.job].state = "running" /\ rows[r.job].key = r.key
    BY <1>1, <1>7 DEF DeadLetter, Holds
  <2>2. CASE r.key = k
    <3>1. rows'[r.job].state = "dead" /\ rows'[r.job].key = k
      BY <1>0, <1>7, <2>1, <2>2 DEF DeadLetter, Settle, TypeOK, Row
    <3> QED
      BY <1>0, <3>1 DEF Accounted, Owes
  <2>3. CASE r.key # k
    BY <1>0, <1>3, <1>7, <2>3, SettleOwes DEF DeadLetter
  <2> QED
    BY <2>2, <2>3
<1>8. CASE Retry(r)
  <2>1. rows[r.job].state = "running" /\ rows[r.job].key = r.key
    BY <1>1, <1>8 DEF Retry, Holds
  <2>2. /\ rows'[r.job].state = "pending" /\ rows'[r.job].key = r.key
        /\ \A j \in Jobs \ {r.job} : rows'[j] = rows[j]
    BY <1>0, <1>8, <2>1 DEF Retry, TypeOK, Row
  <2>3. CASE r.key = k
    BY <1>0, <2>2, <2>3 DEF Accounted, Owes
  <2>4. CASE r.key # k
    BY <1>3, <1>8, <2>1, <2>2, <2>4 DEF Retry, Owes
  <2> QED
    BY <2>3, <2>4
<1>9. CASE FailThrows(r)
  <2>1. UNCHANGED rows /\ Finish(r) /\ \A j \in Jobs : Owes(j, k) => Owes(j, k)'
    BY <1>9 DEF FailThrows, Owes
  <2>2. CASE r.key = k
    <3>1. PICK j \in Holders(k) : TRUE
      BY <1>9, <2>2 DEF FailThrows, Timely
    <3> QED
      BY <2>1, <3>1 DEF Holders, Live, Accounted, Owes
  <2> QED
    BY <1>3, <2>1, <2>2
<1> QED
  BY <1>4, <1>5, <1>6, <1>7, <1>8, <1>9 DEF RunStep

(* Nothing but the end of a process takes a run away without a row.        *)
LEMMA StepAccounts ==
  ASSUME QueueAssumption, Timely, HolderInv, RunKeys, NEW k \in RecurringKeys, Accounted(k),
         Next, \A w \in Workers : ~StopReturns(w) /\ ~StopTimesOut(w) /\ ~Crash(w)
  PROVE  Accounted(k)'
<1>0. TypeOK /\ k \in Keys /\ NoKey \notin Keys
  BY DEF HolderInv, QueueAssumption
<1>1. ASSUME UNCHANGED runs, \A j \in Jobs : Owes(j, k) => Owes(j, k)' PROVE Accounted(k)'
  BY <1>1 DEF Accounted
<1>2. ASSUME NEW c \in AskedKeys, NEW due \in BOOLEAN, Enqueue(c, due) PROVE Accounted(k)'
  BY <1>0, <1>1, <1>2, PlantOwes DEF Enqueue, QueueAssumption
<1>3. ASSUME NEW c \in Keys \ RecurringKeys, CancelByDedupeKey(c) PROVE Accounted(k)'
  BY <1>0, <1>1, <1>3 DEF CancelByDedupeKey, Owes
<1>4. ASSUME NEW i \in Jobs, BecomesDue(i) \/ LockAges(i) PROVE Accounted(k)'
  <2>1. \A j \in Jobs : rows'[j].state = rows[j].state /\ rows'[j].key = rows[j].key
    BY <1>0, <1>4 DEF BecomesDue, LockAges, TypeOK, Row
  <2> QED
    BY <1>1, <1>4, <2>1 DEF BecomesDue, LockAges, Owes
<1>5. ASSUME NEW w \in Workers, WorkerStep(w) PROVE Accounted(k)'
  <2>1. CASE Claim(w)
    <3>1. PICK S \in SUBSET Due :
            /\ rows' = [j \in Jobs |-> IF j \in S THEN Claimed(rows[j]) ELSE rows[j]]
            /\ runs \subseteq runs'
      BY <2>1 DEF Claim
    <3>2. \A j \in Jobs : Claimed(rows[j]).state = "running" /\ Claimed(rows[j]).key = rows[j].key
      BY <1>0 DEF Claimed, TypeOK, Row
    <3>3. \A j \in Jobs : Owes(j, k) => Owes(j, k)'
      BY <3>1, <3>2 DEF Owes
    <3> QED
      BY <3>1, <3>3 DEF Accounted
  <2>2. CASE Dispatch(w)
    <3>1. \A r \in runs : [r EXCEPT !.pc = "handler"].key = r.key
      BY <1>0 DEF TypeOK, Run
    <3>2. \A r \in runs : \E q \in runs' : q.key = r.key
      BY <2>2, <3>1 DEF Dispatch, Undispatched
    <3> QED
      BY <2>2, <3>2, RowsStillOwe DEF Dispatch, Owes
  <2>3. CASE ReclaimStalled(w)
    <3>1. \A j \in Jobs : /\ rows'[j].key = rows[j].key
                          /\ rows'[j].state = rows[j].state \/ rows'[j].state = "pending"
      <4> SUFFICES ASSUME NEW j \in Jobs
                   PROVE  /\ rows'[j].key = rows[j].key
                          /\ rows'[j].state = rows[j].state \/ rows'[j].state = "pending"
        OBVIOUS
      <4>1. rows'[j] = rows[j] \/ rows'[j] = [rows[j] EXCEPT !.state = "pending", !.stale = FALSE]
        BY <2>3 DEF ReclaimStalled
      <4>2. rows[j] \in Row
        BY <1>0 DEF TypeOK
      <4> QED
        BY <4>1, <4>2 DEF Row
    <3> QED
      BY <1>1, <2>3, <3>1 DEF ReclaimStalled, Owes
  <2>4. CASE PruneFinishedJobs(w)
    <3>1. \A j \in Jobs : rows'[j] = rows[j] \/ rows[j].state = "succeeded"
      BY <2>4 DEF PruneFinishedJobs
    <3> QED
      BY <1>1, <2>4, <3>1 DEF PruneFinishedJobs, Owes
  <2>5. ASSUME NEW c \in RecurringKeys, Prime(w, c) PROVE Accounted(k)'
    BY <1>0, <1>1, <2>5, PlantOwes DEF Prime, QueueAssumption
  <2>6. CASE UNCHANGED <<rows, runs>>
    BY <2>6 DEF Accounted, Owes
  <2> QED
    BY <1>5, <2>1, <2>2, <2>3, <2>4, <2>5, <2>6 DEF WorkerStep, Start, PrimeThrows, Stop
<1> QED
  BY <1>2, <1>3, <1>4, <1>5, RunStepAccounts DEF Next

LEMMA ExitsStep ==
  ASSUME TypeOK, ExitsCount, [Next]_vars
  PROVE  ExitsCount' /\ exits' >= exits
<1>1. CASE UNCHANGED <<phase, exits>>
  BY <1>1 DEF ExitsCount
<1>2. ASSUME NEW v \in Workers, WorkerStep(v) PROVE ExitsCount' /\ exits' >= exits
  <2>1. CASE \/ Start(v) \/ PrimeThrows(v)
             \/ Stop(v) \/ StopReturns(v) \/ StopTimesOut(v) \/ Crash(v)
    BY <2>1 DEF Start, PrimeThrows, Stop, StopReturns, StopTimesOut, Crash, Exit,
      ExitsCount, TypeOK
  <2>2. CASE UNCHANGED <<phase, exits>>
    BY <1>1, <2>2
  <2> QED
    BY <1>2, <2>1, <2>2 DEF WorkerStep, Claim, Dispatch, ReclaimStalled,
      PruneFinishedJobs,
       Prime
<1> QED
  BY <1>1, <1>2 DEF Next, vars, Enqueue, CancelByDedupeKey, BecomesDue, LockAges,
    RunStep,
     HandlerReturns, HandlerThrows, Succeed, Rerun, RecordingThrows, DeadLetter, Retry, FailThrows

LEMMA ChainStep ==
  ASSUME QueueAssumption, Timely, HolderInv, RunKeys, ExitsCount, ChainInv,
         [Next]_vars
  PROVE  ChainInv'
<1> SUFFICES ASSUME NEW w \in Workers, NEW k \in RecurringKeys, phase'[w] = "up",
                    k \notin toPrime'[w], exits' = 0 \/ OneWorker
             PROVE  Accounted(k)'
  BY DEF ChainInv
<1>0. TypeOK /\ k \in Keys /\ NoKey \notin Keys
  BY DEF HolderInv, QueueAssumption
<1>1. ASSUME NEW v \in Workers, StopReturns(v) \/ StopTimesOut(v) \/ Crash(v) PROVE FALSE
  <2>1. CASE OneWorker
    BY <1>0, <1>1, <2>1 DEF OneWorker, StopReturns, StopTimesOut, Crash, Exit, TypeOK
  <2>2. CASE exits' = 0
    BY <1>1, <2>2 DEF ExitsCount, StopReturns, StopTimesOut, Crash
  <2> QED
    BY <2>1, <2>2
<1>5. exits = 0 \/ OneWorker
  BY <1>0, ExitsStep DEF ExitsCount
<1>2. ASSUME NEW v \in Workers, Prime(v, k) PROVE Accounted(k)'
  BY <1>0, <1>2, PlantAccounts DEF Prime
<1>3. CASE phase[w] = "up" /\ k \notin toPrime[w]
  <2>1. Accounted(k)
    BY <1>3, <1>5 DEF ChainInv
  <2>2. CASE UNCHANGED vars
    BY <2>1, <2>2 DEF vars, Accounted, Owes
  <2> QED
    BY <1>1, <2>1, <2>2, StepAccounts
<1>4. CASE ~(phase[w] = "up" /\ k \notin toPrime[w]) /\ \A v \in Workers : ~Prime(v, k)
  <2>1. UNCHANGED <<phase, toPrime>> => FALSE
    BY <1>4
  <2>2. ASSUME NEW v \in Workers, WorkerStep(v) PROVE FALSE
    <3>2. CASE Start(v)
      <4>1. /\ phase[v] # "up" /\ phase' = [phase EXCEPT ![v] = "up"]
            /\ toPrime' = [toPrime EXCEPT ![v] = RecurringKeys]
        BY <3>2 DEF Start
      <4> QED
        BY <1>0, <1>4, <4>1 DEF TypeOK
    <3>3. ASSUME NEW c \in RecurringKeys, Prime(v, c) PROVE FALSE
      <4>1. c # k /\ phase' = phase /\ toPrime' = [toPrime EXCEPT ![v] = @ \ {c}]
        BY <1>4, <3>3 DEF Prime
      <4>2. toPrime'[w] = toPrime[w] \ {c} \/ toPrime'[w] = toPrime[w]
        BY <1>0, <4>1 DEF TypeOK
      <4> QED
        BY <1>4, <4>1, <4>2
    <3>4. CASE PrimeThrows(v)
      <4>1. /\ phase' = [phase EXCEPT ![v] = IF @ = "up" THEN "unprimed" ELSE @]
            /\ toPrime' = [toPrime EXCEPT ![v] = {}]
        BY <3>4 DEF PrimeThrows
      <4> QED
        BY <1>0, <1>4, <4>1 DEF TypeOK
    <3>5. CASE Stop(v)
      <4>1. phase' = [phase EXCEPT ![v] = "stopping"] /\ toPrime' = toPrime
        BY <3>5 DEF Stop
      <4> QED
        BY <1>0, <1>4, <4>1 DEF TypeOK
    <3> QED
      BY <1>1, <2>1, <2>2, <3>2, <3>3, <3>4, <3>5 DEF WorkerStep, Claim, Dispatch,
         ReclaimStalled, PruneFinishedJobs
  <2> QED
    BY <2>1, <2>2 DEF Next, vars, Enqueue, CancelByDedupeKey, BecomesDue, LockAges,
      RunStep,
       HandlerReturns, HandlerThrows, Succeed, Rerun, RecordingThrows, DeadLetter, Retry, FailThrows
<1> QED
  BY <1>2, <1>3, <1>4

-----------------------------------------------------------------------------
(* Capacity.                                                               *)

RunsOf(w) == {r \in runs : r.worker = w}

(* What a worker holds, dispatched or not, is what it has room for.        *)
RoomInv == IsFiniteSet(runs) /\ \A w \in Workers : Cardinality(RunsOf(w)) <= Concurrency

LEMMA FewerRuns ==
  ASSUME IsFiniteSet(runs), runs' \subseteq runs, NEW w
  PROVE  /\ Cardinality(RunsOf(w)') <= Cardinality(RunsOf(w))
         /\ Cardinality(RunsOf(w)) \in Nat /\ Cardinality(RunsOf(w)') \in Nat
<1>1. IsFiniteSet(RunsOf(w)) /\ RunsOf(w)' \subseteq RunsOf(w)
  BY FS_Subset DEF RunsOf
<1>2. Cardinality(RunsOf(w)') <= Cardinality(RunsOf(w)) /\ IsFiniteSet(RunsOf(w)')
  BY <1>1, FS_Subset
<1> QED
  BY <1>1, <1>2, FS_CardinalityType

(* What a function makes of a set is no larger than the set.               *)
LEMMA ImageIsNoLarger ==
  ASSUME NEW S, IsFiniteSet(S), NEW f, DOMAIN f = S, f = [x \in S |-> f[x]],
         NEW U, \A u \in U : \E x \in S : u = f[x]
  PROVE  /\ IsFiniteSet(U) /\ Cardinality(U) <= Cardinality(S)
         /\ Cardinality(U) \in Nat /\ Cardinality(S) \in Nat
<1> DEFINE T == {f[x] : x \in S}
<1>1. f \in Surjection(S, T)
  BY DEF Surjection
<1>2. U \subseteq T
  OBVIOUS
<1> HIDE DEF T
<1>3. IsFiniteSet(T) /\ Cardinality(T) <= Cardinality(S)
  BY <1>1, FS_Surjection
<1>4. IsFiniteSet(U) /\ Cardinality(U) <= Cardinality(T)
  BY <1>2, <1>3, FS_Subset
<1>5. Cardinality(U) \in Nat /\ Cardinality(T) \in Nat /\ Cardinality(S) \in Nat
  BY <1>3, <1>4, FS_CardinalityType
<1> QED
  BY <1>3, <1>4, <1>5

(* Runs that move on are as many as they were.                             *)
LEMMA MovedRuns ==
  ASSUME TypeOK, RoomInv, QueueAssumption, NEW S, NEW pc,
         \A q \in runs' : q \in runs \ S \/ \E r \in runs \cap S : q = [r EXCEPT !.pc = pc]
  PROVE  RoomInv'
<1> DEFINE moved == [r \in runs |-> IF r \in S THEN [r EXCEPT !.pc = pc] ELSE r]
<1>1. \A r \in runs : moved[r].worker = r.worker
  BY DEF TypeOK, Run
<1>2. DOMAIN moved = runs /\ moved = [r \in runs |-> moved[r]]
  OBVIOUS
<1>3. \A q \in runs' : \E r \in runs : q = moved[r]
  OBVIOUS
<1> HIDE DEF moved
<1>4. IsFiniteSet(runs) /\ \A w \in Workers : Cardinality(RunsOf(w)) <= Concurrency
  BY DEF RoomInv
<1>5. IsFiniteSet(runs')
  BY <1>2, <1>3, <1>4, ImageIsNoLarger
<1>6. ASSUME NEW w \in Workers PROVE Cardinality(RunsOf(w)') <= Concurrency
  <2> DEFINE mine == [r \in RunsOf(w) |-> moved[r]]
  <2>1. DOMAIN mine = RunsOf(w) /\ mine = [r \in RunsOf(w) |-> mine[r]]
    OBVIOUS
  <2>2. \A q \in RunsOf(w)' : \E r \in RunsOf(w) : q = mine[r]
    BY <1>1, <1>3 DEF RunsOf
  <2>3. IsFiniteSet(RunsOf(w)) /\ Cardinality(RunsOf(w)) <= Concurrency
    BY <1>4, FS_Subset DEF RunsOf
  <2> HIDE DEF mine
  <2>4. /\ Cardinality(RunsOf(w)') <= Cardinality(RunsOf(w))
        /\ Cardinality(RunsOf(w)') \in Nat /\ Cardinality(RunsOf(w)) \in Nat
    BY <2>1, <2>2, <2>3, ImageIsNoLarger
  <2> QED
    BY <2>3, <2>4 DEF QueueAssumption
<1> QED
  BY <1>5, <1>6 DEF RoomInv

(* Nothing is in flight unanswered when a worker claims, and it claims no  *)
(* more than it has room for.                                              *)
LEMMA ClaimFits ==
  ASSUME IsFiniteSet(Jobs), QueueAssumption, TypeOK, RoomInv, NEW w \in Workers, Claim(w)
  PROVE  RoomInv'
<1>1. PICK S \in SUBSET Due :
        /\ Cardinality(S) <= Limit(w)
        /\ runs' = runs \cup {[worker |-> w, job |-> j, key |-> rows[j].key,
                               attempts |-> Claimed(rows[j]).attempts,
                               pc |-> "claimed"] : j \in S}
  BY DEF Claim
<1> DEFINE claim == [j \in S |-> [worker |-> w, job |-> j, key |-> rows[j].key,
                                 attempts |-> Claimed(rows[j]).attempts, pc |-> "claimed"]]
           New == {claim[j] : j \in S}
<1>2. /\ runs' = runs \cup New /\ \A r \in New : r.worker = w
      /\ DOMAIN claim = S /\ claim = [j \in S |-> claim[j]]
      /\ \A r \in New : \E j \in S : r = claim[j]
  BY <1>1
<1> HIDE DEF claim
<1>3. IsFiniteSet(S)
  BY FS_Subset DEF Due
<1>4. /\ IsFiniteSet(New) /\ Cardinality(New) <= Cardinality(S)
      /\ Cardinality(New) \in Nat /\ Cardinality(S) \in Nat
  BY <1>2, <1>3, ImageIsNoLarger
<1> HIDE DEF New
<1>5. IsFiniteSet(runs')
  BY <1>2, <1>4, FS_Union DEF RoomInv
<1>6. RunsOf(w) = Dispatched(w)
  BY DEF RunsOf, Dispatched, Undispatched, Claim
<1>7. ASSUME NEW v \in Workers PROVE Cardinality(RunsOf(v)') <= Concurrency
  <2>1. CASE v # w
    <3>1. RunsOf(v)' = RunsOf(v)
      BY <1>2, <2>1 DEF RunsOf
    <3> QED
      BY <3>1 DEF RoomInv
  <2>2. CASE v = w
    <3>1. RunsOf(v)' = RunsOf(w) \cup New
      BY <1>2, <2>2 DEF RunsOf
    <3>2. IsFiniteSet(RunsOf(w)) /\ Cardinality(RunsOf(w)) \in Nat
      BY FS_Subset, FS_CardinalityType DEF RunsOf, RoomInv
    <3>3. Cardinality(RunsOf(w) \cup New)
            = Cardinality(RunsOf(w)) + Cardinality(New) - Cardinality(RunsOf(w) \cap New)
      BY <1>4, <3>2, FS_Union
    <3>4. Cardinality(RunsOf(w) \cap New) \in Nat
      BY <1>4, <3>2, FS_Intersection, FS_CardinalityType
    <3>5. Limit(w) <= Concurrency - Cardinality(RunsOf(w)) /\ Limit(w) \in Int
      BY <1>6, <3>2 DEF Limit, QueueAssumption
    <3>6. Cardinality(RunsOf(w)) + Cardinality(New) <= Concurrency
      BY <1>1, <1>4, <3>2, <3>5 DEF QueueAssumption
    <3> QED
      BY <1>4, <3>1, <3>2, <3>3, <3>4, <3>6 DEF QueueAssumption
  <2> QED
    BY <2>1, <2>2
<1> QED
  BY <1>5, <1>7 DEF RoomInv

LEMMA RoomStep ==
  ASSUME IsFiniteSet(Jobs), QueueAssumption, TypeOK, RoomInv, [Next]_vars
  PROVE  RoomInv'
<1>1. ASSUME runs' \subseteq runs PROVE RoomInv'
  <2>1. \A w \in Workers : Cardinality(RunsOf(w)') <= Concurrency
    <3> TAKE w \in Workers
    <3>1. /\ Cardinality(RunsOf(w)') <= Cardinality(RunsOf(w))
          /\ Cardinality(RunsOf(w)) \in Nat /\ Cardinality(RunsOf(w)') \in Nat
      BY <1>1, FewerRuns DEF RoomInv
    <3> QED
      BY <3>1 DEF RoomInv, QueueAssumption
  <2> QED
    BY <1>1, <2>1, FS_Subset DEF RoomInv
<1>2. ASSUME NEW r \in runs, NEW pc, Goto(r, pc) PROVE RoomInv'
  <2>1. \A q \in runs' :
          q \in runs \ {r} \/ \E p \in runs \cap {r} : q = [p EXCEPT !.pc = pc]
    BY <1>2 DEF Goto
  <2> QED
    BY <2>1, MovedRuns
<1>3. ASSUME NEW r \in runs, RunStep(r) PROVE RoomInv'
  BY <1>1, <1>2, <1>3 DEF RunStep, HandlerReturns, HandlerThrows, Succeed, Rerun,
     RecordingThrows, DeadLetter, Retry, FailThrows, Finish
<1>4. ASSUME NEW w \in Workers, Dispatch(w) PROVE RoomInv'
  <2>1. \A q \in runs' :
          \/ q \in runs \ Undispatched(w)
          \/ \E p \in runs \cap Undispatched(w) : q = [p EXCEPT !.pc = "handler"]
    BY <1>4 DEF Dispatch, Undispatched
  <2> QED
    BY <2>1, MovedRuns
<1>5. ASSUME NEW w \in Workers, WorkerStep(w) PROVE RoomInv'
  BY <1>1, <1>4, <1>5, ClaimFits DEF WorkerStep, ReclaimStalled, PruneFinishedJobs,
    Start, Prime, PrimeThrows, Stop, StopReturns, StopTimesOut, Crash, Exit
<1> QED
  BY <1>1, <1>3, <1>5 DEF Next, vars, Enqueue, CancelByDedupeKey, BecomesDue, LockAges

(* A worker never runs more than its concurrency, although it claims while *)
(* what it claimed before is still finishing.                              *)
THEOREM CapacityIsKept ==
  ASSUME QueueAssumption, IsFiniteSet(Jobs) PROVE Spec => []ConcurrencyBound
<1>1. Init => RoomInv
  <2>1. ASSUME Init, NEW w \in Workers PROVE Cardinality(RunsOf(w)) <= Concurrency
    <3>1. RunsOf(w) = {}
      BY <2>1 DEF Init, RunsOf
    <3> QED
      BY <3>1, FS_EmptySet DEF QueueAssumption
  <2> QED
    BY <2>1, FS_EmptySet DEF Init, RoomInv
<1>2. TypeOK /\ RoomInv /\ [Next]_vars => RoomInv'
  BY RoomStep
<1>3. TypeOK /\ RoomInv => ConcurrencyBound
  <2> SUFFICES ASSUME RoomInv, NEW w \in Workers
               PROVE  Cardinality(Dispatched(w)) <= Concurrency
    BY DEF ConcurrencyBound
  <2>1. IsFiniteSet(RunsOf(w)) /\ Dispatched(w) \subseteq RunsOf(w)
    BY FS_Subset DEF RoomInv, RunsOf, Dispatched
  <2>2. /\ Cardinality(Dispatched(w)) <= Cardinality(RunsOf(w))
        /\ Cardinality(Dispatched(w)) \in Nat /\ Cardinality(RunsOf(w)) \in Nat
    BY <2>1, FS_Subset, FS_CardinalityType
  <2> QED
    BY <2>2 DEF RoomInv, QueueAssumption
<1> QED
  BY <1>1, <1>2, <1>3, TypeCorrect, PTL DEF Spec

(* Recurring work never falls out of the table: primed without an error    *)
(* its next run is planted, in progress or about to be planted, or a dead  *)
(* row says why it is not, until a worker exits, and with one worker after *)
(* that too.                                                               *)
THEOREM RecurringWorkGoesOn ==
  ASSUME QueueAssumption, Timely
  PROVE  Spec => []ChainAccounted
<1>1. Init => ChainInv /\ ExitsCount
  BY DEF Init, ChainInv, ExitsCount
<1>2. /\ HolderInv /\ LeaseInv /\ ChainInv /\ ExitsCount /\ [Next]_vars => ChainInv'
      /\ HolderInv /\ ExitsCount /\ [Next]_vars => ExitsCount'
  BY ChainStep, ExitsStep DEF LeaseInv, HolderInv
<1>3. ChainInv => ChainAccounted
  BY AccountedSays DEF ChainInv, ChainAccounted
<1> QED
  BY <1>1, <1>2, <1>3, HolderAlways, LeaseAlways, PTL DEF Spec

-----------------------------------------------------------------------------
(* Visible failure.                                                        *)

(* What DeadReopenedOnlyByOverrun asks of one row.                         *)
StaysDead(j) ==
  rows[j].state = "dead" /\ rows'[j].state # "dead" =>
    /\ rows'[j].state \in {"pending", "succeeded"}
    /\ \E r \in runs : r.job = j /\ r \notin runs'

LEMMA RunStepReopens ==
  ASSUME TypeOK, NEW r \in runs, RunStep(r), NEW j \in Jobs
  PROVE  StaysDead(j)
<1>0. TypeOK /\ r \in Run /\ r.job \in Jobs /\ r.key \in Keys \cup {NoKey}
  BY DEF TypeOK, Run
<1>1. CASE HandlerReturns(r) \/ HandlerThrows(r) \/ RecordingThrows(r) \/ FailThrows(r)
  BY <1>1 DEF HandlerReturns, HandlerThrows, RecordingThrows, FailThrows, StaysDead
<1>2. CASE Rerun(r)
  BY <1>0, <1>2 DEF Rerun, Plant, Fresh, StaysDead, TypeOK
<1>3. CASE DeadLetter(r)
  BY <1>0, <1>3 DEF DeadLetter, Settle, StaysDead, TypeOK, Row
<1>4. CASE Succeed(r)
  <2>1. [r EXCEPT !.pc = "rerun"] # r /\ r.pc = "succeed"
    BY <1>0, <1>4 DEF Succeed, Run
  <2>2. r \notin runs'
    BY <1>4, <2>1 DEF Succeed, Goto, Finish
  <2>3. j # r.job => rows'[j] = rows[j]
    BY <1>0, <1>4 DEF Succeed, Settle, TypeOK
  <2>4. rows[r.job].state # "absent" => rows'[r.job].state = "succeeded"
    BY <1>0, <1>4 DEF Succeed, Settle, TypeOK, Row
  <2> QED
    BY <2>2, <2>3, <2>4 DEF StaysDead
<1>5. CASE Retry(r)
  <2>1. r \notin runs'
    BY <1>5 DEF Retry, Finish
  <2>2. j # r.job => rows'[j] = rows[j]
    BY <1>0, <1>5 DEF Retry, TypeOK
  <2>3. rows[r.job].state # "absent" => rows'[r.job].state = "pending"
    BY <1>0, <1>5 DEF Retry, TypeOK, Row
  <2> QED
    BY <2>1, <2>2, <2>3 DEF StaysDead
<1> QED
  BY <1>1, <1>2, <1>3, <1>4, <1>5 DEF RunStep

LEMMA PlantReopensNothing ==
  ASSUME TypeOK, NEW k, NEW due, Plant(k, due), NEW j \in Jobs
  PROVE  StaysDead(j)
BY DEF Plant, Fresh, StaysDead, TypeOK

LEMMA StepReopens ==
  ASSUME TypeOK, [Next]_vars, NEW j \in Jobs
  PROVE  StaysDead(j)
<1>1. CASE UNCHANGED rows
  BY <1>1 DEF StaysDead
<1>2. ASSUME NEW k \in AskedKeys, NEW due \in BOOLEAN, Enqueue(k, due) PROVE StaysDead(j)
  BY <1>2, PlantReopensNothing DEF Enqueue
<1>3. ASSUME NEW k \in Keys, CancelByDedupeKey(k) PROVE StaysDead(j)
  BY <1>3 DEF CancelByDedupeKey, StaysDead, TypeOK
<1>4. ASSUME NEW i \in Jobs, BecomesDue(i) \/ LockAges(i) PROVE StaysDead(j)
  BY <1>4 DEF BecomesDue, LockAges, StaysDead, TypeOK
<1>5. ASSUME NEW w \in Workers, WorkerStep(w) PROVE StaysDead(j)
  <2>1. CASE Claim(w)
    <3>1. PICK S \in SUBSET Due :
            rows' = [i \in Jobs |-> IF i \in S THEN Claimed(rows[i]) ELSE rows[i]]
      BY <2>1 DEF Claim
    <3> QED
      BY <3>1 DEF StaysDead, Due
  <2>2. CASE ReclaimStalled(w) \/ PruneFinishedJobs(w)
    BY <2>2 DEF ReclaimStalled, Stalled, PruneFinishedJobs, StaysDead
  <2>3. ASSUME NEW k \in RecurringKeys, Prime(w, k) PROVE StaysDead(j)
    BY <2>3, PlantReopensNothing DEF Prime
  <2> QED
    BY <1>1, <1>5, <2>1, <2>2, <2>3 DEF WorkerStep, Dispatch, Start, PrimeThrows, Stop,
       StopReturns, StopTimesOut, Crash, Exit
<1> QED
  BY <1>1, <1>2, <1>3, <1>4, <1>5, RunStepReopens DEF Next, vars

(* A dead row is reopened by nobody but a run of the same job, one that a  *)
(* reclaim let in beside the run that gave up: not by a timer, a prune, a  *)
(* priming or another job, however late handlers are.                      *)
THEOREM DeadStaysVisible ==
  ASSUME QueueAssumption PROVE Spec => DeadReopenedOnlyByOverrun
<1>1. TypeOK /\ [Next]_vars =>
        [\A j \in Jobs :
           rows[j].state = "dead" /\ rows'[j].state # "dead" =>
             /\ rows'[j].state \in {"pending", "succeeded"}
             /\ \E r \in runs : r.job = j /\ r \notin runs']_<<rows, runs>>
  BY StepReopens DEF StaysDead
<1> QED
  BY <1>1, TypeCorrect, PTL DEF Spec, DeadReopenedOnlyByOverrun
=============================================================================
