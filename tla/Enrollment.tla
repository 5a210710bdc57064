----------------------------- MODULE Enrollment -----------------------------
(***************************************************************************)
(* One client's way through one workflow (src/services/                    *)
(* automation-engine.ts: runStep, runClaimedStep, executeNode, stop,       *)
(* complete, sweepDueEnrollments), with the queue that runs its steps and  *)
(* the controls staff have on it (src/http/routes/automations.ts).         *)
(*                                                                         *)
(* The workflow is a line of nodes; what matters of a node is whether it   *)
(* waits, sends (deduplicated by enrollment and node) or does something    *)
(* that is done again when it is run again (a task, a note).  Every        *)
(* statement is a step of its own.                                         *)
(***************************************************************************)
EXTENDS Naturals, Sequences, FiniteSets

CONSTANTS
  Workflow,        \* the kinds of its nodes, in order
  Controls,        \* controls staff use: pause, resume, skip, end, run
  GateClosed,      \* does the send gate refuse this client?
  StopsItself,     \* may the workflow's stop condition become true?
  Overruns,        \* may a step outlive CLAIM_TIMEOUT?
  MaxAsks,         \* bound: uses of the controls
  MaxFaults,       \* bound: statements that throw
  MaxExits         \* bound: exits of the process

ASSUME EnrollmentAssumption ==
  /\ Workflow \in Seq({"task", "wait", "send"}) /\ Workflow # <<>>
  /\ Controls \subseteq {"pause", "resume", "skip", "end", "run"}
  /\ GateClosed \in BOOLEAN /\ StopsItself \in BOOLEAN /\ Overruns \in BOOLEAN
  /\ MaxAsks \in Nat /\ MaxFaults \in Nat /\ MaxExits \in Nat

VARIABLES
  status,     \* automation_enrollments.status
  node,       \* current_node_key, End when NULL
  steps,      \* steps_completed
  due,        \* next_run_at: NULL, in the future, or past
  claim,      \* running_since: NULL, fresh, or past CLAIM_TIMEOUT
  jobs,       \* live automation.step jobs
  tasks,      \* what the process holds in memory
  ran,        \* ran[n]: times node n has been carried out
  skipped,    \* nodes skipped by hand
  sent,       \* nodes that have a row in `messages`
  resolved,   \* is the stop condition true of the file?
  late,       \* nodes carried out since it was, or since the end
  asks, faults, exits

vars == <<status, node, steps, due, claim, jobs, tasks, ran, skipped, sent,
          resolved, late, asks, faults, exits>>

Nodes == 1..Len(Workflow)
End == 0

(* Fault: the node after the last.                                         *)
FollowingUnbounded(n) == n + 1

Following(n) == IF n = Len(Workflow) THEN End ELSE n + 1

(* A job by its dedupe key, which says what planted it; `now`: run_after   *)
(* has passed.                                                             *)
Key == [why : {"enrol", "next", "sweep", "resume", "skip"}, node : Nodes \cup {End}, nth : Nat]
Job == [key : Key, state : {"pending", "running"}, now : BOOLEAN]

Plant(k, now) ==
  jobs' = IF \E j \in jobs : j.key = k THEN jobs
          ELSE jobs \cup {[key |-> k, state |-> "pending", now |-> now]}

(* `key` is the job's, or of the job the control will plant; `node`,       *)
(* `steps` and `due` are what the claim, or the control, read.             *)
Task == [by : {"job", "run", "control", "sweep"}, key : Key, node : Nodes \cup {End},
         steps : Nat, due : {"later", "now"}, ok : BOOLEAN,
         pc : {"claim", "facts", "stop", "effect", "advance", "enqueue", "release",
               "settle", "pause", "resume", "enqueueResume", "skip", "enqueueSkip",
               "enqueueSweep"}]

FirstKey == [why |-> "enrol", node |-> 1, nth |-> 0]

(* As `enrol` leaves it.                                                   *)
Init ==
  /\ status = "active" /\ node = 1 /\ steps = 0 /\ due = "now" /\ claim = "free"
  /\ jobs = {[key |-> FirstKey, state |-> "pending", now |-> TRUE]}
  /\ tasks = {}
  /\ ran = [n \in Nodes |-> 0]
  /\ skipped = {} /\ sent = {}
  /\ resolved = FALSE /\ late = 0
  /\ asks = 0 /\ faults = 0 /\ exits = 0

file == <<ran, skipped, sent, resolved, late>>
counts == <<asks, faults, exits>>

Goto(t, pc) == tasks' = (tasks \ {t}) \cup {[t EXCEPT !.pc = pc]}
Done(t) == tasks' = tasks \ {t}

-----------------------------------------------------------------------------
(* The queue: a job is claimed, and settled or returned.                   *)

StartJob(j) ==
  /\ j.state = "pending" /\ j.now
  /\ jobs' = (jobs \ {j}) \cup {[j EXCEPT !.state = "running"]}
  /\ tasks' = tasks \cup {[by |-> "job", key |-> j.key, node |-> End, steps |-> 0,
                           due |-> "now", ok |-> TRUE, pc |-> "claim"]}
  /\ UNCHANGED <<status, node, steps, due, claim, file, counts>>

(* A failed job is tried again, or it was its last attempt.                *)
Settle(t) ==
  /\ t.pc = "settle"
  /\ Done(t)
  /\ LET mine == {j \in jobs : t.by = "job" /\ j.key = t.key}
     IN  \/ jobs' = jobs \ mine
         \/ /\ ~t.ok
            /\ jobs' = (jobs \ mine) \cup {[j EXCEPT !.state = "pending"] : j \in mine}
  /\ UNCHANGED <<status, node, steps, due, claim, file, counts>>

Working(j) == \E t \in tasks : t.by = "job" /\ t.key = j.key

Reclaim(j) ==
  /\ j.state = "running" /\ ~Working(j)
  /\ claim # "fresh"
  /\ jobs' = (jobs \ {j}) \cup {[j EXCEPT !.state = "pending"]}
  /\ UNCHANGED <<status, node, steps, due, claim, tasks, file, counts>>

TimePasses ==
  /\ due = "later" \/ (\E j \in jobs : ~j.now) \/ \E t \in tasks : t.due = "later"
  /\ due' = IF due = "later" THEN "now" ELSE due
  /\ jobs' = {[j EXCEPT !.now = TRUE] : j \in jobs}
  /\ tasks' = {[t EXCEPT !.due = "now"] : t \in tasks}
  /\ UNCHANGED <<status, node, steps, claim, file, counts>>

-----------------------------------------------------------------------------
(* runStep.                                                                *)

(* Fault: nobody else is expected.                                         *)
ClaimableByAnyone == status = "active"

Claimable == status = "active" /\ claim # "fresh"

(* Nothing in the UPDATE looks at next_run_at.                             *)
ClaimStep(t) ==
  /\ t.pc = "claim"
  /\ IF Claimable
       THEN /\ claim' = "fresh"
            /\ tasks' = (tasks \ {t}) \cup
                 {[t EXCEPT !.node = node, !.steps = steps, !.pc = "facts"]}
       ELSE UNCHANGED claim /\ Goto(t, "settle")
  /\ UNCHANGED <<status, node, steps, due, jobs, file, counts>>

(* Fault: stop conditions are looked at when somebody is enrolled.         *)
ReadNoFacts(t) ==
  /\ t.pc = "facts"
  /\ Goto(t, "effect")
  /\ UNCHANGED <<status, node, steps, due, claim, jobs, file, counts>>

ReadFacts(t) ==
  /\ t.pc = "facts"
  /\ Goto(t, IF resolved THEN "stop" ELSE IF t.node = End THEN "advance" ELSE "effect")
  /\ UNCHANGED <<status, node, steps, due, claim, jobs, file, counts>>

(* Whatever became of the enrollment meanwhile.                            *)
StopEnrollment(t) ==
  /\ t.pc = "stop"
  /\ status' = "stopped" /\ due' = "none"
  /\ Goto(t, "release")
  /\ UNCHANGED <<node, steps, claim, jobs, file, counts>>

(* executeNode.  A send that finds its row already there when the gate     *)
(* refuses (or quiet hours put it off) reports the message '', which       *)
(* recordExecution cannot store: it throws.                                *)
CarryOut(t) ==
  /\ t.pc = "effect"
  /\ LET n == t.node
         again == Workflow[n] = "send" /\ n \in sent
     IN  /\ ran' = [ran EXCEPT ![n] = IF again THEN @ ELSE @ + 1]
         /\ late' = IF (resolved \/ status = "stopped") /\ ~again THEN late + 1 ELSE late
         /\ sent' = IF Workflow[n] = "send" THEN sent \cup {n} ELSE sent
         /\ tasks' = (tasks \ {t}) \cup
              {IF again /\ GateClosed THEN [t EXCEPT !.ok = FALSE, !.pc = "release"]
               ELSE [t EXCEPT !.pc = "advance"]}
  /\ UNCHANGED <<status, node, steps, due, claim, jobs, skipped, resolved, counts>>

(* A wait is never the end, whatever comes after it.                       *)
Over(n) == n # End => Workflow[n] # "wait" /\ Following(n) = End

(* Fault: one more than the row says by now, not than the claim read.      *)
AdvanceFromRow(t) ==
  /\ t.pc = "advance"
  /\ ~Over(t.node)
  /\ node' = IF node = End THEN End ELSE Following(node)
  /\ steps' = steps + 1
  /\ due' = IF Workflow[t.node] = "wait" THEN "later" ELSE "now"
  /\ Goto(t, "enqueue")
  /\ UNCHANGED <<status, claim, jobs, file, counts>>

(* The successor of what the claim read, over whatever is there by now.    *)
Advance(t) ==
  /\ t.pc = "advance"
  /\ ~Over(t.node)
  /\ node' = Following(t.node)
  /\ steps' = steps + 1
  /\ due' = IF Workflow[t.node] = "wait" THEN "later" ELSE "now"
  /\ Goto(t, "enqueue")
  /\ UNCHANGED <<status, claim, jobs, file, counts>>

Complete(t) ==
  /\ t.pc = "advance"
  /\ Over(t.node)
  /\ status' = "completed" /\ due' = "none"
  /\ steps' = IF t.node = End THEN steps ELSE steps + 1
  /\ Goto(t, "release")
  /\ UNCHANGED <<node, claim, jobs, file, counts>>

EnqueueNext(t) ==
  /\ t.pc = "enqueue"
  /\ Plant([why |-> "next", node |-> Following(t.node), nth |-> t.steps + 1],
           Workflow[t.node] # "wait")
  /\ Goto(t, "release")
  /\ UNCHANGED <<status, node, steps, due, claim, file, counts>>

(* The finally: whoever holds the claim by now.                            *)
Release(t) ==
  /\ t.pc = "release"
  /\ claim' = "free"
  /\ Goto(t, "settle")
  /\ UNCHANGED <<status, node, steps, due, jobs, file, counts>>

StatementThrows(t) ==
  /\ faults < MaxFaults
  /\ faults' = faults + 1
  /\ t.by \in {"job", "run"}
  /\ \/ /\ t.pc \in {"facts", "stop", "effect", "advance", "enqueue"}
        /\ tasks' = (tasks \ {t}) \cup {[t EXCEPT !.ok = FALSE, !.pc = "release"]}
     \/ /\ t.pc \in {"claim", "release"}
        /\ tasks' = (tasks \ {t}) \cup {[t EXCEPT !.ok = FALSE, !.pc = "settle"]}
  /\ UNCHANGED <<status, node, steps, due, claim, jobs, file, asks, exits>>

Holding(t) == t.pc \in {"facts", "stop", "effect", "advance", "enqueue", "release"}

ClaimAges ==
  /\ claim = "fresh"
  /\ Overruns \/ ~\E t \in tasks : Holding(t)
  /\ claim' = "stale"
  /\ UNCHANGED <<status, node, steps, due, jobs, tasks, file, counts>>

-----------------------------------------------------------------------------
(* sweepDueEnrollments, from the tick.                                     *)

(* Fault: an abandoned claim is taken for work in progress.                *)
MissingUnclaimed ==
  status = "active" /\ due = "now" /\ claim = "free" /\ jobs = {}

Missing == status = "active" /\ due = "now" /\ claim # "fresh" /\ jobs = {}

SweepFinds ==
  /\ Missing
  /\ ~\E t \in tasks : t.by = "sweep"
  /\ tasks' = tasks \cup {[by |-> "sweep", key |-> [why |-> "sweep", node |-> node, nth |-> 0],
                           node |-> node, steps |-> 0, due |-> "now", ok |-> TRUE,
                           pc |-> "enqueueSweep"]}
  /\ UNCHANGED <<status, node, steps, due, claim, jobs, file, counts>>

SweepEnqueues(t) ==
  /\ t.pc = "enqueueSweep"
  /\ Plant(t.key, TRUE)
  /\ Done(t)
  /\ UNCHANGED <<status, node, steps, due, claim, file, counts>>

-----------------------------------------------------------------------------
(* The controls.  What was read is not looked at again when it is written. *)
(* A time still to come is kept, and the job planted for it is known by    *)
(* that time; any other job a control plants, by the moment it is asked.   *)

Finished == status \in {"completed", "stopped"}

Ask(action) ==
  /\ action \in Controls \ {"end"}
  /\ asks < MaxAsks
  /\ asks' = asks + 1
  /\ ~Finished
  /\ action = "skip" => node # End
  /\ tasks' = tasks \cup
       {[by |-> IF action = "run" THEN "run" ELSE "control",
         key |-> [why |-> IF action = "skip" THEN "skip" ELSE "resume",
                  node |-> node,
                  nth |-> IF action = "resume" /\ due = "later" THEN 0 ELSE asks + 1],
         node |-> node, steps |-> 0,
         due |-> IF action = "resume" /\ due = "later" THEN "later" ELSE "now",
         ok |-> TRUE, pc |-> IF action = "run" THEN "claim" ELSE action]}
  /\ UNCHANGED <<status, node, steps, due, claim, jobs, file, faults, exits>>

Pause(t) ==
  /\ t.pc = "pause"
  /\ status' = "paused"
  /\ Done(t)
  /\ UNCHANGED <<node, steps, due, claim, jobs, file, counts>>

(* A job is planted beside the one that is there.                          *)
Resume(t) ==
  /\ t.pc = "resume"
  /\ status' = "active"
  /\ due' = t.due
  /\ Goto(t, "enqueueResume")
  /\ UNCHANGED <<node, steps, claim, jobs, file, counts>>

Skip(t) ==
  /\ t.pc = "skip"
  /\ node' = Following(t.node)
  /\ due' = IF Following(t.node) = End THEN "none" ELSE "now"
  /\ status' = IF Following(t.node) = End THEN "completed" ELSE status
  /\ skipped' = skipped \cup {t.node}
  /\ IF Following(t.node) = End THEN Done(t) ELSE Goto(t, "enqueueSkip")
  /\ UNCHANGED <<steps, claim, jobs, ran, sent, resolved, late, counts>>

EnqueueControl(t) ==
  /\ t.pc \in {"enqueueResume", "enqueueSkip"}
  /\ Plant(t.key, t.due = "now")
  /\ Done(t)
  /\ UNCHANGED <<status, node, steps, due, claim, file, counts>>

(* End, a STOP text and a stage move all UPDATE what is active or paused.  *)
Ends ==
  /\ "end" \in Controls
  /\ asks < MaxAsks
  /\ asks' = asks + 1
  /\ ~Finished
  /\ status' = "stopped" /\ due' = "none"
  /\ UNCHANGED <<node, steps, claim, jobs, tasks, file, faults, exits>>

(* The documents arrive, the file funds.                                   *)
Resolves ==
  /\ StopsItself
  /\ ~resolved
  /\ resolved' = TRUE
  /\ UNCHANGED <<status, node, steps, due, claim, jobs, tasks, ran, skipped, sent,
                 late, counts>>

Crash ==
  /\ exits < MaxExits
  /\ tasks # {}
  /\ exits' = exits + 1
  /\ tasks' = {}
  /\ UNCHANGED <<status, node, steps, due, claim, jobs, file, asks, faults>>

-----------------------------------------------------------------------------
TaskStep(t) ==
  \/ ClaimStep(t) \/ ReadFacts(t) \/ StopEnrollment(t) \/ CarryOut(t) \/ Advance(t)
  \/ Complete(t) \/ EnqueueNext(t) \/ Release(t) \/ Settle(t) \/ SweepEnqueues(t)
  \/ Pause(t) \/ Resume(t) \/ Skip(t) \/ EnqueueControl(t)

Next ==
  \/ \E j \in jobs : StartJob(j) \/ Reclaim(j)
  \/ \E t \in tasks : TaskStep(t) \/ StatementThrows(t)
  \/ \E action \in Controls : Ask(action)
  \/ TimePasses \/ ClaimAges \/ SweepFinds \/ Ends \/ Resolves \/ Crash

Spec == Init /\ [][Next]_vars

(* The queue claims and returns jobs, the tick comes round, requests and   *)
(* handlers run to their end, and the clock runs.                          *)
Fairness ==
  /\ WF_vars(\E j \in jobs : StartJob(j))
  /\ WF_vars(\E j \in jobs : Reclaim(j))
  /\ WF_vars(TimePasses) /\ WF_vars(ClaimAges) /\ WF_vars(SweepFinds)
  /\ \A by \in {"job", "run", "control", "sweep"} :
       WF_vars(\E t \in tasks : t.by = by /\ TaskStep(t))

FairSpec == Spec /\ Fairness

-----------------------------------------------------------------------------
(* Properties.                                                             *)

TypeOK ==
  /\ status \in {"active", "paused", "completed", "stopped"}
  /\ node \in Nodes \cup {End} /\ steps \in Nat
  /\ due \in {"none", "later", "now"} /\ claim \in {"free", "fresh", "stale"}
  /\ jobs \subseteq Job /\ tasks \subseteq Task
  /\ ran \in [Nodes -> Nat] /\ skipped \subseteq Nodes /\ sent \subseteq Nodes
  /\ resolved \in BOOLEAN /\ late \in Nat
  /\ asks \in Nat /\ faults \in Nat /\ exits \in Nat

(* One step at a time on an enrollment, however many jobs and hands are at *)
(* it, while no step outlives its claim.                                   *)
OneStepAtATime ==
  \A t, u \in tasks : Holding(t) /\ Holding(u) => t = u

(* No interleaving of steps, retries, skips and crashes steps over a node: *)
(* whatever lies behind the client was carried out or skipped by hand.     *)
NothingSteppedOver ==
  \A n \in Nodes :
    node = End \/ n < node \/ (status = "completed" /\ ~resolved)
      => ran[n] > 0 \/ n \in skipped

(* Both, whatever jobs, hands and exits do.                                *)
StepsInOrder == OneStepAtATime /\ NothingSteppedOver

(* Once the stop condition is true, or the sequence was ended, no more     *)
(* than the one step that had already begun is carried out: not by a       *)
(* retry, a sweep, a second job or a hand.                                 *)
StopsAreHeeded == late <= 1

(* A client who is due is never forgotten: whatever job was lost, died or  *)
(* gave up, the step is run, unless the sequence is paused or over.        *)
DueIsRun ==
  \A n \in Nodes :
    status = "active" /\ due = "now" /\ node = n
      ~> node # n \/ due # "now" \/ status # "active"

-----------------------------------------------------------------------------
(* What the comments say and the code does not do.                         *)

(* automations.ts:709 "keeping the time means resuming puts the client     *)
(* back where they were rather than firing the rest of the sequence at     *)
(* them at once": no job runs a step whose time has not come.              *)
WaitsAreKept ==
  [][\A t \in tasks : t.by = "job" /\ t.pc = "claim" /\ t \notin tasks' =>
       ~(due = "later" /\ claim' = "fresh" /\ claim # "fresh")]_vars

(* automations.ts:13 "AN ENROLLMENT IS SOMETHING A PERSON CAN STOP."       *)
EndedStaysEnded == [][status = "stopped" => status' = "stopped"]_vars

(* automations.ts:669 "Skip advances past the step the enrollment is       *)
(* sitting on without running it".                                         *)
SkippedIsNotRun == [][\A n \in skipped : ran'[n] = ran[n]]_vars

(* queue.ts:17 "Handlers must therefore be safe to run twice".             *)
CarriedOutOnce == \A n \in Nodes : ran[n] <= 1

(* automation-engine.ts:648 "A suppressed send is not a failure — the gate *)
(* did its job — and the sequence continues".                              *)
SuppressedContinues ==
  \A n \in Nodes : node = n /\ status = "active" ~> node # n \/ status # "active"
=============================================================================
