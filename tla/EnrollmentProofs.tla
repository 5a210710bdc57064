------------------------- MODULE EnrollmentProofs -------------------------
(***************************************************************************)
(* A sequence of any length, with any number of jobs, hands, retries and   *)
(* exits at it: no node is passed over, one step at a time is run, and a   *)
(* stop is heeded.                                                         *)
(***************************************************************************)
EXTENDS MCWorkflow, FiniteSetTheorems, SequenceTheorems, TLAPS

Places == {"claim", "facts", "stop", "effect", "advance", "enqueue", "release", "settle",
           "pause", "resume", "enqueueResume", "skip", "enqueueSkip", "enqueueSweep"}

LEMMA WorkflowHasNodes ==
  /\ Len(Workflow) \in Nat /\ Len(Workflow) > 0
  /\ \A n \in Nodes : n \in Nat /\ n # End /\ n > 0 /\ n <= Len(Workflow)
<1>1. Len(Workflow) \in Nat /\ Len(Workflow) # 0
  BY EnrollmentAssumption
<1> QED
  BY <1>1 DEF Nodes, End

LEMMA FollowingIsANode ==
  ASSUME NEW n \in Nodes \cup {End}
  PROVE  Following(n) \in Nodes \cup {End}
BY WorkflowHasNodes DEF Following, Nodes, End

(* What lies before the node that follows is the node and what lies before *)
(* it.                                                                     *)
LEMMA BeforeFollowing ==
  ASSUME NEW n \in Nodes, NEW m \in Nodes, Following(n) = End \/ m < Following(n)
  PROVE  m = n \/ m < n
BY WorkflowHasNodes DEF Following, Nodes, End

LEMMA MovedIsTask ==
  ASSUME NEW t \in Task, NEW pc \in Places, NEW ok \in BOOLEAN
  PROVE  /\ [t EXCEPT !.pc = pc] \in Task
         /\ [t EXCEPT !.pc = pc].node = t.node
         /\ [t EXCEPT !.pc = pc].by = t.by
         /\ [t EXCEPT !.pc = pc].key = t.key
         /\ [t EXCEPT !.pc = pc].pc = pc
         /\ [t EXCEPT !.ok = ok, !.pc = pc] \in Task
         /\ [t EXCEPT !.ok = ok, !.pc = pc].node = t.node
         /\ [t EXCEPT !.ok = ok, !.pc = pc].by = t.by
         /\ [t EXCEPT !.ok = ok, !.pc = pc].key = t.key
         /\ [t EXCEPT !.ok = ok, !.pc = pc].pc = pc
BY DEF Task, Places

(* A task that goes on is a task, at the node it was at.                   *)
Goes(t, pc) ==
  \E q \in Task : /\ tasks' = (tasks \ {t}) \cup {q}
                  /\ q.node = t.node /\ q.by = t.by /\ q.key = t.key /\ q.pc = pc

LEMMA GotoGoes ==
  ASSUME tasks \subseteq Task, NEW t \in tasks, NEW pc \in Places, Goto(t, pc)
  PROVE  Goes(t, pc)
<1>1. t \in Task
  OBVIOUS
<1>2. /\ [t EXCEPT !.pc = pc] \in Task
      /\ [t EXCEPT !.pc = pc].node = t.node
      /\ [t EXCEPT !.pc = pc].by = t.by
      /\ [t EXCEPT !.pc = pc].key = t.key
      /\ [t EXCEPT !.pc = pc].pc = pc
  BY <1>1, MovedIsTask
<1> QED
  BY <1>2 DEF Goto, Goes

LEMMA ThrowGoes ==
  ASSUME tasks \subseteq Task, NEW t \in tasks, NEW pc \in Places,
         tasks' = (tasks \ {t}) \cup {[t EXCEPT !.ok = FALSE, !.pc = pc]}
  PROVE  Goes(t, pc)
<1>1. t \in Task /\ FALSE \in BOOLEAN
  OBVIOUS
<1>2. /\ [t EXCEPT !.ok = FALSE, !.pc = pc] \in Task
      /\ [t EXCEPT !.ok = FALSE, !.pc = pc].node = t.node
      /\ [t EXCEPT !.ok = FALSE, !.pc = pc].by = t.by
      /\ [t EXCEPT !.ok = FALSE, !.pc = pc].key = t.key
      /\ [t EXCEPT !.ok = FALSE, !.pc = pc].pc = pc
  BY <1>1 DEF Task, Places
<1> QED
  BY <1>2 DEF Goes

LEMMA GoesTyped ==
  ASSUME tasks \subseteq Task, NEW t, NEW pc, Goes(t, pc)
  PROVE  tasks' \subseteq Task
BY DEF Goes

LEMMA PlantTyped ==
  ASSUME jobs \subseteq Job, NEW k \in Key, NEW now \in BOOLEAN, Plant(k, now)
  PROVE  jobs' \subseteq Job
BY DEF Plant, Job

(* What is carried out, or skipped by hand, is a node: the types rest on   *)
(* it.                                                                     *)
AtANode == \A t \in tasks : t.pc \in {"effect", "skip"} => t.node \in Nodes

TypeInv == TypeOK /\ AtANode

LEMMA GoesToANode ==
  ASSUME AtANode, NEW t, NEW pc, Goes(t, pc), pc \in {"effect", "skip"} => t.node \in Nodes
  PROVE  AtANode'
BY DEF AtANode, Goes

LEMMA InitTyped == Init => TypeInv
<1> SUFFICES ASSUME Init PROVE TypeInv
  OBVIOUS
<1>1. resolved \in BOOLEAN
  BY Zenon DEF Init
<1>2. FirstKey \in Key
  BY WorkflowHasNodes DEF FirstKey, Key, Nodes
<1>3. jobs \subseteq Job
  BY <1>2 DEF Init, Job
<1>4. node \in Nodes
  BY WorkflowHasNodes DEF Init, Nodes
<1> QED
  BY <1>1, <1>3, <1>4 DEF Init, TypeOK, TypeInv, AtANode

LEMMA TaskStepTyped ==
  ASSUME TypeInv, NEW t \in tasks, TaskStep(t) \/ StatementThrows(t)
  PROVE  TypeOK'
<1>0. /\ t \in Task /\ t.node \in Nodes \cup {End} /\ t.steps \in Nat /\ t.key \in Key
      /\ t.due \in {"later", "now"} /\ Following(t.node) \in Nodes \cup {End}
  BY FollowingIsANode DEF TypeInv, TypeOK, Task
<1>1. ASSUME NEW pc \in Places, Goto(t, pc) PROVE tasks' \subseteq Task
  BY <1>1, GotoGoes, GoesTyped DEF TypeInv, TypeOK
<1>2. ASSUME Done(t) PROVE tasks' \subseteq Task
  BY <1>2 DEF TypeInv, TypeOK, Done
<1>3. ASSUME NEW k \in Key, NEW now \in BOOLEAN, Plant(k, now) PROVE jobs' \subseteq Job
  BY <1>3, PlantTyped DEF TypeInv, TypeOK
<1> USE DEF TypeOK, TypeInv, file, counts
<1>4. CASE ClaimStep(t)
  <2>1. [t EXCEPT !.node = node, !.steps = steps, !.pc = "facts"] \in Task
    BY <1>0 DEF Task
  <2> QED
    BY <1>1, <1>4, <2>1 DEF ClaimStep, Places
<1>5. CASE ReadFacts(t) \/ StopEnrollment(t) \/ Release(t)
  BY <1>1, <1>5 DEF ReadFacts, StopEnrollment, Release, Places
<1>6. CASE CarryOut(t)
  <2>0. t.node \in Nodes
    BY <1>6 DEF CarryOut, AtANode
  <2>1. PICK q \in {[t EXCEPT !.ok = FALSE, !.pc = "release"], [t EXCEPT !.pc = "advance"]} :
          tasks' = (tasks \ {t}) \cup {q}
    BY <1>6 DEF CarryOut
  <2>2. q \in Task
    BY <1>0, <2>1 DEF Task
  <2>3. tasks' \subseteq Task
    BY <2>1, <2>2
  <2>4. ran' \in [Nodes -> Nat]
    <3>1. PICK m \in Nat : ran' = [ran EXCEPT ![t.node] = m]
      <4>1. ran' = [ran EXCEPT ![t.node] = ran[t.node]]
            \/ ran' = [ran EXCEPT ![t.node] = ran[t.node] + 1]
        BY <1>6 DEF CarryOut
      <4>2. ran[t.node] \in Nat /\ ran[t.node] + 1 \in Nat
        BY <2>0
      <4> QED
        BY <4>1, <4>2
    <3> QED
      BY <3>1
  <2>5. late' \in Nat
    <3>1. late' = late \/ late' = late + 1
      BY <1>6, Zenon DEF CarryOut
    <3> QED
      BY <3>1
  <2>6. sent' \subseteq Nodes
    BY <1>6, <2>0 DEF CarryOut
  <2> QED
    BY <1>6, <2>3, <2>4, <2>5, <2>6 DEF CarryOut
<1>7. CASE Advance(t)
  BY <1>0, <1>1, <1>7 DEF Advance, Places
<1>8. CASE Complete(t)
  BY <1>0, <1>1, <1>8 DEF Complete, Places
<1>9. CASE EnqueueNext(t)
  <2>1. [why |-> "next", node |-> Following(t.node), nth |-> t.steps + 1] \in Key
    BY <1>0 DEF Key
  <2>2. (Workflow[t.node] # "wait") \in BOOLEAN
    OBVIOUS
  <2> QED
    BY <1>1, <1>3, <1>9, <2>1, <2>2 DEF EnqueueNext, Places
<1>10. CASE Settle(t)
  <2>1. jobs' \subseteq Job
    BY <1>10 DEF Settle, Job
  <2> QED
    BY <1>2, <1>10, <2>1 DEF Settle
<1>11. CASE SweepEnqueues(t)
  BY <1>0, <1>2, <1>3, <1>11 DEF SweepEnqueues
<1>12. CASE Pause(t)
  BY <1>2, <1>12 DEF Pause
<1>13. CASE Resume(t)
  BY <1>0, <1>1, <1>13 DEF Resume, Places
<1>14. CASE Skip(t)
  <2>1. tasks' \subseteq Task
    BY <1>1, <1>2, <1>14 DEF Skip, Places
  <2>2. t.node \in Nodes
    BY <1>14 DEF Skip, AtANode
  <2> QED
    BY <1>0, <1>14, <2>1, <2>2 DEF Skip
<1>15. CASE EnqueueControl(t)
  <2>1. (t.due = "now") \in BOOLEAN
    OBVIOUS
  <2> QED
    BY <1>0, <1>2, <1>3, <1>15, <2>1 DEF EnqueueControl
<1>16. CASE StatementThrows(t)
  <2>1. \A pc \in {"release", "settle"} : [t EXCEPT !.ok = FALSE, !.pc = pc] \in Task
    BY <1>0 DEF Task
  <2> QED
    BY <1>16, <2>1 DEF StatementThrows
<1> QED
  BY <1>4, <1>5, <1>6, <1>7, <1>8, <1>9, <1>10, <1>11, <1>12, <1>13, <1>14, <1>15, <1>16
     DEF TaskStep

LEMMA TaskStepAtANode ==
  ASSUME TypeInv, NEW t \in tasks, TaskStep(t) \/ StatementThrows(t)
  PROVE  AtANode'
<1>0. tasks \subseteq Task /\ t \in Task /\ t.node \in Nodes \cup {End} /\ AtANode
  BY DEF TypeInv, TypeOK, Task
<1>1. ASSUME NEW pc \in Places, Goto(t, pc), pc \in {"effect", "skip"} => t.node \in Nodes
      PROVE  AtANode'
  BY <1>0, <1>1, GotoGoes, GoesToANode
<1>2. ASSUME Done(t) PROVE AtANode'
  BY <1>0, <1>2 DEF Done, AtANode
<1>3. ASSUME NEW q, tasks' = (tasks \ {t}) \cup {q}, q.pc \notin {"effect", "skip"}
      PROVE  AtANode'
  BY <1>0, <1>3 DEF AtANode
<1>4. CASE ClaimStep(t)
  <2>1. [t EXCEPT !.node = node, !.steps = steps, !.pc = "facts"].pc = "facts"
    BY <1>0 DEF Task
  <2> QED
    BY <1>1, <1>3, <1>4, <2>1 DEF ClaimStep, Places
<1>5. CASE ReadFacts(t)
  BY <1>0, <1>1, <1>5 DEF ReadFacts, Places
<1>6. CASE CarryOut(t)
  <2>1. PICK q \in {[t EXCEPT !.ok = FALSE, !.pc = "release"], [t EXCEPT !.pc = "advance"]} :
          tasks' = (tasks \ {t}) \cup {q}
    BY <1>6 DEF CarryOut
  <2>2. q.pc \in {"release", "advance"}
    BY <1>0, <2>1 DEF Task
  <2> QED
    BY <1>3, <2>1, <2>2
<1>7. CASE StopEnrollment(t) \/ Advance(t) \/ Complete(t) \/ EnqueueNext(t) \/ Release(t)
           \/ Resume(t)
  BY <1>1, <1>7 DEF StopEnrollment, Advance, Complete, EnqueueNext, Release, Resume,
    Places
<1>8. CASE Settle(t) \/ SweepEnqueues(t) \/ Pause(t) \/ EnqueueControl(t)
  BY <1>2, <1>8 DEF Settle, SweepEnqueues, Pause, EnqueueControl
<1>9. CASE Skip(t)
  BY <1>1, <1>2, <1>9 DEF Skip, Places
<1>10. CASE StatementThrows(t)
  <2>1. PICK pc \in {"release", "settle"} :
          tasks' = (tasks \ {t}) \cup {[t EXCEPT !.ok = FALSE, !.pc = pc]}
    BY <1>10 DEF StatementThrows
  <2>2. [t EXCEPT !.ok = FALSE, !.pc = pc].pc \notin {"effect", "skip"}
    BY <1>0, <2>1 DEF Task
  <2> QED
    BY <1>3, <2>1, <2>2
<1> QED
  BY <1>4, <1>5, <1>6, <1>7, <1>8, <1>9, <1>10 DEF TaskStep

LEMMA StepTyped == TypeInv /\ [Next]_vars => TypeInv'
<1> SUFFICES ASSUME TypeInv, [Next]_vars PROVE TypeInv'
  OBVIOUS
<1> USE DEF TypeInv, TypeOK, file, counts
<1>1. ASSUME NEW j \in jobs, StartJob(j) \/ Reclaim(j) PROVE TypeInv'
  <2>1. j \in Job /\ j.key \in Key
    BY DEF Job
  <2>2. [j EXCEPT !.state = "running"] \in Job /\ [j EXCEPT !.state = "pending"] \in Job
    BY <2>1 DEF Job
  <2>3. [by |-> "job", key |-> j.key, node |-> End, steps |-> 0, due |-> "now", ok |-> TRUE,
         pc |-> "claim"] \in Task
    BY <2>1 DEF Task
  <2>4. tasks' = tasks \/ \E q \in Task : tasks' = tasks \cup {q} /\ q.pc = "claim"
    <3>1. [by |-> "job", key |-> j.key, node |-> End, steps |-> 0, due |-> "now", ok |-> TRUE,
           pc |-> "claim"].pc = "claim"
      OBVIOUS
    <3> QED
      BY <1>1, <2>3, <3>1 DEF StartJob, Reclaim
  <2>5. tasks' \subseteq Task /\ AtANode'
    BY <2>4 DEF AtANode
  <2>6. jobs' \subseteq Job
    BY <1>1, <2>2 DEF StartJob, Reclaim
  <2> QED
    BY <1>1, <2>5, <2>6 DEF StartJob, Reclaim
<1>2. ASSUME NEW t \in tasks, TaskStep(t) \/ StatementThrows(t) PROVE TypeInv'
  BY <1>2, TaskStepTyped, TaskStepAtANode
<1>3. ASSUME NEW action \in Controls, Ask(action) PROVE TypeInv'
  <2> DEFINE key == [why |-> IF action = "skip" THEN "skip" ELSE "resume", node |-> node,
                     nth |-> IF action = "resume" /\ due = "later" THEN 0 ELSE asks + 1]
             pc == IF action = "run" THEN "claim" ELSE action
  <2>1. key \in Key
    BY DEF Key
  <2>2. pc \in {"claim", "pause", "resume", "skip"}
    BY <1>3, EnrollmentAssumption DEF Ask
  <2>3. PICK q \in Task : tasks' = tasks \cup {q} /\ q.node = node /\ q.pc = pc
    <3>1. [by |-> IF action = "run" THEN "run" ELSE "control", key |-> key, node |-> node,
           steps |-> 0,
           due |-> IF action = "resume" /\ due = "later" THEN "later" ELSE "now",
           ok |-> TRUE, pc |-> pc] \in Task
      <4> HIDE DEF key, pc
      <4> QED
        BY <2>1, <2>2 DEF Task
    <3>2. tasks' = tasks \cup {
        [by |-> IF action = "run" THEN "run" ELSE "control", key |-> key, node |-> node,
         steps |-> 0,
         due |-> IF action = "resume" /\ due = "later" THEN "later" ELSE "now",
         ok |-> TRUE, pc |-> pc]}
      BY <1>3 DEF Ask
    <3> HIDE DEF key, pc
    <3> QED
      BY <3>1, <3>2
  <2>4. tasks' \subseteq Task
    BY <2>3
  <2>5. AtANode'
    <3>1. pc = "skip" => node \in Nodes
      BY <1>3 DEF Ask
    <3> QED
      BY <2>2, <2>3, <3>1 DEF AtANode
  <2> QED
    BY <1>3, <2>4, <2>5 DEF Ask
<1>4. CASE TimePasses
  <2>1. \A j \in jobs : [j EXCEPT !.now = TRUE] \in Job
    BY DEF Job
  <2>2. \A t \in tasks : /\ [t EXCEPT !.due = "now"] \in Task
                         /\ [t EXCEPT !.due = "now"].pc = t.pc
                         /\ [t EXCEPT !.due = "now"].node = t.node
    BY DEF Task
  <2>3. AtANode'
    <3> SUFFICES ASSUME NEW u \in tasks', u.pc \in {"effect", "skip"} PROVE u.node \in Nodes
      BY DEF AtANode
    <3>1. PICK t \in tasks : u = [t EXCEPT !.due = "now"]
      BY <1>4 DEF TimePasses
    <3> QED
      BY <2>2, <3>1 DEF AtANode
  <2> QED
    BY <1>4, <2>1, <2>2, <2>3 DEF TimePasses
<1>5. CASE SweepFinds
  <2>1. [why |-> "sweep", node |-> node, nth |-> 0] \in Key
    BY DEF Key
  <2>2. [by |-> "sweep", key |-> [why |-> "sweep", node |-> node, nth |-> 0], node |-> node,
         steps |-> 0, due |-> "now", ok |-> TRUE, pc |-> "enqueueSweep"] \in Task
    BY <2>1 DEF Task
  <2>3. \E q \in Task : tasks' = tasks \cup {q} /\ q.pc = "enqueueSweep"
    BY <1>5, <2>2 DEF SweepFinds
  <2>4. tasks' \subseteq Task /\ AtANode'
    BY <2>3 DEF AtANode
  <2> QED
    BY <1>5, <2>4 DEF SweepFinds
<1>6. CASE ClaimAges \/ Ends \/ Crash
  BY <1>6 DEF ClaimAges, Ends, Crash, AtANode
<1>7. CASE Resolves
  <2>1. resolved' \in BOOLEAN
    BY <1>7, Zenon DEF Resolves
  <2> QED
    BY <1>7, <2>1 DEF Resolves, AtANode
<1>8. CASE UNCHANGED vars
  BY <1>8 DEF vars, AtANode
<1> QED
  BY <1>1, <1>2, <1>3, <1>4, <1>5, <1>6, <1>7, <1>8 DEF Next

(* automation-engine.ts: every reachable state is well typed, for any      *)
(* workflow.                                                               *)
THEOREM TypeCorrect == Spec => []TypeOK
<1>1. TypeInv => TypeOK
  BY DEF TypeInv
<1> QED
  BY <1>1, InitTyped, StepTyped, PTL DEF Spec
-----------------------------------------------------------------------------
(* What lies behind the client, and behind whoever is at work.             *)

IsDone(n) == ran[n] > 0 \/ n \in skipped
BehindIsDone(k) == \A n \in Nodes : k = End \/ n < k => IsDone(n)

(* A task that holds the claim, or is to skip, read the node when all      *)
(* before it had been done; what is done stays so.                         *)
Stands(t) ==
  /\ Holding(t) => claim = "fresh"
  /\ Holding(t) \/ t.pc = "skip" => BehindIsDone(t.node)
  /\ t.pc \in {"advance", "enqueue"} /\ t.node # End => IsDone(t.node)

SentWasRun == \A n \in sent : ran[n] > 0

OrderInv ==
  /\ TypeInv /\ OneStepAtATime
  /\ \A t \in tasks : Stands(t)
  /\ SentWasRun
  /\ BehindIsDone(node)
  /\ status = "completed" => BehindIsDone(End)

(* What has been done stays done.                                          *)
NothingUndone == \A n \in Nodes : IsDone(n) => IsDone(n)'

LEMMA BehindStaysDone ==
  ASSUME NothingUndone, NEW k, BehindIsDone(k)
  PROVE  \A n \in Nodes : k = End \/ n < k => IsDone(n)'
BY DEF NothingUndone, BehindIsDone

LEMMA OneGoesOn ==
  ASSUME OrderInv, TypeInv', NEW t \in tasks, NothingUndone,
         \/ tasks' = tasks \ {t}
         \/ \E q \in Task : /\ tasks' = (tasks \ {t}) \cup {q} /\ Stands(q)'
                            /\ Holding(q) => Holding(t) \/ \A u \in tasks : ~Holding(u),
         claim' \in {"fresh", claim} \/ \A u \in tasks \ {t} : ~Holding(u),
         SentWasRun', BehindIsDone(node)',
         status' = "completed" => BehindIsDone(End)'
  PROVE  OrderInv'
<1>1. ASSUME NEW u \in tasks \ {t} PROVE Stands(u)'
  <2>1. Stands(u) /\ u.node \in Nodes \cup {End}
    BY DEF OrderInv, TypeInv, TypeOK, Task
  <2>2. Holding(u) => claim' = "fresh"
    BY <2>1 DEF Stands
  <2>3. BehindIsDone(u.node) => BehindIsDone(u.node)'
    BY BehindStaysDone DEF BehindIsDone
  <2>4. u.node # End => (IsDone(u.node) => IsDone(u.node)')
    BY <2>1 DEF NothingUndone
  <2> QED
    BY <2>1, <2>2, <2>3, <2>4 DEF Stands
<1>2. CASE tasks' = tasks \ {t}
  BY <1>1, <1>2 DEF OrderInv, OneStepAtATime
<1>3. ASSUME NEW q \in Task, tasks' = (tasks \ {t}) \cup {q}, Stands(q)',
             Holding(q) => Holding(t) \/ \A u \in tasks : ~Holding(u)
      PROVE  OrderInv'
  <2>1. \A u \in tasks' : Stands(u)'
    BY <1>1, <1>3, Zenon
  <2>2. Holding(t) => \A u \in tasks \ {t} : ~Holding(u)
    BY DEF OrderInv, OneStepAtATime
  <2>3. OneStepAtATime'
    <3> SUFFICES ASSUME NEW u \in tasks', NEW v \in tasks', Holding(u), Holding(v)
                 PROVE  u = v
      BY DEF OneStepAtATime, Holding
    <3> QED
      BY <1>3, <2>2 DEF OrderInv, OneStepAtATime
  <2> QED
    BY <2>1, <2>3 DEF OrderInv
<1> QED
  BY <1>2, <1>3
(* The same of a step that leaves the client's place and file alone.       *)
HoldingPlaces == {"facts", "stop", "effect", "advance", "enqueue", "release"}

LEMMA UndoneByQuiet ==
  ASSUME ran' = ran, skipped' = skipped
  PROVE  NothingUndone
BY DEF NothingUndone, IsDone

LEMMA GoesOn ==
  ASSUME OrderInv, TypeInv', NEW t \in tasks, NEW pc, Goes(t, pc), NothingUndone,
         pc \in HoldingPlaces => Holding(t) /\ claim' = claim,
         claim' \in {"fresh", claim} \/ Holding(t),
         pc \in {"advance", "enqueue"} /\ t.node # End => IsDone(t.node)',
         pc # "skip",
         SentWasRun', BehindIsDone(node)',
         status' = "completed" => BehindIsDone(End)'
  PROVE  OrderInv'
<1>1. Stands(t)
  BY DEF OrderInv
<1>2. PICK q \in Task : /\ tasks' = (tasks \ {t}) \cup {q}
                        /\ q.node = t.node /\ q.by = t.by /\ q.key = t.key /\ q.pc = pc
  BY DEF Goes
<1>3. Holding(q) => pc \in HoldingPlaces
  BY <1>2 DEF Holding, HoldingPlaces
<1>4. Stands(q)'
  <2>1. BehindIsDone(t.node) => BehindIsDone(t.node)'
    BY BehindStaysDone DEF BehindIsDone
  <2>2. Holding(q) => claim' = "fresh" /\ BehindIsDone(q.node)'
    BY <1>1, <1>2, <1>3, <2>1 DEF Stands
  <2>3. q.pc \in {"advance", "enqueue"} /\ q.node # End => IsDone(q.node)'
    BY <1>2
  <2> QED
    BY <1>2, <2>2, <2>3 DEF Stands, Holding
<1>5. Holding(t) => \A u \in tasks \ {t} : ~Holding(u)
  BY DEF OrderInv, OneStepAtATime
<1> QED
  BY <1>2, <1>3, <1>4, <1>5, OneGoesOn

LEMMA GoesOnQuietly ==
  ASSUME OrderInv, TypeInv', NEW t \in tasks, NEW pc, Goes(t, pc),
         UNCHANGED <<node, claim, ran, skipped, sent>>,
         pc \in HoldingPlaces => Holding(t),
         pc \in {"advance", "enqueue"} /\ t.node # End => IsDone(t.node),
         pc # "skip",
         status' = "completed" => status = "completed"
  PROVE  OrderInv'
<1>1. NothingUndone
  BY UndoneByQuiet
<1>2. SentWasRun' /\ BehindIsDone(node)' /\ (status' = "completed" => BehindIsDone(End)')
  BY DEF OrderInv, SentWasRun, BehindIsDone, IsDone
<1>3. pc \in {"advance", "enqueue"} /\ t.node # End => IsDone(t.node)'
  BY DEF IsDone
<1> QED
  BY <1>1, <1>2, <1>3, GoesOn

(* A step that does not change who holds the claim, nor where the client   *)
(* is, nor what has been done.                                             *)
LEMMA EndsQuietly ==
  ASSUME OrderInv, TypeInv', NEW t \in tasks, Done(t),
         UNCHANGED <<node, claim, ran, skipped, sent>>,
         status' = "completed" => status = "completed"
  PROVE  OrderInv'
<1>1. NothingUndone
  BY UndoneByQuiet
<1>2. SentWasRun' /\ BehindIsDone(node)' /\ (status' = "completed" => BehindIsDone(End)')
  BY DEF OrderInv, SentWasRun, BehindIsDone, IsDone
<1> QED
  BY <1>1, <1>2, OneGoesOn DEF Done

LEMMA ClaimHolds ==
  ASSUME OrderInv, TypeInv', NEW t \in tasks, ClaimStep(t)
  PROVE  OrderInv'
<1>0. t \in Task /\ tasks \subseteq Task /\ node \in Nodes \cup {End} /\ steps \in Nat
  BY DEF OrderInv, TypeInv, TypeOK
<1>1. NothingUndone
  BY UndoneByQuiet DEF ClaimStep, file
<1>2. SentWasRun' /\ BehindIsDone(node)' /\ (status' = "completed" => BehindIsDone(End)')
  BY DEF OrderInv, SentWasRun, BehindIsDone, IsDone, ClaimStep, file
<1>3. CASE Claimable
  <2>1. PICK q \in Task : /\ tasks' = (tasks \ {t}) \cup {q}
                          /\ q.pc = "facts" /\ \A n \in {node} : q.node = n
    <3>1. /\ [t EXCEPT !.node = node, !.steps = steps, !.pc = "facts"] \in Task
          /\ [t EXCEPT !.node = node, !.steps = steps, !.pc = "facts"].pc = "facts"
          /\ [t EXCEPT !.node = node, !.steps = steps, !.pc = "facts"].node = node
      BY <1>0 DEF Task
    <3> QED
      BY <1>3, <3>1 DEF ClaimStep
  <2>2. \A u \in tasks : ~Holding(u)
    BY <1>3 DEF OrderInv, Stands, Claimable
  <2>3. claim' = "fresh" /\ node' = node
    BY <1>3 DEF ClaimStep
  <2>4. BehindIsDone(q.node)'
    BY <1>2, <2>1, <2>3 DEF BehindIsDone
  <2>5. Stands(q)'
    BY <2>1, <2>3, <2>4 DEF Stands
  <2> QED
    BY <1>1, <1>2, <2>1, <2>2, <2>3, <2>5, OneGoesOn
<1>4. CASE ~Claimable
  <2>1. Goes(t, "settle")
    BY <1>0, <1>4, GotoGoes DEF ClaimStep, Places
  <2> QED
    BY <1>4, <2>1, GoesOnQuietly DEF ClaimStep, file, HoldingPlaces
<1> QED
  BY <1>3, <1>4

LEMMA ReadFactsHolds ==
  ASSUME OrderInv, TypeInv', NEW t \in tasks, ReadFacts(t)
  PROVE  OrderInv'
<1>1. PICK pc \in {"stop", "advance", "effect"} :
        Goto(t, pc) /\ (pc = "advance" => t.node = End)
  BY DEF ReadFacts
<1>2. Goes(t, pc)
  BY <1>1, GotoGoes DEF OrderInv, TypeInv, TypeOK, Places
<1> QED
  BY <1>1, <1>2, GoesOnQuietly DEF ReadFacts, file, Holding

LEMMA StopEnrollmentHolds ==
  ASSUME OrderInv, TypeInv', NEW t \in tasks, StopEnrollment(t)
  PROVE  OrderInv'
<1>1. Goes(t, "release")
  BY GotoGoes DEF StopEnrollment, OrderInv, TypeInv, TypeOK, Places
<1> QED
  BY <1>1, GoesOnQuietly DEF StopEnrollment, file, Holding

LEMMA CarryOutHolds ==
  ASSUME OrderInv, TypeInv', NEW t \in tasks, CarryOut(t)
  PROVE  OrderInv'
<1>0. /\ t.node \in Nodes /\ ran \in [Nodes -> Nat] /\ sent \subseteq Nodes /\ t \in Task
      /\ Holding(t) /\ skipped' = skipped /\ node' = node /\ claim' = claim /\ status' = status
  BY DEF OrderInv, TypeInv, TypeOK, AtANode, CarryOut, Holding
<1>1. /\ \A n \in Nodes : ran'[n] >= ran[n]
      /\ ran'[t.node] = ran[t.node] \/ ran'[t.node] = ran[t.node] + 1
      /\ (t.node \in sent /\ Workflow[t.node] = "send") \/ ran'[t.node] = ran[t.node] + 1
  <2>1. \/ /\ t.node \in sent /\ Workflow[t.node] = "send"
           /\ ran' = [ran EXCEPT ![t.node] = ran[t.node]]
        \/ ran' = [ran EXCEPT ![t.node] = ran[t.node] + 1]
    BY DEF CarryOut
  <2> QED
    BY <1>0, <2>1
<1>2. ran'[t.node] > 0
  BY <1>0, <1>1 DEF OrderInv, SentWasRun
<1>9. \A n \in Nodes : ran[n] \in Nat /\ ran'[n] \in Nat
  BY <1>0 DEF TypeInv, TypeOK
<1>3. NothingUndone
  BY <1>0, <1>1, <1>9 DEF NothingUndone, IsDone
<1>4. SentWasRun'
  <2>1. sent' \subseteq sent \cup {t.node}
    BY DEF CarryOut
  <2> QED
    BY <1>0, <1>1, <1>2, <1>9, <2>1 DEF OrderInv, SentWasRun
<1>5. BehindIsDone(node)' /\ (status' = "completed" => BehindIsDone(End)')
  <2>1. BehindIsDone(node) => BehindIsDone(node)'
    BY <1>0, <1>3, BehindStaysDone DEF BehindIsDone
  <2>2. BehindIsDone(End) => BehindIsDone(End)'
    BY <1>3 DEF BehindIsDone, NothingUndone
  <2> QED
    BY <1>0, <2>1, <2>2 DEF OrderInv
<1>6. IsDone(t.node)'
  BY <1>2 DEF IsDone
<1>7. Goes(t, "release") \/ Goes(t, "advance")
  <2>1. \/ tasks' = (tasks \ {t}) \cup {[t EXCEPT !.ok = FALSE, !.pc = "release"]}
        \/ Goto(t, "advance")
    BY DEF CarryOut, Goto
  <2> QED
    BY <2>1, ThrowGoes, GotoGoes DEF OrderInv, TypeInv, TypeOK, Places
<1> QED
  BY <1>0, <1>3, <1>4, <1>5, <1>6, <1>7, GoesOn

LEMMA AdvanceHolds ==
  ASSUME OrderInv, TypeInv', NEW t \in tasks, Advance(t)
  PROVE  OrderInv'
<1>0. t \in Task /\ Stands(t) /\ Holding(t) /\ t.node \in Nodes
  BY DEF OrderInv, TypeInv, TypeOK, Task, Advance, Holding, Over
<1>1. Goes(t, "enqueue")
  BY GotoGoes DEF Advance, OrderInv, TypeInv, TypeOK, Places
<1>2. NothingUndone
  BY UndoneByQuiet DEF Advance, file
<1>3. IsDone(t.node) /\ BehindIsDone(t.node)
  BY <1>0, WorkflowHasNodes DEF Stands, Advance
<1>4. BehindIsDone(node)'
  <2> SUFFICES ASSUME NEW n \in Nodes, node' = End \/ n < node' PROVE IsDone(n)'
    BY DEF BehindIsDone
  <2>1. n = t.node \/ n < t.node
    BY <1>0, BeforeFollowing DEF Advance
  <2> QED
    BY <1>0, <1>2, <1>3, <2>1 DEF BehindIsDone, NothingUndone
<1>5. SentWasRun' /\ (status' = "completed" => BehindIsDone(End)')
  BY DEF OrderInv, SentWasRun, BehindIsDone, IsDone, Advance, file
<1>6. IsDone(t.node)' /\ claim' = claim
  BY <1>0, <1>2, <1>3 DEF NothingUndone, Advance
<1> QED
  BY <1>0, <1>1, <1>2, <1>4, <1>5, <1>6, GoesOn

LEMMA CompleteHolds ==
  ASSUME OrderInv, TypeInv', NEW t \in tasks, Complete(t)
  PROVE  OrderInv'
<1>0. t \in Task /\ Stands(t) /\ Holding(t) /\ t.node \in Nodes \cup {End}
  BY DEF OrderInv, TypeInv, TypeOK, Task, Complete, Holding
<1>1. Goes(t, "release")
  BY GotoGoes DEF Complete, OrderInv, TypeInv, TypeOK, Places
<1>2. NothingUndone
  BY UndoneByQuiet DEF Complete, file
<1>3. BehindIsDone(End)'
  <2> SUFFICES ASSUME NEW n \in Nodes PROVE IsDone(n)
    BY <1>2 DEF BehindIsDone, NothingUndone
  <2>1. BehindIsDone(t.node) /\ (t.node # End => IsDone(t.node))
    BY <1>0 DEF Stands, Complete
  <2>2. CASE t.node = End
    BY <2>1, <2>2 DEF BehindIsDone
  <2>3. CASE t.node # End
    <3>1. n = t.node \/ n < t.node
      BY <1>0, <2>3, BeforeFollowing DEF Complete, Over
    <3> QED
      BY <2>1, <2>3, <3>1 DEF BehindIsDone
  <2> QED
    BY <2>2, <2>3
<1>4. SentWasRun' /\ BehindIsDone(node)' /\ claim' = claim
  BY DEF OrderInv, SentWasRun, BehindIsDone, IsDone, Complete, file
<1> QED
  BY <1>0, <1>1, <1>2, <1>3, <1>4, GoesOn

LEMMA SkipHolds ==
  ASSUME OrderInv, TypeInv', NEW t \in tasks, Skip(t)
  PROVE  OrderInv'
<1>0. /\ t \in Task /\ Stands(t) /\ t.node \in Nodes /\ ran' = ran /\ sent' = sent
      /\ skipped' = skipped \cup {t.node} /\ claim' = claim /\ node' = Following(t.node)
  BY DEF OrderInv, TypeInv, AtANode, TypeOK, Skip
<1>1. NothingUndone
  BY <1>0 DEF NothingUndone, IsDone
<1>2. \A n \in Nodes : node' = End \/ n < node' => IsDone(n)'
  <2> SUFFICES ASSUME NEW n \in Nodes, node' = End \/ n < node' PROVE IsDone(n)'
    OBVIOUS
  <2>1. n = t.node \/ n < t.node
    BY <1>0, BeforeFollowing
  <2>2. BehindIsDone(t.node)
    BY <1>0 DEF Stands, Skip
  <2>3. n < t.node => IsDone(n)'
    BY <1>1, <2>2 DEF BehindIsDone, NothingUndone
  <2>4. IsDone(t.node)'
    BY <1>0 DEF IsDone
  <2> QED
    BY <2>1, <2>3, <2>4
<1>3. SentWasRun'
  BY <1>0 DEF OrderInv, SentWasRun
<1>4. BehindIsDone(node)'
  BY <1>2 DEF BehindIsDone
<1>5. status' = "completed" => BehindIsDone(End)'
  <2>1. CASE Following(t.node) = End
    BY <1>0, <1>2, <2>1 DEF BehindIsDone
  <2>2. CASE Following(t.node) # End
    BY <1>1, <2>2 DEF Skip, OrderInv, BehindIsDone, NothingUndone
  <2> QED
    BY <2>1, <2>2
<1>6. CASE Following(t.node) = End
  BY <1>0, <1>1, <1>3, <1>4, <1>5, <1>6, OneGoesOn DEF Skip, Done
<1>7. CASE Following(t.node) # End
  <2>1. Goes(t, "enqueueSkip")
    BY <1>7, GotoGoes DEF Skip, OrderInv, TypeInv, TypeOK, Places
  <2> QED
    BY <1>0, <1>1, <1>3, <1>4, <1>5, <2>1, GoesOn DEF HoldingPlaces
<1> QED
  BY <1>6, <1>7

LEMMA ReleaseHolds ==
  ASSUME OrderInv, TypeInv', NEW t \in tasks, Release(t)
  PROVE  OrderInv'
<1>1. Goes(t, "settle") /\ Holding(t)
  BY GotoGoes DEF Release, OrderInv, TypeInv, TypeOK, Places, Holding
<1>2. NothingUndone
  BY UndoneByQuiet DEF Release, file
<1>3. SentWasRun' /\ BehindIsDone(node)' /\ (status' = "completed" => BehindIsDone(End)')
  BY DEF OrderInv, SentWasRun, BehindIsDone, IsDone, Release, file
<1> QED
  BY <1>1, <1>2, <1>3, GoesOn DEF HoldingPlaces

LEMMA EnqueueNextHolds ==
  ASSUME OrderInv, TypeInv', NEW t \in tasks, EnqueueNext(t)
  PROVE  OrderInv'
<1>1. Goes(t, "release")
  BY GotoGoes DEF EnqueueNext, OrderInv, TypeInv, TypeOK, Places
<1> QED
  BY <1>1, GoesOnQuietly DEF EnqueueNext, file, Holding

LEMMA ThrowsHolds ==
  ASSUME OrderInv, TypeInv', NEW t \in tasks, StatementThrows(t)
  PROVE  OrderInv'
<1>1. \/ Holding(t) /\ Goes(t, "release")
      \/ Goes(t, "settle")
  BY ThrowGoes DEF StatementThrows, OrderInv, TypeInv, TypeOK, Places, Holding
<1> QED
  BY <1>1, GoesOnQuietly DEF StatementThrows, file, HoldingPlaces

LEMMA OtherTasksHold ==
  ASSUME OrderInv, TypeInv', NEW t \in tasks,
         Settle(t) \/ SweepEnqueues(t) \/ Pause(t) \/ Resume(t) \/ EnqueueControl(t)
  PROVE  OrderInv'
<1>1. CASE Resume(t)
  <2>1. Goes(t, "enqueueResume")
    BY <1>1, GotoGoes DEF Resume, OrderInv, TypeInv, TypeOK, Places
  <2> QED
    BY <1>1, <2>1, GoesOnQuietly DEF Resume, file, HoldingPlaces
<1>2. CASE ~Resume(t)
  BY <1>2, EndsQuietly DEF Settle, SweepEnqueues, Pause, EnqueueControl, file
<1> QED
  BY <1>1, <1>2
-----------------------------------------------------------------------------
(* Steps that are not one task's.                                          *)

(* Tasks only come, none of them holding the claim, or go.                 *)
LEMMA OthersHold ==
  ASSUME OrderInv, TypeInv', UNCHANGED <<node, ran, skipped, sent>>,
         claim' = claim \/ \A u \in tasks : ~Holding(u),
         status' = "completed" => status = "completed",
         \A q \in tasks' \ tasks :
           ~Holding(q) /\ (q.pc = "skip" => q.node = node)
  PROVE  OrderInv'
<1>1. NothingUndone
  BY UndoneByQuiet
<1>2. SentWasRun' /\ BehindIsDone(node)' /\ (status' = "completed" => BehindIsDone(End)')
  BY DEF OrderInv, SentWasRun, BehindIsDone, IsDone
<1>3. ASSUME NEW u \in tasks' PROVE Stands(u)'
  <2>1. CASE u \in tasks
    BY <2>1 DEF OrderInv, Stands, BehindIsDone, IsDone
  <2>2. CASE u \notin tasks
    <3>1. ~Holding(u) /\ (u.pc = "skip" => u.node = node)
      BY <2>2
    <3>2. u.pc \notin {"advance", "enqueue"}
      BY <3>1 DEF Holding
    <3>3. u.pc = "skip" => BehindIsDone(u.node)'
      BY <1>2, <3>1 DEF BehindIsDone
    <3> QED
      BY <3>1, <3>2, <3>3 DEF Stands, Holding
  <2> QED
    BY <2>1, <2>2
<1>4. OneStepAtATime'
  <2>1. \A u \in tasks' : Holding(u) => u \in tasks
    OBVIOUS
  <2> QED
    BY <2>1 DEF OrderInv, OneStepAtATime, Holding
<1> QED
  BY <1>2, <1>3, <1>4 DEF OrderInv

LEMMA TimePassesHolds ==
  ASSUME OrderInv, TypeInv', TimePasses
  PROVE  OrderInv'
<1>0. tasks \subseteq Task /\ UNCHANGED <<node, claim, ran, skipped, sent, status>>
  BY DEF TimePasses, file, OrderInv, TypeInv, TypeOK
<1>1. \A u \in tasks' : \E t \in tasks : /\ u = [t EXCEPT !.due = "now"]
                                         /\ u.pc = t.pc /\ u.node = t.node
  <2>1. \A t \in tasks : /\ [t EXCEPT !.due = "now"].pc = t.pc
                         /\ [t EXCEPT !.due = "now"].node = t.node
    BY <1>0 DEF Task
  <2> QED
    BY <2>1 DEF TimePasses
<1>2. ASSUME NEW u \in tasks' PROVE Stands(u)'
  <2>1. PICK t \in tasks : u.pc = t.pc /\ u.node = t.node
    BY <1>1
  <2> QED
    BY <1>0, <2>1 DEF OrderInv, Stands, Holding, BehindIsDone, IsDone
<1>3. OneStepAtATime'
  <2> SUFFICES ASSUME NEW u \in tasks', NEW v \in tasks', Holding(u), Holding(v)
               PROVE  u = v
    BY DEF OneStepAtATime, Holding
  <2>1. PICK t \in tasks : u = [t EXCEPT !.due = "now"] /\ u.pc = t.pc
    BY <1>1
  <2>2. PICK w \in tasks : v = [w EXCEPT !.due = "now"] /\ v.pc = w.pc
    BY <1>1
  <2>3. t = w
    BY <2>1, <2>2 DEF OrderInv, OneStepAtATime, Holding
  <2> QED
    BY <2>1, <2>2, <2>3
<1> QED
  BY <1>0, <1>2, <1>3 DEF OrderInv, SentWasRun, BehindIsDone, IsDone

LEMMA OrderStep ==
  ASSUME ~Overruns, OrderInv, [Next]_vars
  PROVE  OrderInv'
<1>0. TypeInv'
  BY StepTyped DEF OrderInv
<1>1. ASSUME NEW j \in jobs, StartJob(j) PROVE OrderInv'
  <2>1. \A q \in tasks' \ tasks : q.pc = "claim"
    BY <1>1 DEF StartJob
  <2> QED
    BY <1>0, <1>1, <2>1, OthersHold DEF StartJob, file, Holding
<1>2. ASSUME NEW j \in jobs, Reclaim(j) PROVE OrderInv'
  BY <1>0, <1>2, OthersHold DEF Reclaim, file
<1>3. ASSUME NEW t \in tasks, TaskStep(t) PROVE OrderInv'
  BY <1>0, <1>3, ClaimHolds, ReadFactsHolds, StopEnrollmentHolds, CarryOutHolds,
    AdvanceHolds,
     CompleteHolds, EnqueueNextHolds, ReleaseHolds, SkipHolds, OtherTasksHold DEF TaskStep
<1>4. ASSUME NEW t \in tasks, StatementThrows(t) PROVE OrderInv'
  BY <1>0, <1>4, ThrowsHolds
<1>5. ASSUME NEW action \in Controls, Ask(action) PROVE OrderInv'
  <2>1. \A q \in tasks' \ tasks :
          /\ q.node = node
          /\ q.pc = IF action = "run" THEN "claim" ELSE action
    BY <1>5 DEF Ask
  <2>2. action \in {"pause", "resume", "skip", "run"}
    BY <1>5, EnrollmentAssumption DEF Ask
  <2> QED
    BY <1>0, <1>5, <2>1, <2>2, OthersHold DEF Ask, file, Holding
<1>6. CASE TimePasses
  BY <1>0, <1>6, TimePassesHolds
<1>7. CASE ClaimAges
  BY <1>0, <1>7, OthersHold DEF ClaimAges, file
<1>8. CASE SweepFinds
  <2>1. \A q \in tasks' \ tasks : q.pc = "enqueueSweep"
    BY <1>8 DEF SweepFinds
  <2> QED
    BY <1>0, <1>8, <2>1, OthersHold DEF SweepFinds, file, Holding
<1>9. CASE Ends \/ Resolves
  BY <1>0, <1>9, OthersHold DEF Ends, Resolves, file
<1>10. CASE Crash
  BY <1>0, <1>10, OthersHold DEF Crash, file
<1>11. CASE UNCHANGED vars
  BY <1>0, <1>11, OthersHold DEF vars
<1> QED
  BY <1>1, <1>2, <1>3, <1>4, <1>5, <1>6, <1>7, <1>8, <1>9, <1>10, <1>11 DEF Next

LEMMA OrderInit == Init => OrderInv
<1> SUFFICES ASSUME Init PROVE OrderInv
  OBVIOUS
<1>1. BehindIsDone(node)
  BY WorkflowHasNodes DEF Init, BehindIsDone, Nodes, End
<1> QED
  BY <1>1, InitTyped DEF Init, OrderInv, OneStepAtATime, SentWasRun

LEMMA OrderHolds ==
  ASSUME ~Overruns PROVE Spec => []OrderInv
BY OrderInit, OrderStep, PTL DEF Spec

(* automation-engine.ts:440: while no step outlives its claim, one step at *)
(* a time is run on an enrollment, and whatever lies behind the client was *)
(* carried out or skipped by hand, whatever jobs, hands and exits do.      *)
THEOREM StepsComeInOrder ==
  ASSUME ~Overruns PROVE Spec => []StepsInOrder
<1>1. OrderInv => StepsInOrder
  BY DEF OrderInv, StepsInOrder, NothingSteppedOver, BehindIsDone, IsDone
<1> QED
  BY <1>1, OrderHolds, PTL
-----------------------------------------------------------------------------
(* Stops.                                                                  *)

(* What has ended, by a stop or at its end, is not taken up again.  The    *)
(* code does not ensure it: pause and resume write over the status they    *)
(* read (EndedStaysEnded).                                                 *)
EndsAreFinal == [][Finished => Finished']_vars

(* Whoever may still carry out a node without another look at the stop     *)
(* condition.                                                              *)
MayCarryOut(t) == t.pc = "effect" \/ (t.pc = "facts" /\ ~resolved)

(* One node was carried out late, and nobody is left to carry out another. *)
Heeded ==
  /\ late \in {0, 1}
  /\ late = 1 => (resolved \/ Finished) /\ \A t \in tasks : ~MayCarryOut(t)

LEMMA HeedKept ==
  ASSUME Heeded, late' = late, resolved => resolved', Finished => Finished',
         late = 1 => \A u \in tasks' : u \in tasks \/ ~MayCarryOut(u)'
  PROVE  Heeded'
<1>1. \A u : ~MayCarryOut(u) => ~MayCarryOut(u)'
  BY Zenon DEF MayCarryOut
<1>2. late = 1 => resolved' \/ Finished'
  BY Zenon DEF Heeded
<1>3. late = 1 => \A u \in tasks' : ~MayCarryOut(u)'
  BY <1>1, Zenon DEF Heeded
<1> QED
  BY <1>2, <1>3, Zenon DEF Heeded

LEMMA GoesHeeded ==
  ASSUME Heeded, late' = late, resolved' = resolved, Finished => Finished',
         NEW t, NEW pc, Goes(t, pc), pc \notin {"effect", "facts"}
  PROVE  Heeded'
<1>1. \A u \in tasks' : u \in tasks \/ u.pc = pc
  BY DEF Goes
<1>2. \A u \in tasks' : u \in tasks \/ ~MayCarryOut(u)'
  BY <1>1 DEF MayCarryOut
<1>3. resolved => resolved'
  OBVIOUS
<1> QED
  BY <1>2, <1>3, HeedKept

LEMMA CarryOutHeeded ==
  ASSUME OrderInv, Heeded, NEW t \in tasks, CarryOut(t)
  PROVE  Heeded'
<1>0. /\ t \in Task /\ Holding(t) /\ MayCarryOut(t) /\ status' = status
      /\ \A u \in tasks \ {t} : ~Holding(u)
  BY DEF OrderInv, TypeInv, TypeOK, CarryOut, Holding, MayCarryOut, OneStepAtATime
<1>1. late = 0 /\ resolved' = resolved
  BY <1>0, Zenon DEF Heeded, CarryOut
<1>2. \/ late' = 0
      \/ late' = 1 /\ (resolved \/ status = "stopped")
  <2>1. \/ late' = late
        \/ late' = late + 1 /\ (resolved \/ status = "stopped")
    BY Zenon DEF CarryOut
  <2> QED
    BY <1>1, <2>1
<1>3. \A u \in tasks' : ~MayCarryOut(u)'
  <2> SUFFICES ASSUME NEW u \in tasks' PROVE u.pc \notin {"effect", "facts"}
    BY DEF MayCarryOut
  <2>1. PICK q \in {[t EXCEPT !.ok = FALSE, !.pc = "release"], [t EXCEPT !.pc = "advance"]} :
          tasks' = (tasks \ {t}) \cup {q}
    BY DEF CarryOut
  <2>2. q.pc \in {"release", "advance"}
    BY <1>0, <2>1 DEF Task
  <2> QED
    BY <1>0, <2>1, <2>2 DEF Holding
<1>4. late' = 1 => resolved' \/ Finished'
  <2>1. late' = 1 => resolved \/ status = "stopped"
    BY <1>2
  <2>2. status = "stopped" => Finished'
    BY <1>0 DEF Finished
  <2> QED
    BY <1>1, <2>1, <2>2, Zenon
<1>5. late' \in {0, 1}
  BY <1>2
<1> QED
  BY <1>3, <1>4, <1>5, Zenon DEF Heeded

LEMMA ClaimHeeded ==
  ASSUME OrderInv, Heeded, NEW t \in tasks, ClaimStep(t)
  PROVE  Heeded'
<1>0. /\ t \in Task /\ tasks \subseteq Task
      /\ late' = late /\ resolved' = resolved /\ status' = status
  BY DEF OrderInv, TypeInv, TypeOK, ClaimStep, file
<1>1. CASE Claimable
  <2>1. ~Finished
    BY <1>1 DEF Claimable, Finished
  <2>2. late = 1 => resolved
    BY <2>1, Zenon DEF Heeded
  <2>3. \A u \in tasks' : u \in tasks \/ u.pc = "facts"
    <3>1. [t EXCEPT !.node = node, !.steps = steps, !.pc = "facts"].pc = "facts"
      BY <1>0 DEF Task
    <3> QED
      BY <1>1, <3>1 DEF ClaimStep
  <2>4. resolved' => \A u \in tasks' : u \in tasks \/ ~MayCarryOut(u)'
    BY <2>3 DEF MayCarryOut
  <2>5. late = 1 => \A u \in tasks' : u \in tasks \/ ~MayCarryOut(u)'
    BY <1>0, <2>2, <2>4, Zenon
  <2>6. resolved => resolved'
    BY <1>0
  <2>7. Finished => Finished'
    BY <1>0 DEF Finished
  <2> QED
    BY <1>0, <2>5, <2>6, <2>7, HeedKept
<1>2. CASE ~Claimable
  <2>1. Goes(t, "settle")
    BY <1>0, <1>2, GotoGoes DEF ClaimStep, Places
  <2>2. Finished => Finished'
    BY <1>0 DEF Finished
  <2> QED
    BY <1>0, <2>1, <2>2, GoesHeeded
<1> QED
  BY <1>1, <1>2

LEMMA ReadFactsHeeded ==
  ASSUME OrderInv, Heeded, NEW t \in tasks, ReadFacts(t)
  PROVE  Heeded'
<1>0. /\ tasks \subseteq Task /\ late' = late /\ resolved' = resolved /\ status' = status
  BY DEF OrderInv, TypeInv, TypeOK, ReadFacts, file
<1>1. Finished => Finished'
  BY <1>0 DEF Finished
<1>2. CASE Goto(t, "effect") /\ ~resolved
  <2>1. MayCarryOut(t)
    BY <1>2, Zenon DEF MayCarryOut, ReadFacts
  <2>2. late = 0
    BY <2>1, Zenon DEF Heeded
  <2>3. late' = 0
    BY <1>0, <2>2
  <2> QED
    BY <2>3 DEF Heeded
<1>3. ASSUME NEW pc \in {"stop", "advance"}, Goto(t, pc) PROVE Heeded'
  <2>1. Goes(t, pc)
    BY <1>0, <1>3, GotoGoes DEF Places
  <2> QED
    BY <1>0, <1>1, <2>1, GoesHeeded
<1>4. \/ Goto(t, "effect") /\ ~resolved
      \/ Goto(t, "stop") \/ Goto(t, "advance")
  BY Zenon DEF ReadFacts
<1> QED
  BY <1>2, <1>3, <1>4

LEMMA TaskStepHeeded ==
  ASSUME OrderInv, Heeded, NEW t \in tasks, TaskStep(t) \/ StatementThrows(t),
         Finished => Finished'
  PROVE  Heeded'
<1>0. tasks \subseteq Task
  BY DEF OrderInv, TypeInv, TypeOK
<1>1. ASSUME NEW pc \in Places \ {"effect", "facts"}, Goto(t, pc), late' = late,
             resolved' = resolved
      PROVE  Heeded'
  BY <1>0, <1>1, GotoGoes, GoesHeeded
<1>2. ASSUME Done(t), late' = late, resolved' = resolved PROVE Heeded'
  <2>1. \A u \in tasks' : u \in tasks
    BY <1>2 DEF Done
  <2>2. resolved => resolved'
    BY <1>2
  <2> QED
    BY <1>2, <2>1, <2>2, HeedKept
<1>3. CASE StopEnrollment(t) \/ Advance(t) \/ Complete(t) \/ EnqueueNext(t) \/ Release(t)
           \/ Resume(t)
  BY <1>1, <1>3 DEF StopEnrollment, Advance, Complete, EnqueueNext, Release, Resume,
    Places, file
<1>4. CASE Settle(t) \/ SweepEnqueues(t) \/ Pause(t) \/ EnqueueControl(t)
  BY <1>2, <1>4 DEF Settle, SweepEnqueues, Pause, EnqueueControl, file
<1>5. CASE Skip(t)
  BY <1>1, <1>2, <1>5 DEF Skip, Places
<1>6. CASE StatementThrows(t)
  <2>1. PICK pc \in {"release", "settle"} : Goes(t, pc)
    BY <1>0, <1>6, ThrowGoes DEF StatementThrows, Places
  <2> QED
    BY <1>6, <2>1, GoesHeeded DEF StatementThrows, file
<1> QED
  BY <1>3, <1>4, <1>5, <1>6, ClaimHeeded, ReadFactsHeeded, CarryOutHeeded DEF TaskStep

LEMMA HeedStep ==
  ASSUME OrderInv, Heeded, [Next]_vars, Finished => Finished'
  PROVE  Heeded'
<1>0. tasks \subseteq Task
  BY DEF OrderInv, TypeInv, TypeOK
<1>1. ASSUME late' = late, resolved' = resolved,
             \A u \in tasks' : u \in tasks \/ u.pc \notin {"effect", "facts"}
      PROVE  Heeded'
  <2>1. \A u \in tasks' : u \in tasks \/ ~MayCarryOut(u)'
    BY <1>1 DEF MayCarryOut
  <2>2. resolved => resolved'
    BY <1>1
  <2> QED
    BY <1>1, <2>1, <2>2, HeedKept
<1>2. ASSUME NEW j \in jobs, StartJob(j) \/ Reclaim(j) PROVE Heeded'
  BY <1>1, <1>2 DEF StartJob, Reclaim, file
<1>3. ASSUME NEW t \in tasks, TaskStep(t) \/ StatementThrows(t) PROVE Heeded'
  BY <1>3, TaskStepHeeded
<1>4. ASSUME NEW action \in Controls, Ask(action) PROVE Heeded'
  <2>1. \A q \in tasks' \ tasks : q.pc = IF action = "run" THEN "claim" ELSE action
    BY <1>4 DEF Ask
  <2>2. action \in {"pause", "resume", "skip", "run"}
    BY <1>4, EnrollmentAssumption DEF Ask
  <2> QED
    BY <1>1, <1>4, <2>1, <2>2 DEF Ask, file
<1>5. CASE TimePasses
  <2>1. \A t \in tasks : [t EXCEPT !.due = "now"].pc = t.pc
    BY <1>0 DEF Task
  <2>2. \A u \in tasks' : \E t \in tasks : u.pc = t.pc
    BY <1>5, <2>1 DEF TimePasses
  <2>3. late' = late /\ resolved' = resolved /\ status' = status
    BY <1>5 DEF TimePasses, file
  <2>4. late = 1 => \A u \in tasks' : ~MayCarryOut(u)'
    <3> SUFFICES ASSUME late = 1, NEW u \in tasks' PROVE ~MayCarryOut(u)'
      OBVIOUS
    <3>1. PICK t \in tasks : u.pc = t.pc
      BY <2>2
    <3>2. ~MayCarryOut(t)
      BY Zenon DEF Heeded
    <3> QED
      BY <2>3, <3>1, <3>2, Zenon DEF MayCarryOut
  <2>5. resolved => resolved'
    BY <2>3
  <2> QED
    BY <2>3, <2>4, <2>5, HeedKept
<1>6. CASE SweepFinds
  BY <1>1, <1>6 DEF SweepFinds, file
<1>7. CASE ClaimAges \/ Ends \/ Crash
  BY <1>1, <1>7 DEF ClaimAges, Ends, Crash, file
<1>8. CASE Resolves
  <2>1. late' = late /\ tasks' = tasks
    BY <1>8 DEF Resolves
  <2>2. resolved => resolved'
    BY <1>8, Zenon DEF Resolves
  <2> QED
    BY <2>1, <2>2, HeedKept
<1>9. CASE UNCHANGED vars
  BY <1>1, <1>9 DEF vars
<1> QED
  BY <1>2, <1>3, <1>4, <1>5, <1>6, <1>7, <1>8, <1>9 DEF Next

(* automation-engine.ts:496: once the stop condition is true, or the       *)
(* sequence was ended, no more than the step already begun is carried out, *)
(* as long as no step outlives its claim and nobody takes up what has      *)
(* ended.                                                                  *)
THEOREM StopsAreFollowed ==
  ASSUME ~Overruns PROVE Spec /\ EndsAreFinal => []StopsAreHeeded
<1>1. Init => Heeded
  BY DEF Init, Heeded
<1>2. OrderInv /\ Heeded /\ [Next]_vars /\ [Finished => Finished']_vars => Heeded'
  <2> SUFFICES ASSUME OrderInv, Heeded, [Next]_vars, [Finished => Finished']_vars PROVE Heeded'
    OBVIOUS
  <2>1. UNCHANGED vars => (Finished => Finished')
    BY DEF vars, Finished
  <2> QED
    BY <2>1, HeedStep
<1>3. Heeded => StopsAreHeeded
  BY DEF Heeded, StopsAreHeeded
<1> QED
  BY <1>1, <1>2, <1>3, OrderHolds, PTL DEF Spec, EndsAreFinal

(* Without pause and resume, as where nobody touches these two controls,   *)
(* what has ended does stay so.                                            *)
LEMMA EndsAreFinalWithoutResume ==
  ASSUME Controls \cap {"pause", "resume"} = {} PROVE Spec => EndsAreFinal
<1> DEFINE Inv == \A t \in tasks : t.pc \notin {"pause", "resume"}
<1>1. Init => Inv
  BY DEF Init
<1>2. TypeInv /\ Inv /\ [Next]_vars => Inv'
  <2> SUFFICES ASSUME TypeInv, Inv, [Next]_vars PROVE Inv'
    OBVIOUS
  <2>0. tasks \subseteq Task
    BY DEF TypeInv, TypeOK
  <2>1. ASSUME NEW t \in tasks, TaskStep(t) \/ StatementThrows(t) PROVE Inv'
    <3>1. ASSUME NEW pc \in Places \ {"pause", "resume"}, Goto(t, pc) PROVE Inv'
      BY <2>0, <3>1, GotoGoes DEF Goes
    <3>2. ASSUME Done(t) PROVE Inv'
      BY <3>2 DEF Done
    <3>3. ASSUME NEW q, tasks' = (tasks \ {t}) \cup {q}, q.pc \notin {"pause", "resume"}
          PROVE  Inv'
      BY <3>3
    <3>4. CASE ClaimStep(t)
      <4>1. [t EXCEPT !.node = node, !.steps = steps, !.pc = "facts"].pc = "facts"
        BY <2>0 DEF Task
      <4> QED
        BY <3>1, <3>3, <3>4, <4>1 DEF ClaimStep, Places
    <3>5. CASE ReadFacts(t) \/ StopEnrollment(t) \/ Advance(t) \/ Complete(t) \/ EnqueueNext(t)
               \/ Release(t) \/ Resume(t)
      BY <3>1, <3>5 DEF ReadFacts, StopEnrollment, Advance, Complete, EnqueueNext,
        Release,
         Resume, Places
    <3>6. CASE CarryOut(t) \/ StatementThrows(t)
      <4>1. \/ \E pc \in {"release", "settle"} :
                 tasks' = (tasks \ {t}) \cup {[t EXCEPT !.ok = FALSE, !.pc = pc]}
            \/ Goto(t, "advance")
        BY <3>6 DEF CarryOut, StatementThrows, Goto
      <4>2. \A pc \in {"release", "settle"} : [t EXCEPT !.ok = FALSE, !.pc = pc].pc = pc
        BY <2>0 DEF Task
      <4> QED
        BY <3>1, <3>3, <4>1, <4>2 DEF Places
    <3>7. CASE Settle(t) \/ SweepEnqueues(t) \/ Pause(t) \/ EnqueueControl(t)
      BY <3>2, <3>7 DEF Settle, SweepEnqueues, Pause, EnqueueControl
    <3>8. CASE Skip(t)
      BY <3>1, <3>2, <3>8 DEF Skip, Places
    <3> QED
      BY <2>1, <3>4, <3>5, <3>6, <3>7, <3>8 DEF TaskStep
  <2>2. ASSUME NEW action \in Controls, Ask(action) PROVE Inv'
    <3>1. \A q \in tasks' \ tasks : q.pc = IF action = "run" THEN "claim" ELSE action
      BY <2>2 DEF Ask
    <3> QED
      BY <2>2, <3>1
  <2>3. ASSUME NEW j \in jobs, StartJob(j) \/ Reclaim(j) PROVE Inv'
    BY <2>3 DEF StartJob, Reclaim
  <2>4. CASE TimePasses
    <3>1. \A t \in tasks : [t EXCEPT !.due = "now"].pc = t.pc
      BY <2>0 DEF Task
    <3> QED
      BY <2>4, <3>1 DEF TimePasses
  <2>5. CASE ClaimAges \/ SweepFinds \/ Ends \/ Resolves \/ Crash \/ UNCHANGED vars
    BY <2>5 DEF ClaimAges, SweepFinds, Ends, Resolves, Crash, vars
  <2> QED
    BY <2>1, <2>2, <2>3, <2>4, <2>5 DEF Next
<1>3. TypeInv /\ Inv /\ [Next]_vars => [Finished => Finished']_vars
  <2> SUFFICES ASSUME TypeInv, Inv, [Next]_vars, Finished PROVE Finished'
    OBVIOUS
  <2>1. ASSUME NEW t \in tasks, TaskStep(t) \/ StatementThrows(t) PROVE Finished'
    BY <2>1 DEF TaskStep, StatementThrows, ClaimStep, ReadFacts, StopEnrollment,
      CarryOut,
       Advance, Complete, EnqueueNext, Release, Settle, SweepEnqueues, Pause, Resume, Skip,
       EnqueueControl, Finished
  <2>2. ASSUME NEW j \in jobs, StartJob(j) \/ Reclaim(j) PROVE Finished'
    BY <2>2 DEF StartJob, Reclaim, Finished
  <2> QED
    BY <2>1, <2>2 DEF Next, Ask, TimePasses, ClaimAges, SweepFinds, Ends, Resolves,
      Crash, vars,
       Finished
<1>4. Spec => []TypeInv
  BY InitTyped, StepTyped, PTL DEF Spec
<1> QED
  BY <1>1, <1>2, <1>3, <1>4, PTL DEF Spec, EndsAreFinal

(* The same, of any sequence nobody pauses: a stop condition, an end by    *)
(* hand and the last step are final, whatever is skipped, run by hand,     *)
(* retried and begun again after a crash.                                  *)
THEOREM StopsAreFinalWithoutResume ==
  ASSUME ~Overruns, Controls \cap {"pause", "resume"} = {}
  PROVE  Spec => []StopsAreHeeded
<1>1. Spec => EndsAreFinal
  BY EndsAreFinalWithoutResume
<1>2. Spec /\ EndsAreFinal => []StopsAreHeeded
  BY StopsAreFollowed
<1> QED
  BY <1>1, <1>2, PTL

-----------------------------------------------------------------------------
(* What brings clients in: Events, which MCWorkflow calls Door.             *)

(* Sets are counted, and finite, alike in every module.                    *)
LEMMA DoorCounts ==
  ASSUME NEW S
  PROVE  Door!Cardinality(S) = Cardinality(S) /\ Door!IsFiniteSet(S) = IsFiniteSet(S)
BY DEF Door!Cardinality, Cardinality, Door!IsFiniteSet, IsFiniteSet

(* The tick and the request in hand.                                       *)
Ticks ==
  [pc : {"idle", "sweep", "raise", "load", "match", "insert", "plant", "mark", "requeue"},
   flow : Door!Flow, rows : SUBSET Door!Event, batch : Seq(Nat), row : Nat, error : BOOLEAN]
Hands ==
  [pc : {"none", "stop", "look", "insert", "plant"}, client : Clients \cup {Door!None}, row : Nat]

DoorTypes ==
  /\ flow \in Door!Flow /\ quiet \in [Clients -> Door!Quiet] /\ past \subseteq Clients
  /\ events \in Seq(Door!Event) /\ enrolled \in Seq(Door!Enrolled)
  /\ tick \in Ticks /\ hand \in Hands
  /\ hands \in Nat /\ troubles \in Nat

InBatch == {"match", "insert", "plant", "mark"}

(* What is being worked through was not processed before, and stands in    *)
(* the batch once.                                                         *)
BatchIsFresh ==
  /\ tick.pc \in InBatch => tick.batch # <<>> /\ tick.flow.again = flow.again
  /\ \A x \in DOMAIN tick.batch :
       /\ tick.batch[x] \in DOMAIN events /\ ~events[tick.batch[x]].processed
       /\ \A y \in DOMAIN tick.batch : x # y => tick.batch[x] # tick.batch[y]

ByTick(c) == {i \in Door!Of(c) : enrolled[i].by # Door!None}
Lately(c) == {i \in ByTick(c) : enrolled[i].recent}
ByHand(c) == {i \in Door!Of(c) : enrolled[i].by = Door!None}

(* What the look found is still so where it matters when the row is        *)
(* written: no other tick has enrolled since.                              *)
StandsWhenInserted ==
  tick.pc = "insert" =>
    /\ events[Door!Now].kind # "own"
    /\ \A c \in Clients : events[Door!Now].client = c =>
         /\ flow.again = "never" => ByTick(c) = {}
         /\ flow.again = "later" => Lately(c) = {}

(* An event is marked without an error where there was no reason to take   *)
(* the client, or the client is taken.                                     *)
ReasonToMark ==
  /\ tick.pc = "plant" =>
       /\ tick.row \in DOMAIN enrolled
       /\ \A c \in Clients : events[Door!Now].client = c => Door!Of(c) # {}
  /\ tick.pc = "mark" /\ ~tick.error =>
       \/ ~Door!Running(tick.flow) \/ events[Door!Now].kind = "own"
       \/ \A c \in Clients : events[Door!Now].client = c => c \in past \/ Door!Of(c) # {}

(* Whoever came in by an event came in by one that is marked or about to   *)
(* be, unless a tick died.                                                 *)
CameByEvents ==
  \A i \in DOMAIN enrolled : enrolled[i].by # Door!None =>
    /\ enrolled[i].by \in DOMAIN events /\ events[enrolled[i].by].kind # "own"
    /\ troubles = 0 => \/ events[enrolled[i].by].processed
                       \/ tick.pc \in {"plant", "mark"} /\ Door!Now = enrolled[i].by

HandsCounted ==
  \A c \in Clients :
    Cardinality(ByHand(c)) + (IF hand.pc \in {"look", "insert"} THEN 1 ELSE 0) <= hands

HandKnown ==
  /\ hand.pc \in {"look", "insert"} => hand.client \in Clients
  /\ hand.pc = "plant" => hand.row \in DOMAIN enrolled

(* What is raised is a spell that was long enough after a publication.     *)
EventsSound ==
  /\ \A e \in tick.rows : e.kind = "quiet" /\ e.crossed > 0 /\ ~e.missed /\ ~e.processed
  /\ \A i \in DOMAIN events : events[i].kind = "quiet" => events[i].crossed > 0
  /\ Door!OneEventPerSpell /\ Door!HandledMeansTaken

TakenOften ==
  \A c \in Clients :
    /\ flow.again = "never" => Cardinality(ByTick(c)) <= 1
    /\ flow.again = "later" => Cardinality(Lately(c)) <= 1

DoorInv ==
  /\ DoorTypes /\ BatchIsFresh /\ StandsWhenInserted /\ ReasonToMark /\ CameByEvents
  /\ HandsCounted /\ HandKnown /\ EventsSound /\ TakenOften /\ Door!ConsumedOnce

-----------------------------------------------------------------------------
(* Sequences.                                                              *)
LEMMA SeqParts ==
  ASSUME NEW S, NEW s \in Seq(S)
  PROVE  /\ DOMAIN s = 1 .. Len(s) /\ Len(s) \in Nat
         /\ \A i \in DOMAIN s : s[i] \in S
OBVIOUS

LEMMA OneMore ==
  ASSUME NEW S, NEW s \in Seq(S), NEW e \in S, NEW t, t = Append(s, e)
  PROVE  /\ t \in Seq(S) /\ t # s /\ Len(t) = Len(s) + 1
         /\ DOMAIN t = DOMAIN s \cup {Len(s) + 1} /\ Len(s) + 1 \notin DOMAIN s
         /\ t[Len(s) + 1] = e /\ \A i \in DOMAIN s : t[i] = s[i]
OBVIOUS

LEMMA AllChanged ==
  ASSUME NEW S, NEW s \in Seq(S), NEW t \in [DOMAIN s -> S]
  PROVE  t \in Seq(S) /\ Len(t) = Len(s) /\ DOMAIN t = DOMAIN s
<1>1. DOMAIN s = 1 .. Len(s) /\ Len(s) \in Nat
  OBVIOUS
<1>2. t \in [1 .. Len(s) -> S]
  BY <1>1
<1>3. t \in Seq(S)
  BY <1>1, <1>2
<1>4. Len(t) = Len(s)
  BY <1>1, <1>2, <1>3
<1> QED
  BY <1>1, <1>2, <1>3, <1>4

LEMMA OneChanged ==
  ASSUME NEW S, NEW s \in Seq(S), NEW i, NEW e \in S, NEW t, t = [s EXCEPT ![i] = e]
  PROVE  /\ t \in Seq(S) /\ Len(t) = Len(s) /\ DOMAIN t = DOMAIN s
         /\ \A k \in DOMAIN s : t[k] = IF k = i THEN e ELSE s[k]
<1>1. s \in [DOMAIN s -> S]
  OBVIOUS
<1>2. t \in [DOMAIN s -> S] /\ \A k \in DOMAIN s : t[k] = IF k = i THEN e ELSE s[k]
  BY <1>1
<1> QED
  BY <1>2, AllChanged

LEMMA Shorter ==
  ASSUME NEW S, NEW s \in Seq(S), s # <<>>
  PROVE  /\ Head(s) \in S /\ Head(s) = s[1] /\ 1 \in DOMAIN s
         /\ Tail(s) \in Seq(S) /\ Len(Tail(s)) = Len(s) - 1
         /\ \A i \in DOMAIN Tail(s) : Tail(s)[i] = s[i + 1] /\ i + 1 \in DOMAIN s
         /\ Len(s) # 1 => Tail(s) # <<>>
<1>1. Len(s) \in Nat \ {0} /\ DOMAIN s = 1 .. Len(s)
  OBVIOUS
<1>2. Tail(s) \in Seq(S) /\ Len(Tail(s)) = Len(s) - 1
      /\ \A i \in 1 .. Len(Tail(s)) : Tail(s)[i] = s[i + 1]
  BY HeadTailProperties
<1>3. DOMAIN Tail(s) = 1 .. Len(s) - 1 /\ \A i \in 1 .. Len(s) - 1 : Tail(s)[i] = s[i + 1]
  BY <1>1, <1>2
<1>4. Len(s) # 1 => Tail(s) # <<>>
  BY <1>1, <1>2
<1> QED
  BY <1>1, <1>2, <1>3, <1>4

-----------------------------------------------------------------------------
(* What steps do to the events and to the enrolments.                      *)

(* Events keep what they tell of, and a mark stays.                        *)
EventsStay ==
  /\ events' \in Seq(Door!Event) /\ DOMAIN events \subseteq DOMAIN events'
  /\ \A i \in DOMAIN events :
       /\ events'[i].kind = events[i].kind /\ events'[i].client = events[i].client
       /\ events'[i].spell = events[i].spell /\ events'[i].crossed = events[i].crossed
       /\ events[i].processed => events'[i].processed

(* Rows keep their client and what brought it, and no cooldown begins anew. *)
RowsStay ==
  /\ enrolled' \in Seq(Door!Enrolled) /\ DOMAIN enrolled' = DOMAIN enrolled
  /\ \A i \in DOMAIN enrolled :
       /\ enrolled'[i].client = enrolled[i].client /\ enrolled'[i].by = enrolled[i].by
       /\ enrolled'[i].recent => enrolled[i].recent

LEMMA NowIsFresh ==
  ASSUME DoorTypes, BatchIsFresh, tick.pc \in InBatch
  PROVE  /\ Door!Now \in DOMAIN events /\ Door!Now \in Nat \ {Door!None} /\ Door!Now = tick.batch[1]
         /\ events[Door!Now] \in Door!Event /\ ~events[Door!Now].processed
         /\ tick.batch # <<>> /\ 1 \in DOMAIN tick.batch /\ tick.batch \in Seq(Nat)
<1>1. tick.batch \in Seq(Nat) /\ tick.batch # <<>> /\ events \in Seq(Door!Event)
  BY DEF DoorTypes, BatchIsFresh, Ticks
<1>2. Door!Now = tick.batch[1] /\ 1 \in DOMAIN tick.batch /\ Door!Now \in Nat
  BY <1>1, Shorter DEF Door!Now
<1>3. Door!Now \in DOMAIN events /\ ~events[Door!Now].processed
  BY <1>2 DEF BatchIsFresh
<1> QED
  BY <1>1, <1>2, <1>3, SeqParts DEF Door!None

LEMMA EventIsNew ==
  ASSUME DoorTypes, NEW kind \in {"fact", "own", "quiet"}, NEW c \in Clients
  PROVE  /\ Door!NewEvent(kind, c) \in Door!Event /\ Door!NewEvent(kind, c).kind = kind
         /\ ~Door!NewEvent(kind, c).missed /\ ~Door!NewEvent(kind, c).processed
         /\ kind = "quiet" => Door!NewEvent(kind, c).crossed = quiet[c].crossed
BY DEF DoorTypes, Door!NewEvent, Door!Event, Door!Quiet

LEMMA EmitKeeps ==
  ASSUME events \in Seq(Door!Event), NEW e \in Door!Event, Door!Emit(e)
  PROVE  /\ events' \in Seq(Door!Event) /\ DOMAIN events \subseteq DOMAIN events'
         /\ \A i \in DOMAIN events : events'[i] = events[i]
         /\ \A i \in DOMAIN events' \ DOMAIN events :
              /\ events'[i] = e /\ i = Len(events) + 1
              /\ e.kind = "quiet" => \A k \in DOMAIN events :
                   events[k].kind = "quiet" /\ events[k].client = e.client
                     => events[k].spell # e.spell
<1>1. CASE events' = events
  BY <1>1
<1>2. CASE events' # events
  <2>1. events' = Append(events, e)
    BY <1>2 DEF Door!Emit
  <2>2. e.kind = "quiet" => \A k \in DOMAIN events :
          events[k].kind = "quiet" /\ events[k].client = e.client => events[k].spell # e.spell
    BY <1>2 DEF Door!Emit
  <2> QED
    BY <2>1, <2>2, OneMore
<1> QED
  BY <1>1, <1>2

-----------------------------------------------------------------------------
(* What each step does to the enrolments.                                  *)

LEMMA PlantStays ==
  ASSUME DoorTypes, NEW i \in DOMAIN enrolled, Door!PlantStep(i)
  PROVE  RowsStay
<1> DEFINE e == [enrolled[i] EXCEPT !.job = TRUE]
<1>1. enrolled \in Seq(Door!Enrolled) /\ enrolled[i] \in Door!Enrolled
  BY SeqParts DEF DoorTypes
<1>2. /\ e \in Door!Enrolled /\ e.client = enrolled[i].client /\ e.by = enrolled[i].by
      /\ e.recent = enrolled[i].recent
  BY <1>1 DEF Door!Enrolled
<1>3. enrolled' = [enrolled EXCEPT ![i] = e]
  BY DEF Door!PlantStep
<1> HIDE DEF e
<1> QED
  BY <1>1, <1>2, <1>3, OneChanged DEF RowsStay

LEMMA RunsOutStays ==
  ASSUME DoorTypes, NEW i \in DOMAIN enrolled, Door!RunsOut(i)
  PROVE  RowsStay
<1> DEFINE e == [enrolled[i] EXCEPT !.state = "over", !.job = FALSE]
<1>1. enrolled \in Seq(Door!Enrolled) /\ enrolled[i] \in Door!Enrolled /\ enrolled \in [DOMAIN enrolled -> Door!Enrolled]
  BY SeqParts DEF DoorTypes
<1>2. /\ e \in Door!Enrolled /\ e.client = enrolled[i].client /\ e.by = enrolled[i].by
      /\ e.recent = enrolled[i].recent
  BY <1>1 DEF Door!Enrolled
<1>3. enrolled' = [enrolled EXCEPT ![i] = e]
  BY <1>1 DEF Door!RunsOut
<1> HIDE DEF e
<1> QED
  BY <1>1, <1>2, <1>3, OneChanged DEF RowsStay

LEMMA CooldownStays ==
  ASSUME DoorTypes, NEW i \in DOMAIN enrolled, Door!CooldownPasses(i)
  PROVE  RowsStay
<1> DEFINE e == [enrolled[i] EXCEPT !.recent = FALSE]
<1>1. enrolled \in Seq(Door!Enrolled) /\ enrolled[i] \in Door!Enrolled
  BY SeqParts DEF DoorTypes
<1>2. /\ e \in Door!Enrolled /\ e.client = enrolled[i].client /\ e.by = enrolled[i].by
      /\ ~e.recent
  BY <1>1 DEF Door!Enrolled
<1>3. enrolled' = [enrolled EXCEPT ![i] = e]
  BY DEF Door!CooldownPasses
<1> HIDE DEF e
<1> QED
  BY <1>1, <1>2, <1>3, OneChanged DEF RowsStay

LEMMA SweptStays ==
  ASSUME DoorTypes, Door!Requeue \/ Door!StopRunning
  PROVE  RowsStay
<1>1. enrolled \in Seq(Door!Enrolled) /\ \A i \in DOMAIN enrolled : enrolled[i] \in Door!Enrolled
  BY SeqParts DEF DoorTypes
<1>2. CASE Door!Requeue
  <2>1. enrolled' = [i \in DOMAIN enrolled |->
          [enrolled[i] EXCEPT !.job = enrolled[i].job \/ enrolled[i].state = "active"]]
    BY <1>2 DEF Door!Requeue
  <2>2. \A i \in DOMAIN enrolled :
          /\ enrolled'[i] \in Door!Enrolled /\ enrolled'[i].client = enrolled[i].client
          /\ enrolled'[i].by = enrolled[i].by /\ enrolled'[i].recent = enrolled[i].recent
    BY <1>1, <2>1 DEF Door!Enrolled
  <2>3. enrolled' \in [DOMAIN enrolled -> Door!Enrolled]
    BY <2>1, <2>2
  <2> QED
    BY <1>1, <2>2, <2>3, AllChanged DEF RowsStay
<1>3. CASE Door!StopRunning
  <2>1. enrolled' = [i \in DOMAIN enrolled |-> [enrolled[i] EXCEPT !.state = "over"]]
    BY <1>3 DEF Door!StopRunning
  <2>2. \A i \in DOMAIN enrolled :
          /\ enrolled'[i] \in Door!Enrolled /\ enrolled'[i].client = enrolled[i].client
          /\ enrolled'[i].by = enrolled[i].by /\ enrolled'[i].recent = enrolled[i].recent
    BY <1>1, <2>1 DEF Door!Enrolled
  <2>3. enrolled' \in [DOMAIN enrolled -> Door!Enrolled]
    BY <2>1, <2>2
  <2> QED
    BY <1>1, <2>2, <2>3, AllChanged DEF RowsStay
<1> QED
  BY <1>2, <1>3

LEMMA NothingStays == DoorTypes /\ UNCHANGED enrolled => RowsStay
BY DEF DoorTypes, RowsStay

(* One row more, at the end, or the client is in already.                  *)
RowAdded(c, by) ==
  /\ enrolled' \in Seq(Door!Enrolled) /\ enrolled' # enrolled
  /\ DOMAIN enrolled' = DOMAIN enrolled \cup {Len(enrolled) + 1}
  /\ Len(enrolled) + 1 \notin DOMAIN enrolled
  /\ enrolled'[Len(enrolled) + 1].client = c /\ enrolled'[Len(enrolled) + 1].by = by
  /\ \A i \in DOMAIN enrolled : enrolled'[i] = enrolled[i]

LEMMA InsertAdds ==
  ASSUME DoorTypes, NEW c \in Clients, NEW by \in Nat, Door!InsertEnrolled(c, by)
  PROVE  (enrolled' = enrolled /\ Door!Of(c) # {}) \/ RowAdded(c, by)
<1>1. CASE Door!Live(c) # {}
  BY <1>1 DEF Door!InsertEnrolled, Door!Live
<1>2. CASE Door!Live(c) = {}
  <2> DEFINE e == [client |-> c, by |-> by, state |-> "active", job |-> FALSE, recent |-> TRUE]
  <2>1. enrolled' = Append(enrolled, e) /\ enrolled \in Seq(Door!Enrolled)
    BY <1>2 DEF Door!InsertEnrolled, DoorTypes
  <2>2. e \in Door!Enrolled /\ e.client = c /\ e.by = by
    BY DEF Door!Enrolled
  <2> HIDE DEF e
  <2> QED
    BY <2>1, <2>2, OneMore DEF RowAdded
<1> QED
  BY <1>1, <1>2

LEMMA EveryStepOnRows ==
  ASSUME DoorTypes, BatchIsFresh, ReasonToMark, HandKnown, [Door!Next]_(Door!vars)
  PROVE  RowsStay \/ Door!Insert \/ Door!InsertByHand
<1>1. CASE \/ Door!StartTick \/ Door!TimeTriggerRows \/ Door!Raise \/ Door!LoadEvents \/ Door!Look \/ Door!Mark \/ Door!Throw
           \/ Door!FiveMinutesPass \/ Door!Exit \/ Door!Publish \/ Door!LookByHand \/ UNCHANGED Door!vars
  BY <1>1, NothingStays DEF Door!StartTick, Door!TimeTriggerRows, Door!Raise,
    Door!LoadEvents, Door!Look, Door!Mark, Door!Throw,
    Door!FiveMinutesPass, Door!Exit, Door!Publish, Door!LookByHand, Door!vars
<1>2. ASSUME NEW c \in Clients, \/ Door!Happens(c) \/ Door!DoneByItself(c) \/ Door!GoesQuiet(c) \/ Door!Stirs(c)
                                \/ Door!GetsPastIt(c) \/ Door!AskByHand(c)
      PROVE  RowsStay
  BY <1>2, NothingStays DEF Door!Happens, Door!DoneByItself, Door!GoesQuiet,
    Door!Stirs, Door!GetsPastIt, Door!AskByHand
<1>3. ASSUME NEW s, Door!SetStatus(s) PROVE RowsStay
  BY <1>3, NothingStays DEF Door!SetStatus
<1>4. CASE Door!Plant
  BY <1>4, PlantStays DEF Door!Plant, ReasonToMark, Door!At
<1>5. CASE Door!PlantByHand
  BY <1>5, PlantStays DEF Door!PlantByHand, HandKnown
<1> QED
  BY <1>1, <1>2, <1>3, <1>4, <1>5, RunsOutStays, CooldownStays, SweptStays
    DEF Door!Next, Door!TickStep, Door!HandStep

(* Whom the rows are of.                                                   *)
LEMMA RowsStayWhose ==
  ASSUME RowsStay, NEW c
  PROVE  /\ Door!Of(c)' = Door!Of(c) /\ ByTick(c)' = ByTick(c) /\ ByHand(c)' = ByHand(c)
         /\ Lately(c)' \subseteq Lately(c)
BY DEF RowsStay, Door!Of, ByTick, ByHand, Lately

LEMMA RowAddedWhose ==
  ASSUME DoorTypes, NEW c, NEW by, RowAdded(c, by), NEW d
  PROVE  /\ d # c => Door!Of(d)' = Door!Of(d) /\ ByTick(d)' = ByTick(d) /\ ByHand(d)' = ByHand(d)
                     /\ Lately(d)' = Lately(d)
         /\ by = Door!None => ByTick(d)' = ByTick(d) /\ Lately(d)' = Lately(d)
                         /\ ByHand(c)' = ByHand(c) \cup {Len(enrolled) + 1}
         /\ by # Door!None => /\ ByHand(d)' = ByHand(d)
                         /\ ByTick(c)' = ByTick(c) \cup {Len(enrolled) + 1}
                         /\ Lately(c)' \subseteq Lately(c) \cup {Len(enrolled) + 1}
         /\ Door!Of(d) \subseteq Door!Of(d)' /\ Door!Of(c)' # {}
BY DEF RowAdded, Door!Of, ByTick, ByHand, Lately

LEMMA FewRows ==
  ASSUME DoorTypes, NEW c
  PROVE  /\ IsFiniteSet(Door!Of(c)) /\ IsFiniteSet(ByTick(c)) /\ IsFiniteSet(ByHand(c))
         /\ IsFiniteSet(Lately(c))
<1>1. IsFiniteSet(DOMAIN enrolled)
  BY SeqParts, FS_Interval DEF DoorTypes
<1> QED
  BY <1>1, FS_Subset DEF Door!Of, ByTick, ByHand, Lately

-----------------------------------------------------------------------------
(* Types.                                                                  *)

LEMMA InsertTypes ==
  ASSUME DoorTypes, BatchIsFresh, HandKnown, Door!Insert \/ Door!InsertByHand
  PROVE  enrolled' \in Seq(Door!Enrolled)
<1>1. CASE Door!Insert
  <2>1. Door!Now \in Nat /\ events[Door!Now].client \in Clients
    BY <1>1, NowIsFresh DEF Door!Insert, Door!At, InBatch, Door!Event
  <2> QED
    BY <1>1, <2>1, InsertAdds DEF Door!Insert, DoorTypes, RowAdded
<1>2. CASE Door!InsertByHand
  <2>1. hand.client \in Clients /\ Door!None \in Nat
    BY <1>2 DEF Door!InsertByHand, HandKnown, Door!None
  <2> QED
    BY <1>2, <2>1, InsertAdds DEF Door!InsertByHand, DoorTypes, RowAdded
<1> QED
  BY <1>1, <1>2

(* The ids a tick takes.                                                   *)
LEMMA AscendingTyped ==
  ASSUME DoorTypes, NEW ids \in SUBSET Door!Unprocessed, ids # {}, NEW list \in Door!Ascending(ids)
  PROVE  /\ list \in Seq(Nat) /\ list # <<>>
         /\ \A x \in DOMAIN list : list[x] \in ids
         /\ \A x, y \in DOMAIN list : x # y => list[x] # list[y]
<1>1. IsFiniteSet(ids) /\ ids \subseteq Nat
  <2>1. IsFiniteSet(DOMAIN events) /\ DOMAIN events \subseteq Nat
    <3>1. DOMAIN events = 1 .. Len(events) /\ Len(events) \in Nat
      BY SeqParts DEF DoorTypes
    <3> QED
      BY <3>1, FS_Interval
  <2> QED
    BY <2>1, FS_Subset DEF Door!Unprocessed
<1>2. Cardinality(ids) \in Nat \ {0}
  BY <1>1, FS_CardinalityType, FS_EmptySet
<1>3. /\ list \in [1 .. Cardinality(ids) -> ids]
      /\ \A x, y \in 1 .. Cardinality(ids) : x < y => list[x] < list[y]
  BY DoorCounts DEF Door!Ascending
<1>4. list \in Seq(Nat) /\ DOMAIN list = 1 .. Cardinality(ids)
  <2>1. list \in [1 .. Cardinality(ids) -> Nat]
    BY <1>1, <1>3
  <2> QED
    BY <1>2, <2>1
<1>5. list # <<>>
  BY <1>2, <1>4
<1>6. ASSUME NEW x \in DOMAIN list, NEW y \in DOMAIN list, x # y
      PROVE  list[x] # list[y]
  <2>1. x \in Int /\ y \in Int /\ list[x] \in Int /\ list[y] \in Int
    BY <1>1, <1>2, <1>3, <1>4, <1>6
  <2>2. CASE x < y
    BY <1>3, <1>4, <1>6, <2>1, <2>2
  <2>3. CASE y < x
    BY <1>3, <1>4, <1>6, <2>1, <2>3
  <2> QED
    BY <1>6, <2>1, <2>2, <2>3
<1> QED
  BY <1>3, <1>4, <1>5, <1>6

LEMMA LoadFacts ==
  ASSUME DoorTypes, Door!LoadEvents
  PROVE  \/ tick' = [tick EXCEPT !.pc = "requeue"]
         \/ \E list \in Seq(Nat) :
              /\ tick' = [tick EXCEPT !.batch = list, !.flow = flow, !.pc = "match"]
              /\ list # <<>> /\ \A x \in DOMAIN list : list[x] \in Door!Unprocessed
              /\ \A x, y \in DOMAIN list : x # y => list[x] # list[y]
<1> DEFINE first == {i \in Door!Unprocessed : Door!Cardinality({k \in Door!Unprocessed : k < i}) < Limit}
<1>1. first \in SUBSET Door!Unprocessed
  OBVIOUS
<1>2. \/ tick' = [tick EXCEPT !.pc = "requeue"]
      \/ first # {} /\ \E list \in Door!Ascending(first) :
           tick' = [tick EXCEPT !.batch = list, !.flow = flow, !.pc = "match"]
  BY DEF Door!LoadEvents
<1> HIDE DEF first
<1>3. ASSUME first # {}, NEW list \in Door!Ascending(first)
      PROVE  /\ list \in Seq(Nat) /\ list # <<>> /\ \A x \in DOMAIN list : list[x] \in Door!Unprocessed
             /\ \A x, y \in DOMAIN list : x # y => list[x] # list[y]
  BY <1>1, <1>3, AscendingTyped
<1> QED
  BY <1>2, <1>3

LEMMA MarkChanges ==
  ASSUME DoorTypes, BatchIsFresh, Door!Mark
  PROVE  /\ events' \in Seq(Door!Event) /\ DOMAIN events' = DOMAIN events
         /\ \A i \in DOMAIN events : i # Door!Now => events'[i] = events[i]
         /\ events'[Door!Now].kind = events[Door!Now].kind /\ events'[Door!Now].client = events[Door!Now].client
         /\ events'[Door!Now].spell = events[Door!Now].spell /\ events'[Door!Now].crossed = events[Door!Now].crossed
         /\ events'[Door!Now].processed
         /\ events'[Door!Now].missed <=>
              /\ ~tick.error /\ Door!Running(tick.flow) /\ events[Door!Now].kind # "own"
              /\ events[Door!Now].client \notin past /\ Door!Of(events[Door!Now].client) = {}
<1> DEFINE missed == /\ ~tick.error /\ Door!Running(tick.flow) /\ events[Door!Now].kind # "own"
                     /\ events[Door!Now].client \notin past /\ Door!Of(events[Door!Now].client) = {}
           e == [events[Door!Now] EXCEPT !.processed = TRUE, !.error = tick.error, !.missed = missed]
<1>1. Door!Now \in DOMAIN events /\ events[Door!Now] \in Door!Event
  BY NowIsFresh DEF Door!Mark, Door!At, InBatch
<1>2. missed \in BOOLEAN /\ tick.error \in BOOLEAN
  BY DEF DoorTypes, Ticks
<1>3. events' = [events EXCEPT ![Door!Now].processed = TRUE, ![Door!Now].error = tick.error,
                               ![Door!Now].missed = missed]
  BY DEF Door!Mark
<1> HIDE DEF missed
<1>4. events \in Seq(Door!Event) /\ events \in [DOMAIN events -> Door!Event]
  BY SeqParts DEF DoorTypes
<1>5. events' = [events EXCEPT ![Door!Now] = e]
  BY <1>1, <1>3, <1>4
<1>6. /\ e \in Door!Event /\ e.kind = events[Door!Now].kind /\ e.client = events[Door!Now].client
      /\ e.spell = events[Door!Now].spell /\ e.crossed = events[Door!Now].crossed
      /\ e.processed /\ (e.missed <=> missed)
  BY <1>1, <1>2 DEF Door!Event
<1> HIDE DEF e
<1>7. /\ events' \in Seq(Door!Event) /\ DOMAIN events' = DOMAIN events
      /\ \A i \in DOMAIN events : events'[i] = IF i = Door!Now THEN e ELSE events[i]
  BY <1>4, <1>5, <1>6, OneChanged
<1> QED
  BY <1>1, <1>6, <1>7 DEF missed

(* What a step leaves alone, and what it adds.                             *)
LEMMA EventsMove ==
  ASSUME DoorTypes, BatchIsFresh, EventsSound, [Door!Next]_(Door!vars)
  PROVE  \/ UNCHANGED events
         \/ Door!Mark
         \/ \E e \in Door!Event : Door!Emit(e) /\ (e.kind = "quiet" => e.crossed > 0) /\ ~e.missed /\ ~e.processed
<1> DEFINE Emits == \E e \in Door!Event : Door!Emit(e) /\ (e.kind = "quiet" => e.crossed > 0) /\ ~e.missed
                                     /\ ~e.processed
<1>1. ASSUME \/ Door!StartTick \/ Door!TimeTriggerRows \/ Door!LoadEvents \/ Door!Look \/ Door!Insert \/ Door!Plant \/ Door!Requeue
             \/ Door!Throw \/ Door!FiveMinutesPass \/ Door!Exit \/ Door!Publish \/ Door!HandStep \/ UNCHANGED Door!vars
      PROVE  UNCHANGED events
  BY <1>1 DEF Door!StartTick, Door!TimeTriggerRows, Door!LoadEvents, Door!Look,
    Door!Insert, Door!Plant, Door!Requeue, Door!Throw,
    Door!FiveMinutesPass, Door!Exit, Door!Publish, Door!HandStep, Door!StopRunning,
      Door!LookByHand, Door!InsertByHand,
    Door!PlantByHand, Door!vars
<1>2. ASSUME NEW c \in Clients, Door!GoesQuiet(c) \/ Door!Stirs(c) \/ Door!GetsPastIt(c) \/ Door!AskByHand(c)
      PROVE  UNCHANGED events
  BY <1>2 DEF Door!GoesQuiet, Door!Stirs, Door!GetsPastIt, Door!AskByHand
<1>3. ASSUME NEW c \in Clients, Door!Happens(c) PROVE Emits
  BY <1>3, EventIsNew DEF Door!Happens
<1>4. ASSUME NEW c \in Clients, Door!DoneByItself(c) PROVE Emits
  BY <1>4, EventIsNew DEF Door!DoneByItself
<1>5. ASSUME Door!Raise PROVE Emits
  <2>1. PICK e \in tick.rows : Door!Emit(e)
    BY <1>5 DEF Door!Raise
  <2>2. e \in Door!Event /\ e.kind = "quiet" /\ e.crossed > 0 /\ ~e.missed /\ ~e.processed
    BY DEF EventsSound, DoorTypes, Ticks
  <2> QED
    BY <2>1, <2>2
<1>6. ASSUME NEW i \in DOMAIN enrolled, Door!RunsOut(i) \/ Door!CooldownPasses(i) PROVE UNCHANGED events
  BY <1>6 DEF Door!RunsOut, Door!CooldownPasses
<1>7. ASSUME NEW s, Door!SetStatus(s) PROVE UNCHANGED events
  BY <1>7 DEF Door!SetStatus
<1> HIDE DEF Emits
<1>8. UNCHANGED events \/ Door!Mark \/ Emits
  <2>1. CASE \E c \in Clients : \/ Door!Happens(c) \/ Door!DoneByItself(c) \/ Door!GoesQuiet(c) \/ Door!Stirs(c)
                                \/ Door!GetsPastIt(c) \/ Door!AskByHand(c)
    BY <1>2, <1>3, <1>4, <2>1
  <2>2. CASE Door!TickStep
    BY <1>1, <1>5, <2>2 DEF Door!TickStep
  <2>3. CASE \/ \E i \in DOMAIN enrolled : Door!RunsOut(i) \/ Door!CooldownPasses(i)
             \/ \E s \in {"active", "paused", "archived"} : Door!SetStatus(s)
    BY <1>6, <1>7, <2>3
  <2> QED
    BY <1>1, <2>1, <2>2, <2>3 DEF Door!Next
<1> QED
  BY <1>8 DEF Emits

LEMMA EveryStepOnEvents ==
  ASSUME DoorTypes, BatchIsFresh, EventsSound, [Door!Next]_(Door!vars)
  PROVE  EventsStay /\ (~Door!Mark => \A i \in DOMAIN events : events'[i] = events[i])
<1>1. CASE UNCHANGED events
  BY <1>1 DEF EventsStay, DoorTypes
<1>2. CASE Door!Mark
  BY <1>2, MarkChanges DEF EventsStay
<1>3. ASSUME NEW e \in Door!Event, Door!Emit(e)
      PROVE  EventsStay /\ \A i \in DOMAIN events : events'[i] = events[i]
  BY <1>3, EmitKeeps DEF EventsStay, DoorTypes
<1> QED
  BY <1>1, <1>2, <1>3, EventsMove

LEMMA TickTyped ==
  ASSUME DoorTypes, BatchIsFresh, Door!StartTick \/ Door!TickStep \/ Door!Throw \/ Door!Exit
  PROVE  tick' \in Ticks
<1>0. tick \in Ticks /\ Door!Idle \in Ticks /\ flow \in Door!Flow
  BY DEF DoorTypes, Ticks, Door!Idle, Door!Unread, Door!Flow, Door!None
<1>1. CASE Door!StartTick \/ Door!Exit \/ Door!Requeue \/ Door!Throw
  BY <1>0, <1>1 DEF Door!StartTick, Door!Exit, Door!Requeue, Door!Throw, Ticks,
    Door!Idle, Door!None
<1>2. CASE Door!TimeTriggerRows
  <2>1. PICK rows \in SUBSET Clients :
          tick' = [tick EXCEPT !.rows = {Door!NewEvent("quiet", c) : c \in rows},
                               !.pc = IF rows = {} THEN "load" ELSE "raise"]
    BY <1>2 DEF Door!TimeTriggerRows
  <2>2. {Door!NewEvent("quiet", c) : c \in rows} \in SUBSET Door!Event
    BY EventIsNew
  <2> QED
    BY <1>0, <2>1, <2>2 DEF Ticks
<1>3. CASE Door!Raise \/ Door!Look
  <2>1. CASE Door!Raise
    <3>1. PICK e \in tick.rows :
            tick' = [tick EXCEPT !.rows = tick.rows \ {e},
                                 !.pc = IF tick.rows = {e} THEN "load" ELSE "raise"]
      BY <2>1 DEF Door!Raise
    <3> QED
      BY <1>0, <3>1 DEF Ticks
  <2>2. CASE Door!Look
    <3>1. PICK pc \in {"insert", "mark"} : tick' = [tick EXCEPT !.pc = pc]
      BY <2>2 DEF Door!Look
    <3> QED
      BY <1>0, <3>1 DEF Ticks
  <2> QED
    BY <1>3, <2>1, <2>2
<1>4. CASE Door!LoadEvents
  BY <1>0, <1>4, LoadFacts DEF Ticks
<1>5. CASE Door!Insert
  <2>1. Len(enrolled) + 1 \in Nat
    BY SeqParts DEF DoorTypes
  <2> QED
    BY <1>0, <1>5, <2>1 DEF Door!Insert, Ticks
<1>6. CASE Door!Plant
  BY <1>0, <1>6 DEF Door!Plant, Ticks, Door!None
<1>7. CASE Door!Mark
  <2>1. Tail(tick.batch) \in Seq(Nat) /\ Door!Unread \in Door!Flow
    BY <1>7, NowIsFresh, Shorter DEF Door!Mark, Door!At, InBatch, Door!Unread, Door!Flow
  <2> QED
    BY <1>0, <1>7, <2>1 DEF Door!Mark, Ticks, Door!None
<1> QED
  BY <1>1, <1>2, <1>3, <1>4, <1>5, <1>6, <1>7 DEF Door!TickStep

LEMMA HandTyped ==
  ASSUME DoorTypes, HandKnown, \/ Door!HandStep \/ Door!Exit \/ \E c \in Clients : Door!AskByHand(c)
                               \/ \E s \in {"active", "paused", "archived"} : Door!SetStatus(s)
  PROVE  hand' \in Hands
<1>0. hand \in Hands /\ Door!NoHand \in Hands /\ Len(enrolled) + 1 \in Nat
  BY SeqParts DEF DoorTypes, Hands, Door!NoHand, Door!None
<1> QED
  BY <1>0 DEF Door!HandStep, Door!Exit, Door!AskByHand, Door!SetStatus,
    Door!StopRunning, Door!LookByHand, Door!InsertByHand,
    Door!PlantByHand, Hands, Door!NoHand, Door!None

LEMMA TypesStep ==
  ASSUME DoorTypes, BatchIsFresh, ReasonToMark, HandKnown, EventsSound, [Door!Next]_(Door!vars)
  PROVE  DoorTypes' /\ flow'.again = flow.again
<1>1. events' \in Seq(Door!Event)
  BY EveryStepOnEvents DEF EventsStay
<1>2. enrolled' \in Seq(Door!Enrolled)
  BY EveryStepOnRows, InsertTypes DEF RowsStay
<1>3. tick' \in Ticks
  <2>1. UNCHANGED tick \/ Door!StartTick \/ Door!TickStep \/ Door!Throw \/ Door!Exit
    BY DEF Door!Next, Door!HandStep, Door!Happens, Door!DoneByItself, Door!GoesQuiet,
      Door!Stirs, Door!GetsPastIt, Door!AskByHand,
      Door!FiveMinutesPass, Door!RunsOut, Door!CooldownPasses, Door!Publish,
        Door!SetStatus, Door!StopRunning, Door!LookByHand,
      Door!InsertByHand, Door!PlantByHand, Door!vars
  <2> QED
    BY <2>1, TickTyped DEF DoorTypes
<1>4. hand' \in Hands
  <2>1. \/ UNCHANGED hand \/ Door!HandStep \/ Door!Exit \/ \E c \in Clients : Door!AskByHand(c)
        \/ \E s \in {"active", "paused", "archived"} : Door!SetStatus(s)
    BY DEF Door!Next, Door!TickStep, Door!Happens, Door!DoneByItself, Door!GoesQuiet,
      Door!Stirs, Door!GetsPastIt,
      Door!FiveMinutesPass, Door!RunsOut, Door!CooldownPasses, Door!Publish,
        Door!StartTick, Door!TimeTriggerRows, Door!Raise,
      Door!LoadEvents, Door!Look, Door!Insert, Door!Plant, Door!Mark, Door!Requeue,
        Door!Throw, Door!vars
  <2> QED
    BY <2>1, HandTyped DEF DoorTypes
<1>5. /\ flow' \in Door!Flow /\ flow'.again = flow.again
      /\ quiet' \in [Clients -> Door!Quiet] /\ past' \subseteq Clients
      /\ hands' \in Nat /\ troubles' \in Nat
  <2>0. flow \in Door!Flow /\ quiet \in [Clients -> Door!Quiet] /\ past \subseteq Clients
        /\ hands \in Nat /\ troubles \in Nat
    BY DEF DoorTypes
  <2>1. ASSUME NEW c \in Clients, Door!GoesQuiet(c) \/ Door!Stirs(c)
        PROVE  quiet' \in [Clients -> Door!Quiet]
    <3>1. quiet[c] \in Door!Quiet /\ flow.version \in Nat
      BY <2>0 DEF Door!Flow
    <3>2. PICK q \in Door!Quiet : quiet' = [quiet EXCEPT ![c] = q]
      <4>1. CASE Door!GoesQuiet(c)
        <5>1. quiet' = [quiet EXCEPT ![c] = [quiet[c] EXCEPT !.long = TRUE, !.crossed = flow.version]]
          BY <2>0, <4>1 DEF Door!GoesQuiet
        <5>2. [quiet[c] EXCEPT !.long = TRUE, !.crossed = flow.version] \in Door!Quiet
          BY <3>1 DEF Door!Quiet
        <5> QED
          BY <5>1, <5>2
      <4>2. CASE Door!Stirs(c)
        <5>1. quiet' = [quiet EXCEPT ![c] = [spell |-> quiet[c].spell + 1, long |-> FALSE, crossed |-> 0]]
          BY <2>0, <4>2 DEF Door!Stirs
        <5>2. [spell |-> quiet[c].spell + 1, long |-> FALSE, crossed |-> 0] \in Door!Quiet
          BY <3>1 DEF Door!Quiet
        <5> QED
          BY <5>1, <5>2
      <4> QED
        BY <2>1, <4>1, <4>2
    <3> QED
      BY <2>0, <3>2
  <2>2. CASE Door!Publish \/ \E s \in {"active", "paused", "archived"} : Door!SetStatus(s)
    <3>1. flow' \in Door!Flow /\ flow'.again = flow.again
      <4>1. CASE Door!Publish
        <5>1. flow' = [flow EXCEPT !.status = "active", !.version = flow.version + 1]
          BY <4>1 DEF Door!Publish
        <5>2. flow.version + 1 \in Nat
          BY <2>0 DEF Door!Flow
        <5> QED
          BY <2>0, <5>1, <5>2 DEF Door!Flow
      <4>2. ASSUME NEW s \in {"active", "paused", "archived"}, Door!SetStatus(s)
            PROVE  flow' \in Door!Flow /\ flow'.again = flow.again
        BY <2>0, <4>2 DEF Door!SetStatus, Door!Flow
      <4> QED
        BY <2>2, <4>1, <4>2
    <3> QED
      BY <2>0, <2>2, <3>1 DEF Door!Publish, Door!SetStatus
  <2>3. ASSUME NEW c \in Clients, \/ Door!Happens(c) \/ Door!DoneByItself(c) \/ Door!GoesQuiet(c) \/ Door!Stirs(c)
                                  \/ Door!GetsPastIt(c) \/ Door!AskByHand(c)
        PROVE  flow' = flow /\ past' \subseteq Clients /\ hands' \in Nat /\ troubles' \in Nat
    BY <2>0, <2>3 DEF Door!Happens, Door!DoneByItself, Door!GoesQuiet, Door!Stirs,
      Door!GetsPastIt, Door!AskByHand, Door!counts
  <2>4. ASSUME NEW c \in Clients, Door!Happens(c) \/ Door!DoneByItself(c) \/ Door!GetsPastIt(c) \/ Door!AskByHand(c)
        PROVE  quiet' = quiet
    BY <2>4 DEF Door!Happens, Door!DoneByItself, Door!GetsPastIt, Door!AskByHand
  <2>5. ASSUME NEW c \in Clients, \/ Door!Happens(c) \/ Door!DoneByItself(c) \/ Door!GoesQuiet(c) \/ Door!Stirs(c)
                                  \/ Door!GetsPastIt(c) \/ Door!AskByHand(c)
        PROVE  quiet' \in [Clients -> Door!Quiet]
    BY <2>0, <2>1, <2>4, <2>5
  <2>6. CASE Door!TickStep \/ Door!HandStep \/ \E i \in DOMAIN enrolled : Door!RunsOut(i) \/ Door!CooldownPasses(i)
    BY <2>0, <2>6 DEF Door!TickStep, Door!HandStep, Door!RunsOut, Door!CooldownPasses,
      Door!TimeTriggerRows, Door!Raise,
      Door!LoadEvents, Door!Look, Door!Insert, Door!Plant, Door!Mark, Door!Requeue,
        Door!StopRunning, Door!LookByHand, Door!InsertByHand,
      Door!PlantByHand, Door!counts
  <2>7. CASE Door!StartTick \/ Door!Throw \/ Door!FiveMinutesPass \/ Door!Exit \/ UNCHANGED Door!vars
    BY <2>0, <2>7 DEF Door!StartTick, Door!Throw, Door!FiveMinutesPass, Door!Exit,
      Door!vars, Door!counts
  <2> QED
    BY <2>0, <2>2, <2>3, <2>5, <2>6, <2>7 DEF Door!Next
<1> QED
  BY <1>1, <1>2, <1>3, <1>4, <1>5 DEF DoorTypes

-----------------------------------------------------------------------------
(* The batch.                                                              *)

(* What the tick does, by what it was at.                                  *)
LEMMA TickMoves ==
  ASSUME DoorTypes, BatchIsFresh, [Door!Next]_(Door!vars)
  PROVE  \/ UNCHANGED tick /\ ~Door!Mark /\ ~Door!Insert
         \/ tick' = Door!Idle \/ Door!StartTick \/ Door!TimeTriggerRows \/ Door!Raise \/ Door!LoadEvents \/ Door!Look
         \/ Door!Insert \/ Door!Plant \/ Door!Mark
         \/ /\ tick.pc \in InBatch /\ troubles' = troubles + 1 /\ UNCHANGED <<events, enrolled>>
            /\ tick' = [tick EXCEPT !.error = TRUE, !.row = Door!None, !.pc = "mark"]
<1>0. tick \in Ticks
  BY DEF DoorTypes
<1>1. Door!Mark => tick'.pc # "mark" /\ tick.pc = "mark"
  BY <1>0 DEF Door!Mark, Ticks, Door!At
<1>2. Door!Insert => tick'.pc # "insert" /\ tick.pc = "insert"
  BY <1>0 DEF Door!Insert, Ticks, Door!At
<1>3. CASE UNCHANGED tick
  BY <1>1, <1>2, <1>3
<1>4. CASE Door!Throw
  BY <1>4 DEF Door!Throw, InBatch
<1>5. CASE ~UNCHANGED tick /\ ~Door!Throw
  <2>1. tick' = Door!Idle \/ Door!StartTick \/ Door!TickStep
    <3>1. ASSUME NEW c \in Clients, \/ Door!Happens(c) \/ Door!DoneByItself(c) \/ Door!GoesQuiet(c) \/ Door!Stirs(c)
                                  \/ Door!GetsPastIt(c) \/ Door!AskByHand(c)
          PROVE  UNCHANGED tick
      BY <3>1 DEF Door!Happens, Door!DoneByItself, Door!GoesQuiet, Door!Stirs,
        Door!GetsPastIt, Door!AskByHand
    <3>2. ASSUME NEW i \in DOMAIN enrolled, Door!RunsOut(i) \/ Door!CooldownPasses(i) PROVE UNCHANGED tick
      BY <3>2 DEF Door!RunsOut, Door!CooldownPasses
    <3>3. ASSUME NEW s, Door!SetStatus(s) PROVE UNCHANGED tick
      BY <3>3 DEF Door!SetStatus
    <3>4. CASE Door!HandStep \/ Door!Publish \/ Door!FiveMinutesPass \/ Door!Exit \/ UNCHANGED Door!vars
      BY <3>4, <1>5 DEF Door!HandStep, Door!Publish, Door!FiveMinutesPass, Door!Exit,
        Door!StopRunning, Door!LookByHand,
        Door!InsertByHand, Door!PlantByHand, Door!vars
    <3> QED
      BY <3>1, <3>2, <3>3, <3>4, <1>5 DEF Door!Next
  <2>2. Door!Requeue => tick' = Door!Idle
    BY DEF Door!Requeue
  <2> QED
    BY <2>1, <2>2 DEF Door!TickStep
<1> QED
  BY <1>3, <1>4, <1>5

LEMMA BatchKept ==
  ASSUME DoorTypes, BatchIsFresh, EventsStay, \A i \in DOMAIN events : events'[i] = events[i],
         flow'.again = flow.again, tick'.batch = tick.batch, tick'.flow = tick.flow,
         tick'.pc \in InBatch => tick.pc \in InBatch
  PROVE  BatchIsFresh'
BY DEF BatchIsFresh, EventsStay

LEMMA BatchStep ==
  ASSUME DoorTypes, BatchIsFresh, ReasonToMark, HandKnown, EventsSound, [Door!Next]_(Door!vars)
  PROVE  BatchIsFresh'
<1>0. /\ tick \in Ticks /\ DoorTypes' /\ flow'.again = flow.again /\ EventsStay
      /\ ~Door!Mark => \A i \in DOMAIN events : events'[i] = events[i]
  BY TypesStep, EveryStepOnEvents DEF DoorTypes
<1>1. CASE UNCHANGED tick /\ ~Door!Mark
  BY <1>0, <1>1, BatchKept
<1>2. CASE tick' = Door!Idle \/ Door!StartTick
  <2>1. tick'.batch = <<>> /\ tick'.pc \notin InBatch
    BY <1>2 DEF Door!StartTick, Door!Idle, InBatch
  <2> QED
    BY <2>1 DEF BatchIsFresh
<1>3. CASE Door!TimeTriggerRows
  <2>1. /\ tick'.batch = tick.batch /\ tick'.flow = tick.flow /\ tick'.pc \notin InBatch
        /\ UNCHANGED events
    BY <1>0, <1>3 DEF Door!TimeTriggerRows, InBatch, Ticks
  <2> QED
    BY <1>0, <2>1, BatchKept
<1>4. CASE Door!Raise
  <2>1. /\ tick'.batch = tick.batch /\ tick'.flow = tick.flow /\ tick'.pc \notin InBatch /\ ~Door!Mark
    BY <1>0, <1>4 DEF Door!Raise, Door!Mark, Door!At, InBatch, Ticks
  <2> QED
    BY <1>0, <2>1, BatchKept
<1>5. CASE Door!LoadEvents
  <2>0. UNCHANGED <<events, flow>>
    BY <1>5 DEF Door!LoadEvents
  <2>1. CASE tick' = [tick EXCEPT !.pc = "requeue"]
    BY <1>0, <2>0, <2>1, BatchKept DEF InBatch, Ticks
  <2>2. ASSUME NEW list \in Seq(Nat),
               tick' = [tick EXCEPT !.batch = list, !.flow = flow, !.pc = "match"],
               list # <<>>, \A x \in DOMAIN list : list[x] \in Door!Unprocessed,
               \A x, y \in DOMAIN list : x # y => list[x] # list[y]
        PROVE  BatchIsFresh'
    <3>1. tick'.batch = list /\ tick'.flow = flow
      BY <1>0, <2>2 DEF Ticks
    <3> QED
      BY <2>0, <2>2, <3>1 DEF BatchIsFresh, Door!Unprocessed
  <2> QED
    BY <1>5, <2>1, <2>2, LoadFacts
<1>6. CASE Door!Look \/ Door!Insert \/ Door!Plant
  <2>1. /\ tick'.batch = tick.batch /\ tick'.flow = tick.flow /\ tick.pc \in InBatch
        /\ UNCHANGED events
    BY <1>0, <1>6 DEF Door!Look, Door!Insert, Door!Plant, Door!At, InBatch, Ticks
  <2> QED
    BY <1>0, <2>1, BatchKept
<1>7. CASE Door!Mark
  <2>1. /\ tick.batch \in Seq(Nat) /\ tick.batch # <<>> /\ Door!Now = tick.batch[1]
        /\ 1 \in DOMAIN tick.batch /\ tick.pc \in InBatch
    BY <1>7, NowIsFresh DEF Door!Mark, Door!At, InBatch
  <2>2. /\ tick'.batch = Tail(tick.batch)
        /\ tick'.pc \in InBatch => Len(tick.batch) # 1 /\ tick'.flow = tick.flow
        /\ flow' = flow
    BY <1>0, <1>7 DEF Door!Mark, InBatch, Ticks
  <2>3. DOMAIN events' = DOMAIN events /\ \A i \in DOMAIN events : i # Door!Now => events'[i] = events[i]
    BY <1>7, MarkChanges
  <2>4. /\ \A x \in DOMAIN Tail(tick.batch) :
             Tail(tick.batch)[x] = tick.batch[x + 1] /\ x + 1 \in DOMAIN tick.batch
        /\ Len(tick.batch) # 1 => Tail(tick.batch) # <<>>
        /\ DOMAIN Tail(tick.batch) \subseteq Nat \ {0}
    BY <2>1, Shorter, SeqParts, SMTT(30)
  <2>5. ASSUME NEW x \in DOMAIN Tail(tick.batch)
        PROVE  /\ tick.batch[x + 1] \in DOMAIN events /\ ~events'[tick.batch[x + 1]].processed
               /\ \A y \in DOMAIN Tail(tick.batch) : x # y => tick.batch[x + 1] # tick.batch[y + 1]
    <3>1. x + 1 \in DOMAIN tick.batch /\ x + 1 # 1 /\ x \in Nat
      BY <2>4
    <3>2. tick.batch[x + 1] # Door!Now /\ tick.batch[x + 1] \in DOMAIN events
          /\ ~events[tick.batch[x + 1]].processed
      BY <2>1, <3>1 DEF BatchIsFresh
    <3>3. ASSUME NEW y \in DOMAIN Tail(tick.batch), x # y
          PROVE  tick.batch[x + 1] # tick.batch[y + 1]
      <4>1. y + 1 \in DOMAIN tick.batch /\ y \in Nat /\ x + 1 # y + 1
        BY <2>4, <3>1, <3>3
      <4> QED
        BY <3>1, <4>1 DEF BatchIsFresh
    <3> QED
      BY <2>3, <3>2, <3>3
  <2>6. tick'.pc \in InBatch => tick'.batch # <<>> /\ tick'.flow.again = flow'.again
    BY <2>1, <2>2, <2>4 DEF BatchIsFresh
  <2>7. \A x \in DOMAIN tick'.batch :
          /\ tick'.batch[x] \in DOMAIN events' /\ ~events'[tick'.batch[x]].processed
          /\ \A y \in DOMAIN tick'.batch : x # y => tick'.batch[x] # tick'.batch[y]
    BY <2>2, <2>3, <2>4, <2>5
  <2> QED
    BY <2>6, <2>7 DEF BatchIsFresh
<1>8. CASE /\ tick.pc \in InBatch /\ UNCHANGED <<events, enrolled>>
           /\ tick' = [tick EXCEPT !.error = TRUE, !.row = Door!None, !.pc = "mark"]
  <2>1. tick'.batch = tick.batch /\ tick'.flow = tick.flow
    BY <1>0, <1>8 DEF Ticks
  <2> QED
    BY <1>0, <1>8, <2>1, BatchKept
<1> QED
  BY <1>1, <1>2, <1>3, <1>4, <1>5, <1>6, <1>7, <1>8, TickMoves

-----------------------------------------------------------------------------
(* What the look found, and what is marked.                                *)

LEMMA PastStays == [Door!Next]_(Door!vars) /\ DoorTypes => past \subseteq past' /\ troubles <= troubles'
<1> SUFFICES ASSUME [Door!Next]_(Door!vars), DoorTypes PROVE past \subseteq past' /\ troubles <= troubles'
  OBVIOUS
<1>0. troubles \in Nat
  BY DEF DoorTypes
<1>1. ASSUME NEW c \in Clients, \/ Door!Happens(c) \/ Door!DoneByItself(c) \/ Door!GoesQuiet(c) \/ Door!Stirs(c)
                              \/ Door!GetsPastIt(c) \/ Door!AskByHand(c)
      PROVE  past \subseteq past' /\ troubles <= troubles'
  BY <1>0, <1>1 DEF Door!Happens, Door!DoneByItself, Door!GoesQuiet, Door!Stirs,
    Door!GetsPastIt, Door!AskByHand, Door!counts
<1>2. ASSUME NEW s, Door!SetStatus(s) PROVE past \subseteq past' /\ troubles <= troubles'
  BY <1>0, <1>2 DEF Door!SetStatus
<1>3. CASE Door!TickStep \/ Door!HandStep \/ \E i \in DOMAIN enrolled : Door!RunsOut(i) \/ Door!CooldownPasses(i)
  <2>1. past' = past
    BY <1>3 DEF Door!TickStep, Door!HandStep, Door!RunsOut, Door!CooldownPasses,
      Door!TimeTriggerRows, Door!Raise,
      Door!LoadEvents, Door!Look, Door!Insert, Door!Plant, Door!Mark, Door!Requeue,
        Door!StopRunning, Door!LookByHand, Door!InsertByHand,
      Door!PlantByHand
  <2>2. troubles' = troubles
    BY <1>3 DEF Door!TickStep, Door!HandStep, Door!RunsOut, Door!CooldownPasses,
      Door!TimeTriggerRows, Door!Raise,
      Door!LoadEvents, Door!Look, Door!Insert, Door!Plant, Door!Mark, Door!Requeue,
        Door!StopRunning, Door!LookByHand, Door!InsertByHand,
      Door!PlantByHand, Door!counts
  <2> QED
    BY <1>0, <2>1, <2>2
<1>4. CASE Door!StartTick \/ Door!Throw \/ Door!FiveMinutesPass \/ Door!Exit \/ Door!Publish \/ UNCHANGED Door!vars
  BY <1>0, <1>4 DEF Door!StartTick, Door!Throw, Door!FiveMinutesPass, Door!Exit,
    Door!Publish, Door!vars, Door!counts
<1> QED
  BY <1>1, <1>2, <1>3, <1>4 DEF Door!Next

(* Where the tick waits, nobody but a person adds rows.                    *)
LEMMA MeanwhileRows ==
  ASSUME DoorTypes, BatchIsFresh, ReasonToMark, HandKnown, [Door!Next]_(Door!vars), ~Door!Insert, NEW c
  PROVE  /\ ByTick(c)' = ByTick(c) /\ Lately(c)' \subseteq Lately(c) /\ Door!Of(c) \subseteq Door!Of(c)'
         /\ DOMAIN enrolled \subseteq DOMAIN enrolled'
<1>1. CASE RowsStay
  <2>1. DOMAIN enrolled' = DOMAIN enrolled
    BY <1>1 DEF RowsStay
  <2> QED
    BY <1>1, <2>1, RowsStayWhose
<1>2. CASE Door!InsertByHand
  <2>1. hand.client \in Clients /\ Door!None \in Nat /\ Door!InsertEnrolled(hand.client, Door!None)
    BY <1>2 DEF Door!InsertByHand, HandKnown, Door!None
  <2>2. CASE enrolled' = enrolled
    <3>1. RowsStay
      BY <2>2, NothingStays
    <3> QED
      BY <2>2, <3>1, RowsStayWhose
  <2>3. CASE RowAdded(hand.client, Door!None)
    <3>1. DOMAIN enrolled \subseteq DOMAIN enrolled'
      BY <2>3 DEF RowAdded
    <3> QED
      BY <2>3, <3>1, RowAddedWhose
  <2> QED
    BY <2>1, <2>2, <2>3, InsertAdds
<1> QED
  BY <1>1, <1>2, EveryStepOnRows

(* An insertion of the tick.                                               *)
LEMMA TickInserts ==
  ASSUME DoorTypes, BatchIsFresh, Door!Insert
  PROVE  /\ UNCHANGED <<events, flow, past, hand, hands, troubles>>
         /\ tick'.batch = tick.batch /\ tick'.flow = tick.flow /\ tick'.error = tick.error
         /\ Door!Now' = Door!Now /\ events[Door!Now].client \in Clients /\ Door!Now \in Nat \ {Door!None}
         /\ tick.pc = "insert"
         /\ \/ enrolled' = enrolled /\ Door!Of(events[Door!Now].client) # {} /\ tick'.pc = "mark"
            \/ /\ RowAdded(events[Door!Now].client, Door!Now) /\ tick'.pc = "plant"
               /\ tick'.row = Len(enrolled) + 1
<1>0. tick \in Ticks /\ tick.pc = "insert" /\ Door!InsertEnrolled(events[Door!Now].client, Door!Now)
  BY DEF DoorTypes, Door!Insert, Door!At
<1>1. events[Door!Now].client \in Clients /\ Door!Now \in Nat \ {Door!None}
  BY <1>0, NowIsFresh DEF InBatch, Door!Event
<1>2. tick'.batch = tick.batch /\ tick'.flow = tick.flow /\ tick'.error = tick.error
  BY <1>0 DEF Door!Insert, Ticks
<1>3. Door!Now' = Door!Now
  BY <1>2 DEF Door!Now
<1>4. UNCHANGED <<events, flow, past, hand, hands, troubles>>
  BY DEF Door!Insert, Door!counts
<1>5. CASE enrolled' = enrolled /\ Door!Of(events[Door!Now].client) # {}
  BY <1>0, <1>1, <1>2, <1>3, <1>4, <1>5 DEF Door!Insert, Ticks
<1>6. CASE RowAdded(events[Door!Now].client, Door!Now)
  <2>1. enrolled' # enrolled
    BY <1>6 DEF RowAdded
  <2>2. tick'.pc = "plant" /\ tick'.row = Len(enrolled) + 1
    BY <1>0, <2>1 DEF Door!Insert, Ticks
  <2> QED
    BY <1>0, <1>1, <1>2, <1>3, <1>4, <1>6, <2>2
<1> QED
  BY <1>0, <1>1, <1>5, <1>6, InsertAdds

(* The look refuses whom there are rows of.                                *)
LEMMA RefusedHasRows ==
  ASSUME NEW f, NEW c, f.again \in {"never", "later", "always"}
  PROVE  /\ Door!Refused(f, c) => Door!Of(c) # {}
         /\ ~Door!Refused(f, c) /\ f.again = "never" => ByTick(c) = {}
         /\ ~Door!Refused(f, c) /\ f.again = "later" => Lately(c) = {}
BY DEF Door!Refused, ByTick, Lately, Door!Of

LEMMA LookFinds ==
  ASSUME DoorTypes, BatchIsFresh, Door!Look
  PROVE  /\ UNCHANGED <<events, enrolled, flow, past, hand, hands, troubles>>
         /\ tick'.batch = tick.batch /\ tick'.flow = tick.flow /\ tick'.error = tick.error
         /\ Door!Now' = Door!Now /\ tick.pc = "match"
         /\ \/ /\ tick'.pc = "insert" /\ events[Door!Now].kind # "own"
               /\ flow.again = "never" => ByTick(events[Door!Now].client) = {}
               /\ flow.again = "later" => Lately(events[Door!Now].client) = {}
            \/ /\ tick'.pc = "mark"
               /\ \/ ~Door!Running(tick.flow) \/ events[Door!Now].kind = "own"
                  \/ events[Door!Now].client \in past \/ Door!Of(events[Door!Now].client) # {}
<1>0. tick \in Ticks /\ tick.pc = "match" /\ tick.flow.again = flow.again
  BY DEF DoorTypes, Door!Look, Door!At, BatchIsFresh, InBatch
<1>1. tick.flow.again \in {"never", "later", "always"}
  BY <1>0 DEF DoorTypes, Door!Flow
<1> DEFINE takes == /\ Door!Running(tick.flow) /\ Door!Matches(events[Door!Now]) /\ events[Door!Now].client \notin past
                    /\ ~Door!Refused(tick.flow, events[Door!Now].client)
<1>2. /\ tick' = [tick EXCEPT !.pc = IF takes THEN "insert" ELSE "mark"]
      /\ UNCHANGED <<events, enrolled, flow, past, hand, hands, troubles>>
  BY DEF Door!Look, Door!counts
<1>3. Door!Matches(events[Door!Now]) <=> events[Door!Now].kind # "own"
  BY DEF Door!Matches
<1>4. /\ Door!Refused(tick.flow, events[Door!Now].client) => Door!Of(events[Door!Now].client) # {}
      /\ ~Door!Refused(tick.flow, events[Door!Now].client) /\ flow.again = "never"
           => ByTick(events[Door!Now].client) = {}
      /\ ~Door!Refused(tick.flow, events[Door!Now].client) /\ flow.again = "later"
           => Lately(events[Door!Now].client) = {}
  BY <1>0, <1>1, RefusedHasRows
<1>5. CASE takes
  <2>1. tick'.pc = "insert" /\ tick'.batch = tick.batch /\ tick'.flow = tick.flow
        /\ tick'.error = tick.error
    BY <1>0, <1>2, <1>5 DEF Ticks
  <2>2. Door!Now' = Door!Now
    BY <2>1 DEF Door!Now
  <2> QED
    BY <1>0, <1>2, <1>3, <1>4, <1>5, <2>1, <2>2
<1>6. CASE ~takes
  <2>1. tick'.pc = "mark" /\ tick'.batch = tick.batch /\ tick'.flow = tick.flow
        /\ tick'.error = tick.error
    BY <1>0, <1>2, <1>6 DEF Ticks
  <2>2. Door!Now' = Door!Now
    BY <2>1 DEF Door!Now
  <2> QED
    BY <1>0, <1>2, <1>3, <1>4, <1>6, <2>1, <2>2
<1> QED
  BY <1>5, <1>6

LEMMA PlantMoves ==
  ASSUME DoorTypes, BatchIsFresh, Door!Plant
  PROVE  /\ UNCHANGED <<events, flow, past, hand, hands, troubles>>
         /\ tick'.batch = tick.batch /\ tick'.flow = tick.flow /\ Door!Now' = Door!Now
         /\ tick.pc = "plant" /\ tick'.pc = "mark"
<1>0. tick \in Ticks
  BY DEF DoorTypes
<1>1. tick'.batch = tick.batch /\ tick'.flow = tick.flow /\ tick'.pc = "mark"
  BY <1>0 DEF Door!Plant, Ticks
<1> QED
  BY <1>1 DEF Door!Plant, Door!At, Door!Now, Door!counts

(* The other moves lead nowhere a client is taken.                         *)
LEMMA ElsewhereMoves ==
  ASSUME DoorTypes, tick' = Door!Idle \/ Door!StartTick \/ Door!TimeTriggerRows \/ Door!Raise \/ Door!LoadEvents \/ Door!Mark
  PROVE  tick'.pc \notin {"insert", "plant", "mark"}
         /\ (tick'.pc \in InBatch => Door!LoadEvents \/ Door!Mark)
<1>0. tick \in Ticks
  BY DEF DoorTypes
<1>1. CASE tick' = Door!Idle \/ Door!StartTick
  BY <1>1 DEF Door!StartTick, Door!Idle, InBatch
<1>2. CASE Door!TimeTriggerRows \/ Door!Raise
  BY <1>0, <1>2 DEF Door!TimeTriggerRows, Door!Raise, InBatch, Ticks
<1>3. CASE Door!LoadEvents
  BY <1>0, <1>3, LoadFacts DEF Ticks
<1>4. CASE Door!Mark
  BY <1>0, <1>4 DEF Door!Mark, Ticks
<1> QED
  BY <1>1, <1>2, <1>3, <1>4

LEMMA StandsStep ==
  ASSUME DoorTypes, BatchIsFresh, StandsWhenInserted, ReasonToMark, HandKnown, EventsSound,
         [Door!Next]_(Door!vars)
  PROVE  StandsWhenInserted'
<1>0. flow'.again = flow.again /\ EventsStay
  BY TypesStep, EveryStepOnEvents
<1> SUFFICES ASSUME tick'.pc = "insert"
             PROVE  /\ events'[Door!Now'].kind # "own"
                    /\ \A c \in Clients : events'[Door!Now'].client = c =>
                         /\ flow'.again = "never" => ByTick(c)' = {}
                         /\ flow'.again = "later" => Lately(c)' = {}
  BY DEF StandsWhenInserted
<1>1. CASE UNCHANGED tick /\ ~Door!Mark /\ ~Door!Insert
  <2>1. Door!Now' = Door!Now /\ tick.pc = "insert" /\ Door!Now \in DOMAIN events
    BY <1>1, NowIsFresh DEF Door!Now, InBatch
  <2>2. events'[Door!Now'].client = events[Door!Now].client /\ events'[Door!Now'].kind = events[Door!Now].kind
    BY <1>0, <2>1 DEF EventsStay
  <2>3. \A c \in Clients : ByTick(c)' = ByTick(c) /\ Lately(c)' \subseteq Lately(c)
    BY <1>1, MeanwhileRows
  <2> QED
    BY <1>0, <2>1, <2>2, <2>3 DEF StandsWhenInserted
<1>2. CASE Door!Look
  <2>1. /\ Door!Now' = Door!Now /\ UNCHANGED <<events, enrolled, flow>> /\ events[Door!Now].kind # "own"
        /\ flow.again = "never" => ByTick(events[Door!Now].client) = {}
        /\ flow.again = "later" => Lately(events[Door!Now].client) = {}
    BY <1>2, LookFinds
  <2>2. \A c \in Clients : ByTick(c)' = ByTick(c) /\ Lately(c)' = Lately(c)
    BY <2>1 DEF ByTick, Lately, Door!Of
  <2> QED
    BY <2>1, <2>2
<1>3. CASE Door!Insert \/ Door!Plant
  BY <1>3, TickInserts, PlantMoves
<1>4. CASE tick' = [tick EXCEPT !.error = TRUE, !.row = Door!None, !.pc = "mark"]
  BY <1>4 DEF DoorTypes, Ticks
<1> QED
  BY <1>1, <1>2, <1>3, <1>4, TickMoves, ElsewhereMoves

LEMMA ReasonStep ==
  ASSUME DoorTypes, BatchIsFresh, ReasonToMark, HandKnown, EventsSound, [Door!Next]_(Door!vars)
  PROVE  ReasonToMark'
<1>0. EventsStay /\ past \subseteq past'
  BY EveryStepOnEvents, PastStays
<1>1. CASE UNCHANGED tick /\ ~Door!Mark /\ ~Door!Insert
  <2>1. CASE tick.pc \in {"plant", "mark"}
    <3>1. Door!Now' = Door!Now /\ Door!Now \in DOMAIN events
      BY <1>1, <2>1, NowIsFresh DEF Door!Now, InBatch
    <3>2. events'[Door!Now'].client = events[Door!Now].client /\ events'[Door!Now'].kind = events[Door!Now].kind
      BY <1>0, <3>1 DEF EventsStay
    <3>3. \A c \in Clients : Door!Of(c) \subseteq Door!Of(c)'
      BY <1>1, MeanwhileRows
    <3>4. Door!Running(tick.flow)' <=> Door!Running(tick.flow)
      BY <1>1 DEF Door!Running
    <3>5. DOMAIN enrolled \subseteq DOMAIN enrolled'
      BY <1>1, MeanwhileRows
    <3>6. tick'.pc = "plant" =>
            /\ tick'.row \in DOMAIN enrolled'
            /\ \A c \in Clients : events'[Door!Now'].client = c => Door!Of(c)' # {}
      BY <1>1, <3>2, <3>3, <3>5 DEF ReasonToMark
    <3>7. tick'.pc = "mark" /\ ~tick'.error =>
            \/ ~Door!Running(tick.flow)' \/ events'[Door!Now'].kind = "own"
            \/ \A c \in Clients : events'[Door!Now'].client = c => c \in past' \/ Door!Of(c)' # {}
      BY <1>0, <1>1, <3>2, <3>3, <3>4 DEF ReasonToMark
    <3> QED
      BY <3>6, <3>7 DEF ReasonToMark
  <2>2. CASE tick.pc \notin {"plant", "mark"}
    BY <1>1, <2>2 DEF ReasonToMark
  <2> QED
    BY <2>1, <2>2
<1>2. CASE Door!Look
  <2>1. /\ Door!Now' = Door!Now /\ UNCHANGED <<events, enrolled, past>> /\ tick'.flow = tick.flow
        /\ tick'.pc # "plant"
        /\ tick'.pc = "mark" => \/ ~Door!Running(tick.flow) \/ events[Door!Now].kind = "own"
                                \/ events[Door!Now].client \in past \/ Door!Of(events[Door!Now].client) # {}
    BY <1>2, LookFinds
  <2>2. \A c \in Clients : Door!Of(c)' = Door!Of(c)
    BY <2>1 DEF Door!Of
  <2>3. Door!Running(tick.flow)' <=> Door!Running(tick.flow)
    BY <2>1 DEF Door!Running
  <2> QED
    BY <2>1, <2>2, <2>3 DEF ReasonToMark
<1>3. CASE Door!Insert
  <2>1. Door!Now' = Door!Now /\ UNCHANGED events /\ events[Door!Now].client \in Clients
    BY <1>3, TickInserts
  <2>2. CASE enrolled' = enrolled /\ Door!Of(events[Door!Now].client) # {} /\ tick'.pc = "mark"
    <3>1. \A c \in Clients : Door!Of(c)' = Door!Of(c)
      BY <2>2 DEF Door!Of
    <3> QED
      BY <2>1, <2>2, <3>1 DEF ReasonToMark
  <2>3. CASE /\ RowAdded(events[Door!Now].client, Door!Now) /\ tick'.pc = "plant"
             /\ tick'.row = Len(enrolled) + 1
    <3>1. \A c \in Clients : events[Door!Now].client = c => Door!Of(c)' # {}
      BY <2>3, RowAddedWhose
    <3>2. tick'.row \in DOMAIN enrolled'
      BY <2>3 DEF RowAdded
    <3> QED
      BY <2>1, <2>3, <3>1, <3>2 DEF ReasonToMark
  <2> QED
    BY <1>3, <2>2, <2>3, TickInserts
<1>4. CASE Door!Plant
  <2>1. Door!Now' = Door!Now /\ UNCHANGED events /\ tick.pc = "plant" /\ tick'.pc = "mark"
    BY <1>4, PlantMoves
  <2>2. RowsStay
    BY <1>4, <2>1, PlantStays DEF Door!Plant, ReasonToMark
  <2>3. \A c \in Clients : Door!Of(c)' = Door!Of(c)
    BY <2>2, RowsStayWhose
  <2> QED
    BY <2>1, <2>3 DEF ReasonToMark
<1>5. CASE tick' = [tick EXCEPT !.error = TRUE, !.row = Door!None, !.pc = "mark"]
  BY <1>5 DEF DoorTypes, Ticks, ReasonToMark
<1>6. CASE tick' = Door!Idle \/ Door!StartTick \/ Door!TimeTriggerRows \/ Door!Raise \/ Door!LoadEvents \/ Door!Mark
  BY <1>6, ElsewhereMoves DEF ReasonToMark
<1> QED
  BY <1>1, <1>2, <1>3, <1>4, <1>5, <1>6, TickMoves

-----------------------------------------------------------------------------
(* Who came in, and how often.                                             *)

LEMMA CameStep ==
  ASSUME DoorTypes, BatchIsFresh, StandsWhenInserted, ReasonToMark, CameByEvents, HandKnown,
         EventsSound, [Door!Next]_(Door!vars)
  PROVE  CameByEvents'
<1>0. EventsStay /\ troubles <= troubles' /\ troubles \in Nat /\ troubles' \in Nat
  BY EveryStepOnEvents, PastStays, TypesStep DEF DoorTypes
<1> DEFINE Told(k) == /\ k \in DOMAIN events' /\ events'[k].kind # "own"
                      /\ troubles' = 0 => \/ events'[k].processed
                                          \/ tick'.pc \in {"plant", "mark"} /\ Door!Now' = k
<1>1. ASSUME NEW i \in DOMAIN enrolled, enrolled[i].by # Door!None
      PROVE  Told(enrolled[i].by)
  <2> DEFINE k == enrolled[i].by
  <2>1. /\ k \in DOMAIN events /\ events[k].kind # "own"
        /\ troubles = 0 => events[k].processed \/ (tick.pc \in {"plant", "mark"} /\ Door!Now = k)
    BY <1>1 DEF CameByEvents
  <2> HIDE DEF k
  <2>2. k \in DOMAIN events' /\ events'[k].kind # "own" /\ (events[k].processed => events'[k].processed)
    BY <1>0, <2>1 DEF EventsStay
  <2>3. ASSUME troubles' = 0, tick.pc \in {"plant", "mark"}, Door!Now = k
        PROVE  events'[k].processed \/ (tick'.pc \in {"plant", "mark"} /\ Door!Now' = k)
    <3>1. CASE UNCHANGED tick
      BY <2>3, <3>1 DEF Door!Now
    <3>2. CASE Door!Plant
      BY <2>3, <3>2, PlantMoves
    <3>3. CASE Door!Mark
      BY <2>3, <3>3, MarkChanges
    <3>4. CASE ~UNCHANGED tick /\ ~Door!Plant /\ ~Door!Mark
      <4>1. ~Door!StartTick /\ ~Door!TimeTriggerRows /\ ~Door!Raise /\ ~Door!LoadEvents /\ ~Door!Look /\ ~Door!Insert /\ ~Door!Requeue
        BY <2>3 DEF Door!StartTick, Door!TimeTriggerRows, Door!Raise, Door!LoadEvents,
          Door!Look, Door!Insert, Door!Requeue, Door!At
      <4>2. Door!Throw \/ Door!Exit
        <5>1. ASSUME NEW c \in Clients, \/ Door!Happens(c) \/ Door!DoneByItself(c) \/ Door!GoesQuiet(c) \/ Door!Stirs(c)
                                      \/ Door!GetsPastIt(c) \/ Door!AskByHand(c)
              PROVE  UNCHANGED tick
          BY <5>1 DEF Door!Happens, Door!DoneByItself, Door!GoesQuiet, Door!Stirs,
            Door!GetsPastIt, Door!AskByHand
        <5>2. ASSUME NEW x \in DOMAIN enrolled, Door!RunsOut(x) \/ Door!CooldownPasses(x)
              PROVE  UNCHANGED tick
          BY <5>2 DEF Door!RunsOut, Door!CooldownPasses
        <5>3. ASSUME NEW s, Door!SetStatus(s) PROVE UNCHANGED tick
          BY <5>3 DEF Door!SetStatus
        <5>4. CASE Door!HandStep \/ Door!Publish \/ Door!FiveMinutesPass \/ UNCHANGED Door!vars
          BY <3>4, <5>4 DEF Door!HandStep, Door!Publish, Door!FiveMinutesPass,
            Door!StopRunning, Door!LookByHand,
            Door!InsertByHand, Door!PlantByHand, Door!vars
        <5> QED
          BY <3>4, <4>1, <5>1, <5>2, <5>3, <5>4 DEF Door!Next, Door!TickStep
      <4> QED
        BY <1>0, <2>3, <4>2 DEF Door!Throw, Door!Exit
    <3> QED
      BY <3>1, <3>2, <3>3, <3>4
  <2>4. Told(k)
    BY <1>0, <2>1, <2>2, <2>3
  <2> QED
    BY <2>4 DEF k
<1>2. CASE RowsStay
  BY <1>1, <1>2 DEF RowsStay, CameByEvents
<1>3. ASSUME NEW c, NEW by, RowAdded(c, by), by # Door!None => Told(by)
      PROVE  CameByEvents'
  <2>1. \A i \in DOMAIN enrolled' : i \in DOMAIN enrolled \/ enrolled'[i].by = by
    BY <1>3 DEF RowAdded
  <2>2. \A i \in DOMAIN enrolled : enrolled'[i] = enrolled[i]
    BY <1>3 DEF RowAdded
  <2>3. \A i \in DOMAIN enrolled' : enrolled'[i].by # Door!None => Told(enrolled'[i].by)
    BY <1>1, <1>3, <2>1, <2>2
  <2> QED
    BY <2>3 DEF CameByEvents
<1>4. CASE Door!Insert
  <2>1. Door!Now \in DOMAIN events /\ events' = events /\ Door!Now' = Door!Now /\ events[Door!Now].kind # "own"
        /\ tick.pc = "insert"
    BY <1>4, TickInserts, NowIsFresh DEF InBatch, StandsWhenInserted
  <2>2. CASE enrolled' = enrolled
    BY <1>2, <2>2, NothingStays
  <2>3. CASE RowAdded(events[Door!Now].client, Door!Now) /\ tick'.pc = "plant"
    <3>1. Told(Door!Now)
      BY <2>1, <2>3
    <3> HIDE DEF Told
    <3> QED
      BY <1>3, <2>3, <3>1
  <2> QED
    BY <1>4, <2>2, <2>3, TickInserts
<1>5. CASE Door!InsertByHand
  <2>1. hand.client \in Clients /\ Door!None \in Nat /\ Door!InsertEnrolled(hand.client, Door!None)
    BY <1>5 DEF Door!InsertByHand, HandKnown, Door!None
  <2>2. CASE enrolled' = enrolled
    BY <1>2, <2>2, NothingStays
  <2> QED
    BY <1>3, <2>1, <2>2, InsertAdds
<1> QED
  BY <1>2, <1>4, <1>5, EveryStepOnRows

LEMMA OnceStep ==
  ASSUME DoorTypes, BatchIsFresh, ReasonToMark, CameByEvents, HandKnown, EventsSound,
         Door!ConsumedOnce, [Door!Next]_(Door!vars)
  PROVE  Door!ConsumedOnce'
<1>0. troubles <= troubles' /\ troubles \in Nat /\ troubles' \in Nat
  BY PastStays, TypesStep DEF DoorTypes
<1>1. CASE RowsStay
  <2>1. \A i, k \in DOMAIN enrolled :
          i # k /\ enrolled[i].by = enrolled[k].by /\ enrolled[i].by # Door!None => troubles' > 0
    <3>1. troubles > 0 => troubles' > 0
      BY <1>0
    <3> QED
      BY <3>1 DEF Door!ConsumedOnce
  <2> QED
    BY <1>1, <2>1 DEF RowsStay, Door!ConsumedOnce
<1>2. ASSUME NEW c, NEW by, RowAdded(c, by), troubles' = troubles,
             by # Door!None => \A i \in DOMAIN enrolled : enrolled[i].by = by => troubles > 0
      PROVE  Door!ConsumedOnce'
  <2>1. \A i \in DOMAIN enrolled' :
          \/ i \in DOMAIN enrolled /\ enrolled'[i] = enrolled[i]
          \/ i = Len(enrolled) + 1 /\ enrolled'[i].by = by
    BY <1>2 DEF RowAdded
  <2> QED
    BY <1>2, <2>1 DEF Door!ConsumedOnce
<1>3. CASE Door!Insert
  <2>1. ASSUME NEW i \in DOMAIN enrolled, enrolled[i].by = Door!Now PROVE troubles > 0
    <3>1. ~events[Door!Now].processed /\ Door!Now # Door!None /\ tick.pc = "insert"
      BY <1>3, NowIsFresh, TickInserts DEF InBatch
    <3> QED
      BY <1>0, <2>1, <3>1 DEF CameByEvents
  <2>2. CASE enrolled' = enrolled
    BY <1>1, <2>2, NothingStays
  <2> QED
    BY <1>2, <1>3, <2>1, <2>2, TickInserts
<1>4. CASE Door!InsertByHand
  <2>1. hand.client \in Clients /\ Door!None \in Nat /\ Door!InsertEnrolled(hand.client, Door!None)
        /\ troubles' = troubles
    BY <1>4 DEF Door!InsertByHand, HandKnown, Door!None, Door!counts
  <2>2. CASE enrolled' = enrolled
    BY <1>1, <2>2, NothingStays
  <2> QED
    BY <1>2, <2>1, <2>2, InsertAdds
<1> QED
  BY <1>1, <1>3, <1>4, EveryStepOnRows

LEMMA OftenStep ==
  ASSUME DoorTypes, BatchIsFresh, StandsWhenInserted, ReasonToMark, HandKnown, EventsSound,
         TakenOften, [Door!Next]_(Door!vars)
  PROVE  TakenOften'
<1>0. flow'.again = flow.again
  BY TypesStep
<1> SUFFICES ASSUME NEW c \in Clients
             PROVE  /\ flow.again = "never" => Cardinality(ByTick(c)') <= 1
                    /\ flow.again = "later" => Cardinality(Lately(c)') <= 1
  BY <1>0 DEF TakenOften
<1>1. /\ IsFiniteSet(ByTick(c)) /\ IsFiniteSet(Lately(c)) /\ Cardinality(Lately(c)) \in Nat
      /\ flow.again = "never" => Cardinality(ByTick(c)) <= 1
      /\ flow.again = "later" => Cardinality(Lately(c)) <= 1
  BY FewRows, FS_CardinalityType DEF TakenOften
<1>2. ASSUME ByTick(c)' = ByTick(c), Lately(c)' \subseteq Lately(c)
      PROVE  /\ flow.again = "never" => Cardinality(ByTick(c)') <= 1
             /\ flow.again = "later" => Cardinality(Lately(c)') <= 1
  <2>1. Cardinality(Lately(c)') <= Cardinality(Lately(c)) /\ Cardinality(Lately(c)') \in Nat
    BY <1>1, <1>2, FS_Subset, FS_CardinalityType
  <2> QED
    BY <1>1, <1>2, <2>1
<1>3. CASE ~Door!Insert
  BY <1>2, <1>3, MeanwhileRows
<1>4. CASE Door!Insert
  <2>1. CASE enrolled' = enrolled
    BY <1>2, <2>1, NothingStays, RowsStayWhose
  <2>2. CASE RowAdded(events[Door!Now].client, Door!Now)
    <3>1. Door!Now \in Nat \ {Door!None} /\ tick.pc = "insert"
      BY <1>4, TickInserts
    <3>2. CASE events[Door!Now].client # c
      BY <1>2, <2>2, <3>2, RowAddedWhose
    <3>3. CASE events[Door!Now].client = c
      <4> DEFINE n == Len(enrolled) + 1
      <4>1. ByTick(c)' = ByTick(c) \cup {n} /\ Lately(c)' \subseteq Lately(c) \cup {n}
        BY <2>2, <3>1, <3>3, RowAddedWhose
      <4>2. (flow.again = "never" => ByTick(c) = {}) /\ (flow.again = "later" => Lately(c) = {})
        BY <3>1, <3>3 DEF StandsWhenInserted
      <4>3. IsFiniteSet({n}) /\ Cardinality({n}) = 1
        BY FS_Singleton
      <4> HIDE DEF n
      <4>4. \A S \in SUBSET {n} : Cardinality(S) <= 1
        BY <4>3, FS_Subset
      <4> QED
        BY <4>1, <4>2, <4>4
    <3> QED
      BY <3>2, <3>3
  <2> QED
    BY <1>4, <2>1, <2>2, TickInserts
<1> QED
  BY <1>3, <1>4

-----------------------------------------------------------------------------
(* Requests, and what is raised.                                           *)

LEMMA CountedStep ==
  ASSUME DoorTypes, BatchIsFresh, ReasonToMark, HandKnown, HandsCounted, EventsSound, [Door!Next]_(Door!vars)
  PROVE  HandsCounted'
<1> DEFINE Busy == hand.pc \in {"look", "insert"}
           More(k) == IF hand'.pc \in {"look", "insert"} THEN k + 1 ELSE k
<1>0. hands \in Nat /\ hand \in Hands
  BY DEF DoorTypes
<1> SUFFICES ASSUME NEW c \in Clients
             PROVE  Cardinality(ByHand(c)') + (IF hand'.pc \in {"look", "insert"} THEN 1 ELSE 0)
                      <= hands'
  BY DEF HandsCounted
<1>1. /\ IsFiniteSet(ByHand(c)) /\ Cardinality(ByHand(c)) \in Nat
      /\ Busy => Cardinality(ByHand(c)) + 1 <= hands
      /\ Cardinality(ByHand(c)) <= hands
  <2>1. IsFiniteSet(ByHand(c)) /\ Cardinality(ByHand(c)) \in Nat
    BY FewRows, FS_CardinalityType
  <2>2. Cardinality(ByHand(c)) + (IF Busy THEN 1 ELSE 0) <= hands
    BY DEF HandsCounted
  <2>3. CASE Busy
    BY <1>0, <2>1, <2>2, <2>3
  <2>4. CASE ~Busy
    BY <1>0, <2>1, <2>2, <2>4
  <2> QED
    BY <2>1, <2>3, <2>4
<1>2. CASE Door!InsertByHand
  <2>1. /\ hand.pc = "insert" /\ hand.client \in Clients /\ Door!None \in Nat
        /\ Door!InsertEnrolled(hand.client, Door!None) /\ hands' = hands
    BY <1>2 DEF Door!InsertByHand, HandKnown, Door!None, Door!counts
  <2>2. hand'.pc \notin {"look", "insert"}
    BY <1>0, <1>2 DEF Door!InsertByHand, Door!NoHand, Hands
  <2>3. ByHand(c)' \subseteq ByHand(c) \cup {Len(enrolled) + 1}
    <3>1. CASE enrolled' = enrolled
      BY <3>1, NothingStays, RowsStayWhose
    <3>2. CASE RowAdded(hand.client, Door!None)
      BY <3>2, RowAddedWhose
    <3> QED
      BY <2>1, <3>1, <3>2, InsertAdds
  <2>4. Cardinality(ByHand(c)') <= Cardinality(ByHand(c)) + 1 /\ Cardinality(ByHand(c)') \in Nat
    <3> DEFINE n == Len(enrolled) + 1
               S == ByHand(c) \cup {n}
    <3>1. IsFiniteSet(S) /\ Cardinality(S) <= Cardinality(ByHand(c)) + 1 /\ Cardinality(S) \in Nat
      <4> HIDE DEF n
      <4>1. IsFiniteSet(S) /\ (Cardinality(S) = Cardinality(ByHand(c)) \/ Cardinality(S) = Cardinality(ByHand(c)) + 1)
        BY <1>1, FS_AddElement
      <4> QED
        BY <1>1, <4>1
    <3> HIDE DEF S
    <3>2. ByHand(c)' \subseteq S
      BY <2>3 DEF S
    <3>3. Cardinality(ByHand(c)') <= Cardinality(S) /\ Cardinality(ByHand(c)') \in Nat
      BY <3>1, <3>2, FS_Subset, FS_CardinalityType
    <3> QED
      BY <1>1, <3>1, <3>3
  <2> QED
    BY <1>0, <1>1, <2>1, <2>2, <2>4
<1>3. CASE ~Door!InsertByHand
  <2>1. ByHand(c)' = ByHand(c)
    <3>1. CASE RowsStay
      BY <3>1, RowsStayWhose
    <3>2. CASE Door!Insert
      <4>1. Door!Now # Door!None
        BY <3>2, TickInserts
      <4>2. CASE enrolled' = enrolled
        BY <4>2, NothingStays, RowsStayWhose
      <4>3. CASE RowAdded(events[Door!Now].client, Door!Now)
        BY <4>1, <4>3, RowAddedWhose
      <4> QED
        BY <3>2, <4>2, <4>3, TickInserts
    <3> QED
      BY <1>3, <3>1, <3>2, EveryStepOnRows
  <2>2. \/ hands' = hands + 1
        \/ hands' = hands /\ (hand'.pc \in {"look", "insert"} => Busy)
    <3>1. ASSUME NEW d \in Clients, Door!AskByHand(d) PROVE hands' = hands + 1
      BY <3>1 DEF Door!AskByHand
    <3>2. ASSUME NEW d \in Clients, Door!Happens(d) \/ Door!DoneByItself(d) \/ Door!GoesQuiet(d) \/ Door!Stirs(d)
                                    \/ Door!GetsPastIt(d)
          PROVE  UNCHANGED <<hand, hands>>
      BY <3>2 DEF Door!Happens, Door!DoneByItself, Door!GoesQuiet, Door!Stirs,
        Door!GetsPastIt, Door!counts
    <3>3. CASE Door!StartTick \/ Door!TickStep \/ Door!Throw \/ Door!FiveMinutesPass \/ Door!Publish \/ UNCHANGED Door!vars
      <4>1. UNCHANGED <<hand, hands>>
        BY <3>3 DEF Door!StartTick, Door!TickStep, Door!Throw, Door!FiveMinutesPass,
          Door!Publish, Door!TimeTriggerRows, Door!Raise,
          Door!LoadEvents, Door!Look, Door!Insert, Door!Plant, Door!Mark, Door!Requeue,
            Door!vars, Door!counts
      <4> QED
        BY <4>1
    <3>4. ASSUME NEW i \in DOMAIN enrolled, Door!RunsOut(i) \/ Door!CooldownPasses(i)
          PROVE  UNCHANGED <<hand, hands>>
      BY <3>4 DEF Door!RunsOut, Door!CooldownPasses, Door!counts
    <3>5. ASSUME NEW s, Door!SetStatus(s)
          PROVE  hands' = hands /\ hand'.pc \notin {"look", "insert"}
      BY <3>5 DEF Door!SetStatus, Door!NoHand
    <3>6. CASE Door!LookByHand
      BY <1>0, <3>6 DEF Door!LookByHand, Door!counts
    <3>7. CASE Door!StopRunning \/ Door!PlantByHand \/ Door!Exit
      BY <3>7 DEF Door!StopRunning, Door!PlantByHand, Door!Exit, Door!NoHand,
        Door!counts
    <3> QED
      BY <1>3, <3>1, <3>2, <3>3, <3>4, <3>5, <3>6, <3>7 DEF Door!Next, Door!HandStep
  <2> QED
    BY <1>0, <1>1, <2>1, <2>2
<1> QED
  BY <1>2, <1>3

LEMMA HandStays ==
  ASSUME DoorTypes, BatchIsFresh, ReasonToMark, HandKnown, [Door!Next]_(Door!vars)
  PROVE  HandKnown'
<1>0. hand \in Hands
  BY DEF DoorTypes
<1>1. DOMAIN enrolled \subseteq DOMAIN enrolled'
  <2>1. CASE Door!Insert
    BY <2>1, TickInserts DEF RowAdded
  <2> QED
    BY <2>1, MeanwhileRows
<1>2. CASE Door!InsertByHand
  <2>1. hand.client \in Clients /\ Door!None \in Nat /\ Door!InsertEnrolled(hand.client, Door!None)
    BY <1>2 DEF Door!InsertByHand, HandKnown, Door!None
  <2>2. hand'.pc \notin {"look", "insert"} /\ (hand'.pc = "plant" => enrolled' # enrolled
          /\ hand'.row = Len(enrolled) + 1)
    BY <1>0, <1>2 DEF Door!InsertByHand, Door!NoHand, Hands
  <2>3. hand'.pc = "plant" => hand'.row \in DOMAIN enrolled'
    BY <2>1, <2>2, InsertAdds DEF RowAdded
  <2> QED
    BY <2>2, <2>3 DEF HandKnown
<1>3. CASE UNCHANGED hand
  BY <1>1, <1>3 DEF HandKnown
<1>4. ASSUME NEW d \in Clients, Door!AskByHand(d) PROVE HandKnown'
  BY <1>4 DEF Door!AskByHand, HandKnown, Door!NoHand
<1>5. ASSUME NEW s, Door!SetStatus(s) PROVE HandKnown'
  BY <1>5 DEF Door!SetStatus, HandKnown, Door!NoHand
<1>6. CASE Door!LookByHand
  BY <1>0, <1>6 DEF Door!LookByHand, HandKnown, Door!NoHand, Hands
<1>7. CASE Door!StopRunning \/ Door!PlantByHand \/ Door!Exit
  BY <1>7 DEF Door!StopRunning, Door!PlantByHand, Door!Exit, HandKnown, Door!NoHand
<1>8. CASE ~UNCHANGED hand
  <2>1. ASSUME NEW d \in Clients, Door!Happens(d) \/ Door!DoneByItself(d) \/ Door!GoesQuiet(d) \/ Door!Stirs(d)
                                  \/ Door!GetsPastIt(d)
        PROVE  UNCHANGED hand
    BY <2>1 DEF Door!Happens, Door!DoneByItself, Door!GoesQuiet, Door!Stirs,
      Door!GetsPastIt
  <2>2. CASE Door!StartTick \/ Door!TickStep \/ Door!Throw \/ Door!FiveMinutesPass \/ Door!Publish \/ UNCHANGED Door!vars
    BY <1>8, <2>2 DEF Door!StartTick, Door!TickStep, Door!Throw, Door!FiveMinutesPass,
      Door!Publish, Door!TimeTriggerRows, Door!Raise,
      Door!LoadEvents, Door!Look, Door!Insert, Door!Plant, Door!Mark, Door!Requeue,
        Door!vars
  <2>3. ASSUME NEW i \in DOMAIN enrolled, Door!RunsOut(i) \/ Door!CooldownPasses(i)
        PROVE  UNCHANGED hand
    BY <2>3 DEF Door!RunsOut, Door!CooldownPasses
  <2> QED
    BY <1>2, <1>4, <1>5, <1>6, <1>7, <1>8, <2>1, <2>2, <2>3 DEF Door!Next, Door!HandStep
<1> QED
  BY <1>3, <1>8

LEMMA RaisedStep ==
  ASSUME DoorTypes, BatchIsFresh, ReasonToMark, EventsSound, [Door!Next]_(Door!vars)
  PROVE  \A e \in tick'.rows : e.kind = "quiet" /\ e.crossed > 0 /\ ~e.missed /\ ~e.processed
<1>0. tick \in Ticks
  BY DEF DoorTypes
<1>1. CASE tick'.rows \subseteq tick.rows
  BY <1>1 DEF EventsSound
<1>2. CASE Door!TimeTriggerRows
  <2>1. PICK rows \in SUBSET {c \in Clients : Door!Running(flow) /\ Door!Qualifies(c)} :
          tick' = [tick EXCEPT !.rows = {Door!NewEvent("quiet", c) : c \in rows},
                               !.pc = IF rows = {} THEN "load" ELSE "raise"]
    BY <1>2 DEF Door!TimeTriggerRows
  <2>2. tick'.rows = {Door!NewEvent("quiet", c) : c \in rows}
    BY <1>0, <2>1 DEF Ticks
  <2>3. ASSUME NEW c \in rows
        PROVE  LET e == Door!NewEvent("quiet", c) IN
                 e.kind = "quiet" /\ e.crossed > 0 /\ ~e.missed /\ ~e.processed
    <3>1. quiet[c].crossed >= flow.version /\ flow.version > 0 /\ flow.version \in Nat
          /\ quiet[c].crossed \in Nat
      BY DEF Door!Qualifies, Door!Running, DoorTypes, Door!Flow, Door!Quiet
    <3>2. quiet[c].crossed > 0
      BY <3>1
    <3> QED
      BY <3>2, EventIsNew
  <2> QED
    BY <2>2, <2>3
<1>3. CASE tick' = Door!Idle \/ Door!StartTick
  BY <1>3 DEF Door!StartTick, Door!Idle
<1>4. CASE Door!Raise \/ Door!Look \/ Door!Insert \/ Door!Plant \/ Door!Mark
  <2>1. tick'.rows \subseteq tick.rows
    <3>1. CASE Door!Raise
      BY <1>0, <3>1 DEF Door!Raise, Ticks
    <3>2. CASE Door!Look
      BY <1>0, <3>2 DEF Door!Look, Ticks
    <3>3. CASE Door!Insert \/ Door!Plant
      BY <1>0, <3>3 DEF Door!Insert, Door!Plant, Ticks
    <3>4. CASE Door!Mark
      BY <1>0, <3>4 DEF Door!Mark, Ticks
    <3> QED
      BY <1>4, <3>1, <3>2, <3>3, <3>4
  <2> QED
    BY <1>1, <2>1
<1>5. CASE Door!LoadEvents
  BY <1>0, <1>1, <1>5, LoadFacts DEF Ticks
<1>6. CASE tick' = [tick EXCEPT !.error = TRUE, !.row = Door!None, !.pc = "mark"]
  BY <1>0, <1>1, <1>6 DEF Ticks
<1> QED
  BY <1>1, <1>2, <1>3, <1>4, <1>5, <1>6, TickMoves

LEMMA SoundStep ==
  ASSUME DoorTypes, BatchIsFresh, ReasonToMark, EventsSound, [Door!Next]_(Door!vars)
  PROVE  EventsSound'
<1>1. CASE UNCHANGED events
  BY <1>1, RaisedStep DEF EventsSound, Door!OneEventPerSpell, Door!HandledMeansTaken
<1>2. CASE Door!Mark
  <2>1. ~events'[Door!Now].missed
    <3>1. events[Door!Now].client \in Clients /\ tick.pc = "mark"
      BY <1>2, NowIsFresh DEF Door!Mark, Door!At, InBatch, Door!Event
    <3> QED
      BY <1>2, <3>1, MarkChanges DEF ReasonToMark
  <2>2. \A i \in DOMAIN events' :
          /\ i \in DOMAIN events /\ events'[i].kind = events[i].kind
          /\ events'[i].client = events[i].client /\ events'[i].spell = events[i].spell
          /\ events'[i].crossed = events[i].crossed /\ ~events'[i].missed
    BY <1>2, <2>1, MarkChanges DEF EventsSound, Door!HandledMeansTaken
  <2> QED
    BY <2>2, RaisedStep DEF EventsSound, Door!OneEventPerSpell, Door!HandledMeansTaken
<1>3. ASSUME NEW e \in Door!Event, Door!Emit(e), e.kind = "quiet" => e.crossed > 0, ~e.missed
      PROVE  EventsSound'
  <2>1. /\ \A i \in DOMAIN events : events'[i] = events[i]
        /\ \A i \in DOMAIN events' \ DOMAIN events :
             /\ events'[i] = e /\ i = Len(events) + 1
             /\ e.kind = "quiet" => \A k \in DOMAIN events :
                  events[k].kind = "quiet" /\ events[k].client = e.client
                    => events[k].spell # e.spell
    BY <1>3, EmitKeeps DEF DoorTypes
  <2>2. Door!OneEventPerSpell'
    BY <2>1 DEF EventsSound, Door!OneEventPerSpell
  <2>3. Door!HandledMeansTaken' /\ \A i \in DOMAIN events' : events'[i].kind = "quiet" => events'[i].crossed > 0
    BY <1>3, <2>1 DEF EventsSound, Door!HandledMeansTaken
  <2> QED
    BY <2>2, <2>3, RaisedStep DEF EventsSound
<1> QED
  BY <1>1, <1>2, <1>3, EventsMove

-----------------------------------------------------------------------------
LEMMA DoorBegins == Door!Init => DoorInv
<1> SUFFICES ASSUME Door!Init PROVE DoorInv
  OBVIOUS
<1>1. /\ events = <<>> /\ enrolled = <<>> /\ tick = Door!Idle /\ hand = Door!NoHand
      /\ past = {} /\ troubles = 0 /\ hands = 0
  BY DEF Door!Init
<1>2. DoorTypes
  <2>1. flow \in Door!Flow /\ quiet \in [Clients -> Door!Quiet]
    BY DEF Door!Init, Door!Flow, Door!Quiet
  <2>2. tick \in Ticks /\ hand \in Hands
    BY <1>1 DEF Ticks, Hands, Door!Idle, Door!NoHand, Door!Unread, Door!Flow, Door!None
  <2> QED
    BY <1>1, <2>1, <2>2 DEF DoorTypes
<1>3. \A c : Door!Of(c) = {} /\ ByTick(c) = {} /\ ByHand(c) = {} /\ Lately(c) = {}
  BY <1>1 DEF Door!Of, ByTick, ByHand, Lately
<1>4. HandsCounted /\ TakenOften
  <2>1. Cardinality({}) = 0
    BY FS_EmptySet
  <2>2. hand.pc \notin {"look", "insert"}
    BY <1>1 DEF Door!NoHand
  <2>3. \A c : Cardinality(ByTick(c)) = 0 /\ Cardinality(ByHand(c)) = 0 /\ Cardinality(Lately(c)) = 0
    BY <1>3, <2>1
  <2>4. HandsCounted
    BY <1>1, <2>2, <2>3 DEF HandsCounted
  <2>5. TakenOften
    BY <2>3 DEF TakenOften
  <2> QED
    BY <2>4, <2>5
<1>5. BatchIsFresh /\ StandsWhenInserted /\ ReasonToMark /\ HandKnown
  BY <1>1 DEF BatchIsFresh, StandsWhenInserted, ReasonToMark, HandKnown, Door!Idle,
    Door!NoHand, InBatch
<1>6. CameByEvents /\ EventsSound /\ Door!ConsumedOnce
  BY <1>1 DEF CameByEvents, EventsSound, Door!ConsumedOnce, Door!OneEventPerSpell,
    Door!HandledMeansTaken, Door!Idle
<1> QED
  BY <1>2, <1>4, <1>5, <1>6 DEF DoorInv

LEMMA DoorStep == DoorInv /\ [Door!Next]_(Door!vars) => DoorInv'
  BY TypesStep, BatchStep, StandsStep, ReasonStep, CameStep, CountedStep, HandStays,
    SoundStep,
    OftenStep, OnceStep DEF DoorInv

LEMMA DoorHonest ==
  ASSUME DoorInv
  PROVE  /\ Door!TypeOK /\ Door!TakenOnce /\ Door!ConsumedOnce /\ Door!OneEventPerSpell /\ Door!TakenForAReason
         /\ Door!HandledMeansTaken
<1> USE DEF DoorInv
<1>1. tick.batch \in Seq(DOMAIN events)
  <2>1. tick.batch \in Seq(Nat) /\ \A x \in DOMAIN tick.batch : tick.batch[x] \in DOMAIN events
    BY DEF DoorTypes, Ticks, BatchIsFresh
  <2>2. DOMAIN tick.batch = 1 .. Len(tick.batch) /\ Len(tick.batch) \in Nat
    BY <2>1, SeqParts
  <2>3. tick.batch \in [1 .. Len(tick.batch) -> DOMAIN events]
    BY <2>1, <2>2
  <2> QED
    BY <2>2, <2>3
<1>2. Door!TypeOK
  BY <1>1 DEF Door!TypeOK, DoorTypes, Ticks, Hands
<1>3. Door!TakenForAReason
  BY DEF Door!TakenForAReason, CameByEvents, EventsSound
<1>4. ASSUME NEW c \in Clients, flow.again = "never"
      PROVE  Cardinality(ByTick(c)) <= 1 /\ Cardinality(Door!Of(c)) <= 1 + hands
  <2>1. /\ IsFiniteSet(ByTick(c)) /\ IsFiniteSet(ByHand(c)) /\ Cardinality(ByTick(c)) \in Nat
        /\ Cardinality(ByHand(c)) \in Nat /\ hands \in Nat
    BY FewRows, FS_CardinalityType DEF DoorTypes
  <2>2. Cardinality(ByTick(c)) <= 1 /\ Cardinality(ByHand(c)) <= hands
    <3>1. Cardinality(ByHand(c)) + (IF hand.pc \in {"look", "insert"} THEN 1 ELSE 0) <= hands
      BY DEF HandsCounted
    <3>2. CASE hand.pc \in {"look", "insert"}
      BY <1>4, <2>1, <3>1, <3>2 DEF TakenOften
    <3>3. CASE hand.pc \notin {"look", "insert"}
      BY <1>4, <2>1, <3>1, <3>3 DEF TakenOften
    <3> QED
      BY <3>2, <3>3
  <2>3. Door!Of(c) = ByTick(c) \cup ByHand(c) /\ ByTick(c) \cap ByHand(c) = {}
    BY DEF ByTick, ByHand
  <2>4. Cardinality(Door!Of(c)) = Cardinality(ByTick(c)) + Cardinality(ByHand(c))
    <3>1. Cardinality(ByTick(c) \cup ByHand(c))
            = Cardinality(ByTick(c)) + Cardinality(ByHand(c)) - Cardinality(ByTick(c) \cap ByHand(c))
      BY <2>1, FS_Union
    <3>2. Cardinality(ByTick(c) \cap ByHand(c)) = 0
      BY <2>3, FS_EmptySet
    <3> QED
      BY <2>1, <2>3, <3>1, <3>2
  <2> QED
    BY <2>1, <2>2, <2>4
<1>5. Door!TakenOnce
  <2>1. ASSUME NEW c \in Clients
        PROVE  /\ {i \in Door!Of(c) : enrolled[i].by # Door!None} = ByTick(c)
               /\ {i \in ByTick(c) : enrolled[i].recent} = Lately(c)
    BY DEF ByTick, Lately
  <2>2. ASSUME NEW c \in Clients
        PROVE  /\ flow.again = "never" =>
                    /\ Door!Cardinality(ByTick(c)) <= 1
                    /\ Door!Cardinality(Door!Of(c)) <= 1 + hands
               /\ flow.again = "later" => Door!Cardinality(Lately(c)) <= 1
    BY <1>4, DoorCounts DEF TakenOften
  <2> QED
    BY <2>1, <2>2 DEF Door!TakenOnce
<1> QED
  BY <1>2, <1>3, <1>5 DEF EventsSound

-----------------------------------------------------------------------------
(* The two stories together: each step is a step of one, and leaves the    *)
(* other alone.                                                            *)
WorkflowInv == TypeInv /\ (story = "entry" => DoorInv)

LEMMA WorkflowBegins == MCInit => WorkflowInv
<1> SUFFICES ASSUME MCInit PROVE WorkflowInv
  OBVIOUS
<1>1. CASE story = "steps" /\ Init
  BY <1>1, InitTyped DEF WorkflowInv
<1>2. ASSUME story = "entry", Door!Init,
             status = "stopped" /\ node = End /\ steps = 0 /\ due = "none" /\ claim = "free",
             jobs = {} /\ tasks = {} /\ ran = [n \in Nodes |-> 0] /\ skipped = {},
             sent = {} /\ resolved = FALSE /\ late = 0,
             asks = 0 /\ faults = 0 /\ exits = 0
      PROVE  WorkflowInv
  <2>1. resolved \in BOOLEAN
    BY <1>2
  <2>2. TypeInv
    BY <1>2, <2>1 DEF TypeOK, TypeInv, AtANode
  <2> QED
    BY <1>2, <2>2, DoorBegins DEF WorkflowInv
<1> QED
  BY <1>1, <1>2 DEF MCInit

LEMMA WorkflowStep ==
  WorkflowInv /\ [MCNext]_<<story, vars, doorVars>> => WorkflowInv'
<1> SUFFICES ASSUME WorkflowInv, [MCNext]_<<story, vars, doorVars>> PROVE WorkflowInv'
  OBVIOUS
<1>1. [Next]_vars
  BY DEF MCNext
<1>2. story' = story /\ (story = "entry" => [Door!Next]_(Door!vars))
  <2>1. UNCHANGED doorVars => UNCHANGED Door!vars
    BY DEF doorVars, Door!vars
  <2> QED
    BY <2>1 DEF MCNext
<1> QED
  BY <1>1, <1>2, StepTyped, DoorStep DEF WorkflowInv

(* events.ts, automation-engine.ts: however ticks, people and publications *)
(* cross and wherever a tick dies, an event is raised once for what it     *)
(* tells of and brings a client in once, for a reason; none is dropped.    *)
(* What the engine holds of a client who is in is well formed.             *)
THEOREM EntryStaysOrderly == MCSpec => []EntryIsOrderly
<1>1. WorkflowInv => EntryIsOrderly
  BY DoorHonest DEF WorkflowInv, TypeInv, EntryIsOrderly
<1> QED
  BY <1>1, WorkflowBegins, WorkflowStep, PTL DEF MCSpec
=============================================================================
