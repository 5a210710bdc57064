-------------------------- MODULE MessagingProofs --------------------------
(***************************************************************************)
(* Whatever is retried, interrupted or crosses a STOP: messages are unique *)
(* by key, no text goes out that was not allowed when its gate was read,   *)
(* and the work left to the queue keeps its contract.  The application     *)
(* form and the badge catch up, and a STOP that comes in outlives merges.  *)
(* Proved for any set of calls, records and texts, any dedupe keys and any *)
(* bounds.                                                                 *)
(***************************************************************************)
EXTENDS MCCatchUp, Consent, FiniteSetTheorems, SequenceTheorems, TLAPS

CONSTANTS FirstPhone, StaffAtOnce, MaxDeliveries, MaxEdits

VARIABLES wrote, hook, stored, held, applied, tasks, asks, deliveries, rewrites

\* What comes in.  What the client says in Answers is another's business.
In == INSTANCE Inbound WITH said <- wrote, edits <- rewrites

Steps == {"refuse", "schedule", "record", "enqueue", "enqueueBlank", "read", "check",
          "suppress", "call", "failed", "failedForGood", "requeue", "sent", "succeed", "fail"}

LEMMA MovedIsTask ==
  ASSUME NEW t \in Task, NEW pc \in Steps, NEW seen \in Nat
  PROVE  /\ [t EXCEPT !.pc = pc, !.seen = seen] \in Task
         /\ [t EXCEPT !.pc = pc, !.seen = seen].req = t.req
         /\ [t EXCEPT !.pc = pc, !.seen = seen].by = t.by
         /\ [t EXCEPT !.pc = pc, !.seen = seen].pc = pc
         /\ [t EXCEPT !.pc = pc, !.seen = seen].seen = seen
BY DEF Task, Steps

(* Wherever a task goes next, the process still holds nothing but tasks.   *)
LEMMA GotoTyped ==
  ASSUME work \subseteq Task, NEW t \in work, NEW pc \in Steps, Goto(t, pc)
  PROVE  work' \subseteq Task
<1>1. [t EXCEPT !.pc = pc, !.seen = 0] \in Task
  BY MovedIsTask
<1> QED
  BY <1>1 DEF Goto

LEMMA DoneTyped ==
  ASSUME work \subseteq Task, NEW t \in work, Done(t)
  PROVE  work' \subseteq Task
BY DEF Done

LEMMA OutcomeTyped ==
  ASSUME work \subseteq Task, NEW t \in work, NEW ok \in BOOLEAN, Outcome(t, ok)
  PROVE  work' \subseteq Task
<1>1. CASE t.by = "send"
  BY <1>1, DoneTyped DEF Outcome
<1>2. CASE t.by # "send"
  BY <1>2, GotoTyped DEF Outcome, Steps
<1> QED
  BY <1>1, <1>2

LEMMA ForgottenTyped ==
  ASSUME losses \in [Requests -> Nat], NEW T
  PROVE  Forgotten(T) \in [Requests -> Nat]
BY DEF Forgotten

(* What a step leaves alone keeps its type.                                *)
LEMMA TaskStepTyped ==
  ASSUME TypeOK, NEW t \in work, TaskStep(t)
  PROVE  TypeOK'
<1> USE DEF TypeOK, table, client
<1>0. t \in Task /\ t.req \in Requests
  BY DEF Task
<1>1. CASE RecordSuppressed(t)
  BY <1>0, <1>1, DoneTyped DEF RecordSuppressed
<1>2. CASE RecordScheduled(t)
  BY <1>0, <1>2, GotoTyped DEF RecordScheduled, Steps
<1>3. CASE EnqueueScheduled(t)
  BY <1>0, <1>3, DoneTyped DEF EnqueueScheduled
<1>4. CASE RecordSending(t)
  BY <1>0, <1>4, DoneTyped, GotoTyped DEF RecordSending, Steps
<1>5. CASE ReadMessage(t)
  BY <1>0, <1>5, OutcomeTyped, GotoTyped DEF ReadMessage, Steps
<1>6. CASE CheckGate(t)
  <2>1. PICK pc \in Steps : work' = (work \ {t}) \cup {[t EXCEPT !.pc = pc, !.seen = keywords]}
    BY <1>6 DEF CheckGate, Steps
  <2>2. [t EXCEPT !.pc = pc, !.seen = keywords] \in Task
    BY <1>0, MovedIsTask
  <2> QED
    BY <1>6, <2>1, <2>2 DEF CheckGate
<1>7. CASE SuppressNow(t)
  BY <1>0, <1>7, OutcomeTyped DEF SuppressNow
<1>8. CASE Accepts(t)
  BY <1>0, <1>8, GotoTyped DEF Accepts, Steps
<1>9. CASE Refuses(t)
  BY <1>0, <1>9, GotoTyped DEF Refuses, Steps
<1>10. CASE RecordFailed(t)
  BY <1>0, <1>10, OutcomeTyped, GotoTyped DEF RecordFailed, Steps
<1>11. CASE Requeue(t)
  BY <1>0, <1>11, OutcomeTyped DEF Requeue
<1>12. CASE RecordSent(t)
  BY <1>0, <1>12, OutcomeTyped DEF RecordSent
<1>13. CASE StatementThrows(t)
  BY <1>0, <1>13, OutcomeTyped, ForgottenTyped DEF StatementThrows
<1>14. CASE JobSucceeds(t)
  BY <1>0, <1>14, DoneTyped DEF JobSucceeds
<1>15. CASE JobFails(t)
  BY <1>0, <1>15, DoneTyped DEF JobFails
<1> QED
  BY <1>1, <1>2, <1>3, <1>4, <1>5, <1>6, <1>7, <1>8, <1>9, <1>10, <1>11, <1>12, <1>13,
     <1>14, <1>15 DEF TaskStep

LEMMA InitTyped == Init => TypeOK
<1> SUFFICES ASSUME Init PROVE TypeOK
  OBVIOUS
<1>1. stopped \in BOOLEAN /\ blankJob \in BOOLEAN
  BY Zenon DEF Init
<1> QED
  BY <1>1 DEF Init, TypeOK

LEMMA StepTyped == TypeOK /\ [Next]_vars => TypeOK'
<1> SUFFICES ASSUME TypeOK, [Next]_vars PROVE TypeOK'
  OBVIOUS
<1> USE DEF TypeOK, table, client
<1>1. ASSUME NEW r \in Requests, Send(r) PROVE TypeOK'
  BY <1>1 DEF Send, Task
<1>2. ASSUME NEW r \in Requests, ClaimJob(r) PROVE TypeOK'
  BY <1>2 DEF ClaimJob, Task
<1>3. ASSUME NEW r \in Requests, Reclaim(r) PROVE TypeOK'
  BY <1>3 DEF Reclaim
<1>4. ASSUME NEW t \in work, TaskStep(t) PROVE TypeOK'
  BY <1>4, TaskStepTyped
<1>5. CASE TextsStop
  BY <1>5 DEF TextsStop
<1>6. CASE TextsStart
  <2>1. stopped' \in BOOLEAN
    BY <1>6, Zenon DEF TextsStart
  <2> QED
    BY <1>6, <2>1 DEF TextsStart
<1>7. CASE Crash
  BY <1>7, ForgottenTyped DEF Crash
<1>8. CASE UNCHANGED vars
  BY <1>8 DEF vars
<1> QED
  BY <1>1, <1>2, <1>3, <1>4, <1>5, <1>6, <1>7, <1>8 DEF Next

(* Every reachable state is well typed: messaging.ts, for any calls.       *)
THEOREM TypeCorrect == Spec => []TypeOK
BY InitTyped, StepTyped, PTL DEF Spec
-----------------------------------------------------------------------------
(* What holds between the row of a request, its job and the task at it.    *)

BeforeRow == {"refuse", "schedule", "record", "enqueueBlank"}
Delivery == {"check", "suppress", "call", "failed", "failedForGood", "sent"}

(* A request's own call plants the job last; until then there is none, and *)
(* whoever delivers has found, or written, a row that is not yet sent.     *)
Stands(t) ==
  /\ t.by = "send" =>
       t.req \in asked /\ job[t.req] = "absent" /\ t.pc \notin {"succeed", "fail"}
  /\ t.by = "job" => job[t.req] = "running" /\ t.pc \notin BeforeRow \cup {"enqueue"}
  /\ t.pc \in BeforeRow => msg[t.req] = "none"
  /\ t.pc \notin BeforeRow => msg[t.req] # "none"
  /\ t.pc \in Delivery => msg[t.req] # "sent"
  /\ t.pc = "requeue" => msg[t.req] = "failed"
  /\ t.pc = "succeed" => msg[t.req] \in {"sent", "suppressed"}

OneTask == \A t, u \in work : t.req = u.req => t = u
TasksStand == \A t \in work : Stands(t)

OneRowPerKey ==
  \A r, s \in Requests :
    msg[r] # "none" /\ msg[s] # "none" /\ DedupeKey[r] = DedupeKey[s] => r = s

(* An acceptance is in the row, in somebody's hands, or counted as lost.   *)
RowHolds(r) ==
  /\ msg[r] # "none" => r \in asked
  /\ job[r] # "absent" => msg[r] # "none"
  /\ received[r] > 0 => msg[r] # "none"
  /\ received[r] <= losses[r] + 1
  /\ \/ msg[r] = "sent"
     \/ \E t \in work : t.req = r /\ t.pc = "sent"
     \/ received[r] <= losses[r]

RowsHold == \A r \in Requests : RowHolds(r)

RecordInv == TypeOK /\ OneTask /\ TasksStand /\ OneRowPerKey /\ RowsHold

(* Every step but a keyword and the end of the process is about one row,   *)
(* and leaves at most one task at it.                                      *)
LEMMA RowMoves ==
  ASSUME RecordInv, TypeOK', NEW r \in Requests,
         \A u \in work : u.req # r => u \in work',
         \A u \in work' : IF u.req = r THEN Stands(u)' ELSE u \in work,
         \A u, v \in work' : u.req = r /\ v.req = r => u = v,
         asked \subseteq asked',
         \A s \in Requests \ {r} : /\ msg'[s] = msg[s] /\ job'[s] = job[s]
                                   /\ received'[s] = received[s] /\ losses'[s] = losses[s],
         msg'[r] = "none" \/ msg[r] # "none" \/ ~Taken(r),
         msg'[r] # "none" => r \in asked',
         job'[r] # "absent" => msg'[r] # "none",
         received'[r] > 0 => msg'[r] # "none",
         received'[r] <= losses'[r] + 1,
         \/ msg'[r] = "sent"
         \/ \E u \in work' : u.req = r /\ u.pc = "sent"
         \/ received'[r] <= losses'[r]
  PROVE  RecordInv'
<1>1. OneTask'
  BY DEF RecordInv, OneTask
<1>2. TasksStand'
  <2> SUFFICES ASSUME NEW t \in work' PROVE Stands(t)'
    BY DEF TasksStand
  <2>1. CASE t.req = r
    BY <2>1
  <2>2. CASE t.req # r
    <3>1. Stands(t) /\ t.req \in Requests \ {r}
      BY <2>2 DEF RecordInv, TasksStand, TypeOK, Task
    <3> QED
      BY <3>1 DEF Stands
  <2> QED
    BY <2>1, <2>2
<1>3. OneRowPerKey'
  BY DEF RecordInv, OneRowPerKey, Taken
<1>4. RowsHold'
  <2> SUFFICES ASSUME NEW s \in Requests PROVE RowHolds(s)'
    BY DEF RowsHold
  <2>1. CASE s = r
    BY <2>1 DEF RowHolds
  <2>2. CASE s # r
    <3>1. RowHolds(s)
      BY DEF RecordInv, RowsHold
    <3>2. \A t \in work : t.req = s => t \in work'
      BY <2>2
    <3> QED
      BY <2>2, <3>1, <3>2 DEF RowHolds
  <2> QED
    BY <2>1, <2>2
<1> QED
  BY <1>1, <1>2, <1>3, <1>4 DEF RecordInv
(* A task is done, or goes on to where what is known of it holds.          *)
Leaves(t) ==
  \/ work' = work \ {t}
  \/ \E q \in Task : work' = (work \ {t}) \cup {q} /\ q.req = t.req /\ Stands(q)'

LEMMA TaskMoves ==
  ASSUME RecordInv, TypeOK', NEW t \in work, Leaves(t),
         asked \subseteq asked',
         \A s \in Requests \ {t.req} :
           /\ msg'[s] = msg[s] /\ job'[s] = job[s]
           /\ received'[s] = received[s] /\ losses'[s] = losses[s],
         msg'[t.req] = "none" \/ msg[t.req] # "none" \/ ~Taken(t.req),
         msg'[t.req] # "none" => t.req \in asked',
         job'[t.req] # "absent" => msg'[t.req] # "none",
         received'[t.req] > 0 => msg'[t.req] # "none",
         received'[t.req] <= losses'[t.req] + 1,
         \/ msg'[t.req] = "sent"
         \/ \E u \in work' : u.req = t.req /\ u.pc = "sent"
         \/ received'[t.req] <= losses'[t.req]
  PROVE  RecordInv'
<1>1. \A u \in work : u.req = t.req => u = t
  BY DEF RecordInv, OneTask
<1>2. t.req \in Requests
  BY DEF RecordInv, TypeOK, Task
<1>3. CASE work' = work \ {t}
  BY <1>1, <1>2, <1>3, RowMoves
<1>4. ASSUME NEW q \in Task, work' = (work \ {t}) \cup {q}, q.req = t.req, Stands(q)'
      PROVE  RecordInv'
  <2>1. \A u \in work : u.req # t.req => u \in work'
    BY <1>4
  <2>2. \A u \in work' : u = q \/ (u \in work /\ u.req # t.req)
    BY <1>1, <1>4
  <2>3. \A u \in work' : IF u.req = t.req THEN Stands(u)' ELSE u \in work
    BY <1>4, <2>2, Zenon
  <2>4. \A u, v \in work' : u.req = t.req /\ v.req = t.req => u = v
    BY <2>2
  <2> QED
    BY <1>2, <2>1, <2>3, <2>4, RowMoves
<1> QED
  BY <1>3, <1>4 DEF Leaves

(* A step that leaves the rows and the provider alone.                     *)
LEMMA TaskMovesQuietly ==
  ASSUME RecordInv, TypeOK', NEW t \in work, t.pc # "sent", Leaves(t),
         asked' = asked, msg' = msg, received' = received, losses' = losses,
         \A s \in Requests \ {t.req} : job'[s] = job[s],
         job'[t.req] # "absent" => msg[t.req] # "none"
  PROVE  RecordInv'
<1>1. t.req \in Requests /\ RowHolds(t.req)
  BY DEF RecordInv, TypeOK, Task, RowsHold
<1>2. msg[t.req] = "sent" \/ received[t.req] <= losses[t.req]
  <2>1. \A u \in work : u.req = t.req => u = t
    BY DEF RecordInv, OneTask
  <2> QED
    BY <1>1, <2>1 DEF RowHolds
<1> QED
  BY <1>1, <1>2, TaskMoves DEF RowHolds

(* One record of an outcome: the row of the task, and nothing besides.     *)
LEMMA TaskRecords ==
  ASSUME RecordInv, TypeOK', NEW t \in work, NEW status, Leaves(t),
         asked' = asked, job' = job, received' = received, losses' = losses,
         msg' = [msg EXCEPT ![t.req] = status],
         status # "none",
         msg[t.req] # "none" \/ (~Taken(t.req) /\ t.req \in asked),
         status = "sent" \/ (t.pc # "sent" /\ msg[t.req] # "sent")
  PROVE  RecordInv'
<1>1. t.req \in Requests /\ RowHolds(t.req)
  BY DEF RecordInv, TypeOK, Task, RowsHold
<1>2. /\ msg'[t.req] = status
      /\ \A s \in Requests \ {t.req} : msg'[s] = msg[s]
  BY <1>1 DEF RecordInv, TypeOK
<1>3. status = "sent" \/ received[t.req] <= losses[t.req]
  <2>1. \A u \in work : u.req = t.req => u = t
    BY DEF RecordInv, OneTask
  <2> QED
    BY <1>1, <2>1 DEF RowHolds
<1> QED
  BY <1>1, <1>2, <1>3, TaskMoves DEF RowHolds

(* Where `Goto` leads.                                                     *)
LEMMA GotoMoves ==
  ASSUME work \subseteq Task, NEW t \in work, NEW pc \in Steps, Goto(t, pc)
  PROVE  \E q \in Task : /\ work' = (work \ {t}) \cup {q}
                         /\ q.req = t.req /\ q.by = t.by /\ q.pc = pc
<1>1. 0 \in Nat /\ t \in Task
  OBVIOUS
<1>2. /\ [t EXCEPT !.pc = pc, !.seen = 0] \in Task
      /\ [t EXCEPT !.pc = pc, !.seen = 0].req = t.req
      /\ [t EXCEPT !.pc = pc, !.seen = 0].by = t.by
      /\ [t EXCEPT !.pc = pc, !.seen = 0].pc = pc
  BY <1>1 DEF Task, Steps
<1>3. work' = (work \ {t}) \cup {[t EXCEPT !.pc = pc, !.seen = 0]}
  BY DEF Goto
<1> QED
  BY <1>2, <1>3

(* Where an outcome leads: nowhere, or to the settling of the job.         *)
LEMMA OutcomeMoves ==
  ASSUME work \subseteq Task, NEW t \in work, NEW ok \in BOOLEAN, Outcome(t, ok)
  PROVE  \/ t.by = "send" /\ work' = work \ {t}
         \/ /\ t.by = "job"
            /\ \E q \in Task : /\ work' = (work \ {t}) \cup {q} /\ q.req = t.req /\ q.by = t.by
                               /\ q.pc = IF ok THEN "succeed" ELSE "fail"
<1>1. CASE t.by = "send"
  BY <1>1 DEF Outcome, Done
<1>2. CASE t.by # "send"
  <2>1. t.by = "job" /\ t \in Task
    BY <1>2 DEF Task
  <2>2. PICK pc \in Steps : pc = IF ok THEN "succeed" ELSE "fail"
    BY DEF Steps
  <2>3. Goto(t, pc)
    BY <1>2, <2>2 DEF Outcome
  <2> QED
    BY <2>1, <2>2, <2>3, GotoMoves
<1> QED
  BY <1>1, <1>2

-----------------------------------------------------------------------------
(* `send`.                                                                 *)

LEMMA SendHolds ==
  ASSUME RecordInv, TypeOK', NEW r \in Requests, Send(r)
  PROVE  RecordInv'
<1> DEFINE At(pc) == [req |-> r, by |-> "send", seen |-> 0, pc |-> pc]
<1>1. PICK pc \in {"schedule", "record", "refuse"} : work' = work \cup {At(pc)}
  BY DEF Send
<1>2. RowHolds(r) /\ r \notin asked
  BY DEF Send, RecordInv, RowsHold
<1>3. msg[r] = "none" /\ job[r] = "absent"
  BY <1>2 DEF RowHolds
<1>4. \A u \in work : u.req # r
  <2> SUFFICES ASSUME NEW u \in work, u.req = r PROVE FALSE
    OBVIOUS
  <2>1. Stands(u) /\ u.by \in {"send", "job"}
    BY DEF RecordInv, TasksStand, TypeOK, Task
  <2> QED
    BY <1>2, <1>3, <2>1 DEF Stands
<1>5. At(pc).req = r /\ Stands(At(pc))'
  BY <1>3 DEF Stands, Send, table, BeforeRow, Delivery
<1>6. /\ asked \subseteq asked' /\ r \in asked'
      /\ msg' = msg /\ job' = job /\ received' = received /\ losses' = losses
  BY DEF Send, table, client
<1>7. received[r] <= losses[r] /\ (received[r] > 0 => msg[r] # "none")
  BY <1>2, <1>3, <1>4 DEF RowHolds
<1>8. received[r] <= losses[r] + 1
  BY <1>2 DEF RowHolds
<1>9. \A u \in work' : u = At(pc) \/ u \in work
  BY <1>1
<1> HIDE DEF At
<1>10. \A u \in work' : IF u.req = r THEN Stands(u)' ELSE u \in work
  BY <1>4, <1>5, <1>9, Zenon
<1>11. \A u, v \in work' : u.req = r /\ v.req = r => u = v
  BY <1>4, <1>9
<1> QED
  BY <1>1, <1>3, <1>6, <1>7, <1>8, <1>10, <1>11, RowMoves

LEMMA RecordSuppressedHolds ==
  ASSUME RecordInv, TypeOK', NEW t \in work, RecordSuppressed(t)
  PROVE  RecordInv'
<1>1. Stands(t) /\ t.by \in {"send", "job"}
  BY DEF RecordInv, TasksStand, TypeOK, Task
<1>2. Leaves(t)
  BY DEF Leaves, Done, RecordSuppressed
<1>3. CASE Taken(t.req)
  BY <1>1, <1>2, <1>3, TaskMovesQuietly DEF RecordSuppressed, client, Stands, BeforeRow
<1>4. CASE ~Taken(t.req)
  BY <1>1, <1>2, <1>4, TaskRecords DEF RecordSuppressed, client, Stands, BeforeRow
<1> QED
  BY <1>3, <1>4

LEMMA RecordScheduledHolds ==
  ASSUME RecordInv, TypeOK', NEW t \in work, RecordScheduled(t)
  PROVE  RecordInv'
<1>1. Stands(t) /\ t.by = "send" /\ t.req \in Requests
  BY DEF RecordInv, TasksStand, TypeOK, Task, Stands, RecordScheduled, BeforeRow
<1>2. CASE Taken(t.req)
  <2>1. PICK q \in Task : /\ work' = (work \ {t}) \cup {q}
                          /\ q.req = t.req /\ q.by = t.by /\ q.pc = "enqueueBlank"
    BY <1>2, GotoMoves DEF RecordScheduled, RecordInv, TypeOK, Steps
  <2>2. Stands(q)'
    BY <1>1, <1>2, <2>1 DEF Stands, RecordScheduled, BeforeRow, Delivery
  <2>9. Leaves(t)
    BY <2>1, <2>2 DEF Leaves
  <2> QED
    BY <1>1, <1>2, <2>1, <2>9, TaskMovesQuietly DEF RecordScheduled, client, Stands,
      BeforeRow
<1>3. CASE ~Taken(t.req)
  <2>1. PICK q \in Task : /\ work' = (work \ {t}) \cup {q}
                          /\ q.req = t.req /\ q.by = t.by /\ q.pc = "enqueue"
    BY <1>3, GotoMoves DEF RecordScheduled, RecordInv, TypeOK, Steps
  <2>2. msg'[t.req] = "scheduled"
    BY <1>1, <1>3 DEF RecordScheduled, RecordInv, TypeOK
  <2>3. Stands(q)'
    BY <1>1, <2>1, <2>2 DEF Stands, RecordScheduled, BeforeRow, Delivery
  <2>9. Leaves(t)
    BY <2>1, <2>3 DEF Leaves
  <2> QED
    BY <1>1, <1>3, <2>1, <2>9, TaskRecords DEF RecordScheduled, client, Stands,
      BeforeRow
<1> QED
  BY <1>2, <1>3

LEMMA RecordSendingHolds ==
  ASSUME RecordInv, TypeOK', NEW t \in work, RecordSending(t)
  PROVE  RecordInv'
<1>1. Stands(t) /\ t.by = "send" /\ t.req \in Requests
  BY DEF RecordInv, TasksStand, TypeOK, Task, Stands, RecordSending, BeforeRow
<1>2. CASE Taken(t.req)
  <2>1. Leaves(t)
    BY <1>2 DEF Leaves, Done, RecordSending
  <2> QED
    BY <1>1, <1>2, <2>1, TaskMovesQuietly DEF RecordSending, client, Stands, BeforeRow
<1>3. CASE ~Taken(t.req)
  <2>1. PICK q \in Task : /\ work' = (work \ {t}) \cup {q}
                          /\ q.req = t.req /\ q.by = t.by /\ q.pc = "read"
    BY <1>3, GotoMoves DEF RecordSending, RecordInv, TypeOK, Steps
  <2>2. msg'[t.req] = "sending"
    BY <1>1, <1>3 DEF RecordSending, RecordInv, TypeOK
  <2>3. Stands(q)'
    BY <1>1, <2>1, <2>2 DEF Stands, RecordSending, BeforeRow, Delivery
  <2>9. Leaves(t)
    BY <2>1, <2>3 DEF Leaves
  <2> QED
    BY <1>1, <1>3, <2>1, <2>9, TaskRecords DEF RecordSending, client, Stands, BeforeRow
<1> QED
  BY <1>2, <1>3

LEMMA EnqueueScheduledHolds ==
  ASSUME RecordInv, TypeOK', NEW t \in work, EnqueueScheduled(t)
  PROVE  RecordInv'
<1>1. Stands(t) /\ t.req \in Requests
  BY DEF RecordInv, TasksStand, TypeOK, Task
<1>2. Leaves(t)
  BY DEF Leaves, Done, EnqueueScheduled
<1>3. job'[t.req] # "absent" => msg[t.req] # "none"
  <2>1. RowHolds(t.req)
    BY <1>1 DEF RecordInv, RowsHold
  <2> QED
    BY <1>1, <2>1 DEF EnqueueScheduled, Stands, BeforeRow, RowHolds
<1>4. \A s \in Requests \ {t.req} : job'[s] = job[s]
  BY <1>1 DEF EnqueueScheduled, RecordInv, TypeOK
<1> QED
  BY <1>2, <1>3, <1>4, TaskMovesQuietly DEF EnqueueScheduled, client
-----------------------------------------------------------------------------
(* `deliver`.                                                              *)

LEMMA OutcomeLeaves ==
  ASSUME TypeOK, TypeOK', NEW t \in work, NEW ok \in BOOLEAN, Outcome(t, ok),
         Stands(t), t.pc \notin BeforeRow, job' = job, asked' = asked,
         msg'[t.req] # "none",
         ok => msg'[t.req] \in {"sent", "suppressed"}
  PROVE  Leaves(t)
<1>1. \/ t.by = "send" /\ work' = work \ {t}
      \/ /\ t.by = "job"
         /\ \E q \in Task : /\ work' = (work \ {t}) \cup {q} /\ q.req = t.req /\ q.by = t.by
                            /\ q.pc = IF ok THEN "succeed" ELSE "fail"
  BY OutcomeMoves DEF TypeOK
<1>2. ASSUME NEW q \in Task, t.by = "job", q.req = t.req, q.by = t.by,
             q.pc = IF ok THEN "succeed" ELSE "fail"
      PROVE  Stands(q)'
  BY <1>2 DEF Stands, BeforeRow, Delivery
<1> QED
  BY <1>1, <1>2 DEF Leaves

LEMMA ReadMessageHolds ==
  ASSUME RecordInv, TypeOK', NEW t \in work, ReadMessage(t)
  PROVE  RecordInv'
<1>1. Stands(t) /\ t.req \in Requests /\ RowHolds(t.req)
  BY DEF RecordInv, TasksStand, TypeOK, Task, RowsHold
<1>2. /\ asked' = asked /\ msg' = msg /\ job' = job
      /\ received' = received /\ losses' = losses
  BY DEF ReadMessage, table, client
<1>3. Leaves(t)
  <2>1. CASE msg[t.req] = "sent"
    BY <1>1, <1>2, <2>1, OutcomeLeaves DEF ReadMessage, RecordInv, BeforeRow
  <2>2. CASE msg[t.req] # "sent"
    <3>1. PICK q \in Task : /\ work' = (work \ {t}) \cup {q}
                            /\ q.req = t.req /\ q.by = t.by /\ q.pc = "check"
      BY <2>2, GotoMoves DEF ReadMessage, RecordInv, TypeOK, Steps
    <3>2. Stands(q)'
      BY <1>1, <1>2, <2>2, <3>1 DEF Stands, ReadMessage, BeforeRow, Delivery
    <3> QED
      BY <3>1, <3>2 DEF Leaves
  <2> QED
    BY <2>1, <2>2
<1> QED
  BY <1>1, <1>2, <1>3, TaskMovesQuietly DEF ReadMessage, RowHolds

LEMMA CheckGateHolds ==
  ASSUME RecordInv, TypeOK', NEW t \in work, CheckGate(t)
  PROVE  RecordInv'
<1>1. Stands(t) /\ t \in Task /\ t.req \in Requests /\ RowHolds(t.req)
  BY DEF RecordInv, TasksStand, TypeOK, Task, RowsHold
<1>2. /\ asked' = asked /\ msg' = msg /\ job' = job
      /\ received' = received /\ losses' = losses
  BY DEF CheckGate, table, client
<1>3. PICK pc \in {"call", "suppress"} :
        work' = (work \ {t}) \cup {[t EXCEPT !.pc = pc, !.seen = keywords]}
  BY DEF CheckGate
<1>4. PICK q \in Task : /\ work' = (work \ {t}) \cup {q}
                        /\ q.req = t.req /\ q.by = t.by /\ q.pc = pc
  <2>1. LET q == [t EXCEPT !.pc = pc, !.seen = keywords]
        IN  q \in Task /\ q.req = t.req /\ q.by = t.by /\ q.pc = pc
    BY <1>1, <1>3 DEF RecordInv, TypeOK, Task
  <2> QED
    BY <1>3, <2>1
<1>5. pc \in {"call", "suppress"}
  BY <1>3
<1>6. Stands(q)'
  BY <1>1, <1>2, <1>4, <1>5 DEF Stands, CheckGate, BeforeRow, Delivery
<1>7. Leaves(t)
  BY <1>4, <1>6 DEF Leaves
<1> QED
  BY <1>1, <1>2, <1>7, TaskMovesQuietly DEF CheckGate, RowHolds

LEMMA SuppressNowHolds ==
  ASSUME RecordInv, TypeOK', NEW t \in work, SuppressNow(t)
  PROVE  RecordInv'
<1>1. Stands(t) /\ t.req \in Requests
  BY DEF RecordInv, TasksStand, TypeOK, Task
<1>2. msg'[t.req] = "suppressed"
  BY <1>1 DEF SuppressNow, RecordInv, TypeOK
<1>3. Leaves(t)
  BY <1>1, <1>2, OutcomeLeaves DEF SuppressNow, RecordInv, BeforeRow
<1> QED
  BY <1>1, <1>3, TaskRecords DEF SuppressNow, client, Stands, BeforeRow, Delivery

LEMMA RecordSentHolds ==
  ASSUME RecordInv, TypeOK', NEW t \in work, RecordSent(t)
  PROVE  RecordInv'
<1>1. Stands(t) /\ t.req \in Requests
  BY DEF RecordInv, TasksStand, TypeOK, Task
<1>2. msg'[t.req] = "sent"
  BY <1>1 DEF RecordSent, RecordInv, TypeOK
<1>3. Leaves(t)
  BY <1>1, <1>2, OutcomeLeaves DEF RecordSent, RecordInv, BeforeRow
<1> QED
  BY <1>1, <1>3, TaskRecords DEF RecordSent, client, Stands, BeforeRow

LEMMA RecordFailedHolds ==
  ASSUME RecordInv, TypeOK', NEW t \in work, RecordFailed(t)
  PROVE  RecordInv'
<1>1. Stands(t) /\ t.req \in Requests
  BY DEF RecordInv, TasksStand, TypeOK, Task
<1>2. msg'[t.req] = "failed"
  BY <1>1 DEF RecordFailed, RecordInv, TypeOK
<1>3. Leaves(t)
  <2>1. CASE t.pc = "failed"
    <3>1. PICK q \in Task : /\ work' = (work \ {t}) \cup {q}
                            /\ q.req = t.req /\ q.by = t.by /\ q.pc = "requeue"
      BY <2>1, GotoMoves DEF RecordFailed, RecordInv, TypeOK, Steps
    <3>2. Stands(q)'
      BY <1>1, <1>2, <2>1, <3>1 DEF Stands, RecordFailed, BeforeRow, Delivery
    <3> QED
      BY <3>1, <3>2 DEF Leaves
  <2>2. CASE t.pc # "failed"
    BY <1>1, <1>2, <2>2, OutcomeLeaves DEF RecordFailed, RecordInv, BeforeRow
  <2> QED
    BY <2>1, <2>2
<1> QED
  BY <1>1, <1>3, TaskRecords DEF RecordFailed, client, Stands, BeforeRow, Delivery

LEMMA AcceptsHolds ==
  ASSUME RecordInv, TypeOK', NEW t \in work, Accepts(t)
  PROVE  RecordInv'
<1>1. Stands(t) /\ t.req \in Requests /\ RowHolds(t.req)
  BY DEF RecordInv, TasksStand, TypeOK, Task, RowsHold
<1>2. received[t.req] <= losses[t.req]
  <2>1. \A u \in work : u.req = t.req => u = t
    BY DEF RecordInv, OneTask
  <2> QED
    BY <1>1, <2>1 DEF RowHolds, Stands, Accepts, Delivery
<1>3. /\ asked' = asked /\ msg' = msg /\ job' = job
      /\ msg[t.req] # "none" /\ t.req \in asked
      /\ received'[t.req] = received[t.req] + 1
      /\ \A s \in Requests \ {t.req} : received'[s] = received[s]
      /\ received[t.req] \in Nat /\ losses[t.req] \in Nat
  BY <1>1 DEF Accepts, table, Stands, BeforeRow, RowHolds, RecordInv, TypeOK
<1>4. ASSUME NEW pc \in {"sent", "failed"}, Goto(t, pc)
      PROVE  Leaves(t) /\ \E u \in work' : u.req = t.req /\ u.pc = pc
  <2>1. PICK q \in Task : /\ work' = (work \ {t}) \cup {q}
                          /\ q.req = t.req /\ q.by = t.by /\ q.pc = pc
    BY <1>4, GotoMoves DEF RecordInv, TypeOK, Steps
  <2>2. Stands(q)'
    BY <1>1, <1>3, <2>1 DEF Stands, Accepts, BeforeRow, Delivery
  <2> QED
    BY <2>1, <2>2 DEF Leaves
<1>5. CASE Goto(t, "sent") /\ UNCHANGED losses
  BY <1>1, <1>2, <1>3, <1>4, <1>5, TaskMoves
<1>6. CASE Goto(t, "failed") /\ losses' = [losses EXCEPT ![t.req] = @ + 1]
  <2>1. /\ losses'[t.req] = losses[t.req] + 1
        /\ \A s \in Requests \ {t.req} : losses'[s] = losses[s]
    BY <1>1, <1>6 DEF RecordInv, TypeOK
  <2>2. received'[t.req] <= losses'[t.req] /\ received'[t.req] <= losses'[t.req] + 1
    BY <1>2, <1>3, <2>1
  <2> QED
    BY <1>1, <1>3, <1>4, <1>6, <2>1, <2>2, TaskMoves
<1> QED
  BY <1>5, <1>6 DEF Accepts

LEMMA RefusesHolds ==
  ASSUME RecordInv, TypeOK', NEW t \in work, Refuses(t)
  PROVE  RecordInv'
<1>1. Stands(t) /\ t.req \in Requests /\ RowHolds(t.req)
  BY DEF RecordInv, TasksStand, TypeOK, Task, RowsHold
<1>2. /\ asked' = asked /\ msg' = msg /\ job' = job
      /\ received' = received /\ losses' = losses
  BY DEF Refuses, table
<1>3. PICK pc \in {"failed", "failedForGood"} : Goto(t, pc)
  BY DEF Refuses
<1>4. PICK q \in Task : /\ work' = (work \ {t}) \cup {q}
                        /\ q.req = t.req /\ q.by = t.by /\ q.pc = pc
  BY <1>3, GotoMoves DEF RecordInv, TypeOK, Steps
<1>5. Stands(q)'
  BY <1>1, <1>2, <1>4 DEF Stands, Refuses, BeforeRow, Delivery
<1>6. Leaves(t)
  BY <1>4, <1>5 DEF Leaves
<1> QED
  BY <1>1, <1>2, <1>6, TaskMovesQuietly DEF Refuses, RowHolds
LEMMA RequeueHolds ==
  ASSUME RecordInv, TypeOK', NEW t \in work, Requeue(t)
  PROVE  RecordInv'
<1>1. Stands(t) /\ t \in Task /\ t.req \in Requests
  BY DEF RecordInv, TasksStand, TypeOK, Task
<1>2. /\ msg[t.req] = "failed"
      /\ asked' = asked /\ msg' = msg /\ received' = received /\ losses' = losses
      /\ \A s \in Requests \ {t.req} : job'[s] = job[s]
  BY <1>1 DEF Requeue, Stands, client, RecordInv, TypeOK
<1>3. Leaves(t)
  <2>1. CASE t.by = "send"
    BY <2>1 DEF Requeue, Outcome, Done, Leaves
  <2>2. CASE t.by # "send"
    <3>1. t.by = "job" /\ job' = job
      BY <1>1, <2>2 DEF Task, Requeue, Stands, Live, RecordInv, TypeOK
    <3> QED
      BY <1>1, <1>2, <3>1, OutcomeLeaves DEF Requeue, RecordInv, BeforeRow
  <2> QED
    BY <2>1, <2>2
<1> QED
  BY <1>2, <1>3, TaskMovesQuietly DEF Requeue

(* An acceptance that is not recorded any more is counted as lost.         *)
LEMMA ForgottenOne ==
  ASSUME RecordInv, NEW t \in work, losses' = Forgotten({t})
  PROVE  /\ \A s \in Requests \ {t.req} : losses'[s] = losses[s]
         /\ losses'[t.req] = IF t.pc = "sent" THEN losses[t.req] + 1 ELSE losses[t.req]
<1>1. t.req \in Requests
  BY DEF RecordInv, TypeOK, Task
<1> QED
  BY <1>1 DEF Forgotten

LEMMA StatementThrowsHolds ==
  ASSUME RecordInv, TypeOK', NEW t \in work, StatementThrows(t)
  PROVE  RecordInv'
<1>1. Stands(t) /\ t \in Task /\ t.req \in Requests /\ RowHolds(t.req)
  BY DEF RecordInv, TasksStand, TypeOK, Task, RowsHold
<1>2. /\ asked' = asked /\ msg' = msg /\ job' = job /\ received' = received
  BY DEF StatementThrows, table
<1>3. /\ \A s \in Requests \ {t.req} : losses'[s] = losses[s]
      /\ losses'[t.req] = IF t.pc = "sent" THEN losses[t.req] + 1 ELSE losses[t.req]
  BY ForgottenOne DEF StatementThrows
<1>4. Leaves(t)
  <2>1. CASE t.by = "send"
    BY <2>1 DEF StatementThrows, Outcome, Done, Leaves
  <2>2. CASE t.by # "send"
    <3>1. t.by = "job" /\ t.pc \notin BeforeRow
      BY <1>1, <2>2 DEF Task, Stands
    <3> QED
      BY <1>1, <1>2, <3>1, OutcomeLeaves DEF StatementThrows, RecordInv, Stands
  <2> QED
    BY <2>1, <2>2
<1>5. received[t.req] \in Nat /\ losses[t.req] \in Nat
  BY <1>1 DEF RecordInv, TypeOK
<1>6. \/ msg[t.req] = "sent"
      \/ received[t.req] <= losses'[t.req]
  <2>1. \A u \in work : u.req = t.req => u = t
    BY DEF RecordInv, OneTask
  <2> QED
    BY <1>1, <1>3, <1>5, <2>1 DEF RowHolds
<1>7. received[t.req] <= losses'[t.req] + 1
  BY <1>1, <1>3, <1>5 DEF RowHolds
<1> QED
  BY <1>1, <1>2, <1>3, <1>4, <1>6, <1>7, TaskMoves DEF RowHolds

-----------------------------------------------------------------------------
(* The job of a message.                                                   *)

LEMMA ClaimJobHolds ==
  ASSUME RecordInv, TypeOK', NEW r \in Requests, ClaimJob(r)
  PROVE  RecordInv'
<1> DEFINE q == [req |-> r, by |-> "job", seen |-> 0, pc |-> "read"]
<1>1. RowHolds(r) /\ job[r] = "pending" /\ msg[r] # "none"
  BY DEF RecordInv, RowsHold, RowHolds, ClaimJob
<1>2. \A u \in work : u.req # r
  <2> SUFFICES ASSUME NEW u \in work, u.req = r PROVE FALSE
    OBVIOUS
  <2>1. Stands(u) /\ u.by \in {"send", "job"}
    BY DEF RecordInv, TasksStand, TypeOK, Task
  <2> QED
    BY <1>1, <2>1 DEF Stands
<1>3. /\ asked' = asked /\ msg' = msg /\ received' = received /\ losses' = losses
      /\ job'[r] = "running"
      /\ \A s \in Requests \ {r} : job'[s] = job[s]
  BY DEF ClaimJob, client, RecordInv, TypeOK
<1>4. q.req = r /\ q.by = "job" /\ q.pc = "read"
  OBVIOUS
<1>5. work' = work \cup {q}
  BY DEF ClaimJob
<1> HIDE DEF q
<1>6. Stands(q)'
  BY <1>1, <1>3, <1>4 DEF Stands, BeforeRow, Delivery
<1>7. \A u \in work' : IF u.req = r THEN Stands(u)' ELSE u \in work
  <2>1. \A u \in work' : u = q \/ u \in work
    BY <1>5
  <2> QED
    BY <1>2, <1>4, <1>6, <2>1, Zenon
<1>8. \A u, v \in work' : u.req = r /\ v.req = r => u = v
  BY <1>2, <1>5
<1>9. \A u \in work : u \in work'
  BY <1>5
<1>10. /\ r \in asked /\ received[r] <= losses[r] + 1
       /\ msg[r] = "sent" \/ received[r] <= losses[r]
  BY <1>1, <1>2 DEF RowHolds
<1> QED
  BY <1>1, <1>3, <1>7, <1>8, <1>9, <1>10, RowMoves

LEMMA ReclaimHolds ==
  ASSUME RecordInv, TypeOK', NEW r \in Requests, Reclaim(r)
  PROVE  RecordInv'
<1>1. RowHolds(r) /\ job[r] = "running"
  BY DEF RecordInv, RowsHold, Reclaim
<1>2. \A u \in work : u.req # r
  <2> SUFFICES ASSUME NEW u \in work, u.req = r PROVE FALSE
    OBVIOUS
  <2>1. Stands(u) /\ u.by \in {"send", "job"}
    BY DEF RecordInv, TasksStand, TypeOK, Task
  <2> QED
    BY <1>1, <2>1 DEF Stands, Reclaim
<1>3. /\ asked' = asked /\ msg' = msg /\ received' = received /\ losses' = losses
      /\ work' = work
      /\ \A s \in Requests \ {r} : job'[s] = job[s]
  BY DEF Reclaim, client, RecordInv, TypeOK
<1> QED
  BY <1>1, <1>2, <1>3, RowMoves DEF RowHolds

LEMMA JobSettlesHolds ==
  ASSUME RecordInv, TypeOK', NEW t \in work, JobSucceeds(t) \/ JobFails(t)
  PROVE  RecordInv'
<1>1. Stands(t) /\ t.req \in Requests /\ RowHolds(t.req)
  BY DEF RecordInv, TasksStand, TypeOK, Task, RowsHold
<1>2. /\ asked' = asked /\ msg' = msg /\ received' = received /\ losses' = losses
      /\ \A s \in Requests \ {t.req} : job'[s] = job[s]
      /\ Leaves(t) /\ t.pc \in {"succeed", "fail"}
  BY <1>1 DEF JobSucceeds, JobFails, client, RecordInv, TypeOK, Leaves, Done
<1>3. msg[t.req] # "none"
  BY <1>1, <1>2 DEF Stands, BeforeRow
<1> QED
  BY <1>2, <1>3, TaskMovesQuietly

-----------------------------------------------------------------------------
(* The client, and the end of the process.                                 *)

LEMMA TextsStopHolds ==
  ASSUME RecordInv, TypeOK', TextsStop
  PROVE  RecordInv'
<1>1. /\ asked' = asked /\ job' = job /\ work' = work
      /\ received' = received /\ losses' = losses
  BY DEF TextsStop
<1>2. ASSUME NEW r \in Requests
      PROVE  msg'[r] = msg[r] \/ (msg[r] = "scheduled" /\ msg'[r] = "suppressed")
  BY DEF TextsStop
<1>3. OneTask'
  BY <1>1 DEF RecordInv, OneTask
<1>4. ASSUME NEW t \in work PROVE Stands(t)'
  <2>1. Stands(t) /\ t.req \in Requests
    BY DEF RecordInv, TasksStand, TypeOK, Task
  <2> QED
    BY <1>1, <1>2, <2>1 DEF Stands
<1>5. OneRowPerKey'
  BY <1>2 DEF RecordInv, OneRowPerKey
<1>6. ASSUME NEW r \in Requests PROVE RowHolds(r)'
  <2>1. RowHolds(r)
    BY DEF RecordInv, RowsHold
  <2> QED
    BY <1>1, <1>2, <2>1 DEF RowHolds
<1> QED
  BY <1>1, <1>3, <1>4, <1>5, <1>6 DEF RecordInv, TasksStand, RowsHold

LEMMA QuietHolds ==
  ASSUME RecordInv, TypeOK', UNCHANGED <<msg, asked, job, work, received, losses>>
  PROVE  RecordInv'
<1>1. ASSUME NEW t \in work PROVE Stands(t)'
  BY DEF RecordInv, TasksStand, Stands
<1>2. ASSUME NEW r \in Requests PROVE RowHolds(r)'
  BY DEF RecordInv, RowsHold, RowHolds
<1> QED
  BY <1>1, <1>2 DEF RecordInv, TasksStand, RowsHold, OneTask, OneRowPerKey

LEMMA CrashHolds ==
  ASSUME RecordInv, TypeOK', Crash
  PROVE  RecordInv'
<1>1. asked' = asked /\ msg' = msg /\ job' = job /\ work' = {} /\ received' = received
  BY DEF Crash, table
<1>2. ASSUME NEW r \in Requests PROVE RowHolds(r)'
  <2>1. RowHolds(r) /\ received[r] \in Nat /\ losses[r] \in Nat
    BY DEF RecordInv, RowsHold, TypeOK
  <2>2. losses'[r] = IF \E t \in work : t.req = r /\ t.pc = "sent" THEN losses[r] + 1
                     ELSE losses[r]
    BY DEF Crash, Forgotten
  <2>3. msg[r] = "sent" \/ received[r] <= losses'[r]
    BY <2>1, <2>2 DEF RowHolds
  <2>4. received[r] <= losses'[r] + 1
    BY <2>1, <2>2 DEF RowHolds
  <2> QED
    BY <1>1, <2>1, <2>3, <2>4 DEF RowHolds
<1> QED
  BY <1>1, <1>2 DEF RecordInv, TasksStand, RowsHold, OneTask, OneRowPerKey
-----------------------------------------------------------------------------
LEMMA RecordInit == Init => RecordInv
<1> SUFFICES ASSUME Init PROVE RecordInv
  OBVIOUS
<1>1. TypeOK
  BY InitTyped
<1> QED
  BY <1>1 DEF Init, RecordInv, OneTask, TasksStand, OneRowPerKey, RowsHold, RowHolds

LEMMA RecordStep == RecordInv /\ [Next]_vars => RecordInv'
<1> SUFFICES ASSUME RecordInv, [Next]_vars PROVE RecordInv'
  OBVIOUS
<1>0. TypeOK'
  BY StepTyped DEF RecordInv
<1>1. ASSUME NEW r \in Requests, Send(r) \/ ClaimJob(r) \/ Reclaim(r) PROVE RecordInv'
  BY <1>0, <1>1, SendHolds, ClaimJobHolds, ReclaimHolds
<1>2. ASSUME NEW t \in work, TaskStep(t) PROVE RecordInv'
  BY <1>0, <1>2, RecordSuppressedHolds, RecordScheduledHolds, EnqueueScheduledHolds,
     RecordSendingHolds, ReadMessageHolds, CheckGateHolds, SuppressNowHolds, AcceptsHolds,
     RefusesHolds, RecordFailedHolds, RequeueHolds, RecordSentHolds, StatementThrowsHolds,
     JobSettlesHolds DEF TaskStep
<1>3. CASE TextsStop
  BY <1>0, <1>3, TextsStopHolds
<1>4. CASE TextsStart
  BY <1>0, <1>4, QuietHolds DEF TextsStart, table
<1>5. CASE Crash
  BY <1>0, <1>5, CrashHolds
<1>6. CASE UNCHANGED vars
  BY <1>0, <1>6, QuietHolds DEF vars
<1> QED
  BY <1>1, <1>2, <1>3, <1>4, <1>5, <1>6 DEF Next

LEMMA RecordsHold == Spec => []RecordInv
BY RecordInit, RecordStep, PTL DEF Spec

(* messaging.ts recordMessage, deliver: calls with one dedupe key reach the *)
(* client as one message, and that one twice only for an acceptance whose  *)
(* record was lost.                                                        *)
THEOREM OneMessageEach == Spec => []MessagesAreUnique
<1>1. RecordInv => MessagesAreUnique
  <2> SUFFICES ASSUME RecordInv PROVE MessagesAreUnique
    OBVIOUS
  <2>1. OneMessagePerKey
    BY DEF RecordInv, RowsHold, RowHolds, OneRowPerKey, OneMessagePerKey
  <2>2. DuplicatesOnlyForLosses
    <3> SUFFICES ASSUME NEW r \in Requests PROVE received[r] <= 1 + losses[r]
      BY DEF DuplicatesOnlyForLosses
    <3>1. received[r] <= losses[r] + 1 /\ losses[r] \in Nat
      BY DEF RecordInv, TypeOK, RowsHold, RowHolds
    <3> QED
      BY <3>1
  <2> QED
    BY <2>1, <2>2 DEF MessagesAreUnique
<1> QED
  BY <1>1, RecordsHold, PTL

-----------------------------------------------------------------------------
(* The gate.                                                               *)

(* Who is about to call the provider found the gate open, and it still is, *)
(* or the client has sent a keyword since.                                 *)
GateWasRead ==
  \A t \in work :
    t.pc = "call" => t.seen <= keywords /\ (Gate(t.req) \/ t.seen < keywords)

LEMMA GateKept ==
  ASSUME GateWasRead, stopped' = stopped, keywords' = keywords,
         \A u \in work' : u \in work \/ u.pc # "call"
  PROVE  GateWasRead'
BY DEF GateWasRead, Gate

LEMMA GotoKeepsGate ==
  ASSUME TypeOK, GateWasRead, stopped' = stopped, keywords' = keywords, NEW t \in work,
         NEW pc \in Steps \ {"call"}, Goto(t, pc)
  PROVE  GateWasRead'
<1>1. PICK q \in Task : work' = (work \ {t}) \cup {q} /\ q.pc = pc
  BY GotoMoves DEF TypeOK
<1> QED
  BY <1>1, GateKept

LEMMA DoneKeepsGate ==
  ASSUME GateWasRead, stopped' = stopped, keywords' = keywords, NEW t \in work, Done(t)
  PROVE  GateWasRead'
BY GateKept DEF Done

LEMMA OutcomeKeepsGate ==
  ASSUME TypeOK, GateWasRead, stopped' = stopped, keywords' = keywords, NEW t \in work,
         NEW ok \in BOOLEAN, Outcome(t, ok)
  PROVE  GateWasRead'
<1>1. CASE t.by = "send"
  BY <1>1, DoneKeepsGate DEF Outcome
<1>2. CASE t.by # "send"
  BY <1>2, GotoKeepsGate DEF Outcome, Steps
<1> QED
  BY <1>1, <1>2

LEMMA TaskStepKeepsGate ==
  ASSUME TypeOK, GateWasRead, NEW t \in work, TaskStep(t)
  PROVE  GateWasRead'
<1>1. stopped' = stopped /\ keywords' = keywords
  BY DEF TaskStep, RecordSuppressed, RecordScheduled, EnqueueScheduled, RecordSending,
         ReadMessage, CheckGate, SuppressNow, Accepts, Refuses, RecordFailed, Requeue,
         RecordSent, StatementThrows, JobSucceeds, JobFails, client
<1>2. CASE CheckGate(t)
  <2> DEFINE q == [t EXCEPT !.pc = IF Gate(t.req) THEN "call" ELSE "suppress", !.seen = keywords]
  <2>1. work' = (work \ {t}) \cup {q}
    BY <1>2 DEF CheckGate
  <2>2. q.req = t.req /\ (q.pc = "call" => Gate(t.req)) /\ q.seen = keywords
    BY DEF TypeOK, Task
  <2> HIDE DEF q
  <2> QED
    BY <1>1, <2>1, <2>2 DEF GateWasRead, Gate, TypeOK
<1>3. ASSUME Done(t) PROVE GateWasRead'
  BY <1>1, <1>3, DoneKeepsGate
<1>4. ASSUME NEW pc \in Steps \ {"call"}, Goto(t, pc) PROVE GateWasRead'
  BY <1>1, <1>4, GotoKeepsGate
<1>5. ASSUME NEW ok \in BOOLEAN, Outcome(t, ok) PROVE GateWasRead'
  BY <1>1, <1>5, OutcomeKeepsGate
<1>6. CASE RecordSuppressed(t) \/ EnqueueScheduled(t) \/ JobSucceeds(t) \/ JobFails(t)
  BY <1>3, <1>6 DEF RecordSuppressed, EnqueueScheduled, JobSucceeds, JobFails
<1>7. CASE RecordScheduled(t) \/ RecordSending(t)
  BY <1>3, <1>4, <1>7 DEF RecordScheduled, RecordSending, Steps
<1>8. CASE ReadMessage(t) \/ RecordFailed(t)
  BY <1>4, <1>5, <1>8 DEF ReadMessage, RecordFailed, Steps
<1>9. CASE SuppressNow(t) \/ Requeue(t) \/ RecordSent(t) \/ StatementThrows(t)
  BY <1>5, <1>9 DEF SuppressNow, Requeue, RecordSent, StatementThrows
<1>10. CASE Accepts(t) \/ Refuses(t)
  BY <1>4, <1>10 DEF Accepts, Refuses, Steps
<1> QED
  BY <1>2, <1>6, <1>7, <1>8, <1>9, <1>10 DEF TaskStep

LEMMA GateStep == TypeOK /\ GateWasRead /\ [Next]_vars => GateWasRead'
<1> SUFFICES ASSUME TypeOK, GateWasRead, [Next]_vars PROVE GateWasRead'
  OBVIOUS
<1>1. ASSUME NEW r \in Requests, Send(r) PROVE GateWasRead'
  <2>1. PICK pc \in {"schedule", "record", "refuse"} :
          work' = work \cup {[req |-> r, by |-> "send", seen |-> 0, pc |-> pc]}
    BY <1>1 DEF Send
  <2>2. stopped' = stopped /\ keywords' = keywords
    BY <1>1 DEF Send, client
  <2> QED
    BY <2>1, <2>2, GateKept
<1>2. ASSUME NEW r \in Requests, ClaimJob(r) PROVE GateWasRead'
  BY <1>2, GateKept DEF ClaimJob, client
<1>3. ASSUME NEW r \in Requests, Reclaim(r) PROVE GateWasRead'
  BY <1>3, GateKept DEF Reclaim, client
<1>4. ASSUME NEW t \in work, TaskStep(t) PROVE GateWasRead'
  BY <1>4, TaskStepKeepsGate
<1>5. CASE TextsStop
  <2> SUFFICES ASSUME NEW t \in work, t.pc = "call"
               PROVE  t.seen <= keywords' /\ t.seen < keywords'
    BY <1>5 DEF GateWasRead, TextsStop
  <2>1. t.seen \in Nat /\ keywords \in Nat
    BY DEF TypeOK, Task
  <2> QED
    BY <1>5, <2>1 DEF GateWasRead, Gate, TextsStop
<1>6. CASE TextsStart
  <2> SUFFICES ASSUME NEW t \in work, t.pc = "call"
               PROVE  t.seen <= keywords' /\ Gate(t.req)'
    BY <1>6 DEF GateWasRead, TextsStart
  <2>1. t.seen <= keywords /\ t.seen \in Nat /\ keywords \in Nat
    BY DEF TypeOK, Task, GateWasRead
  <2>2. t.seen <= keywords'
    BY <1>6, <2>1 DEF TextsStart
  <2>3. Gate(t.req)'
    BY <1>6, Zenon DEF Gate, TextsStart
  <2> QED
    BY <2>2, <2>3
<1>7. CASE Crash
  BY <1>7 DEF Crash, GateWasRead
<1>8. CASE UNCHANGED vars
  BY <1>8, GateKept DEF vars
<1> QED
  BY <1>1, <1>2, <1>3, <1>4, <1>5, <1>6, <1>7, <1>8 DEF Next

(* messaging.ts deliver: no text the gate covers goes out after STOP, save *)
(* one whose delivery had read the gate before.                            *)
THEOREM StopIsObeyed == Spec => OptOutHolds
<1>1. Init => GateWasRead
  BY DEF Init, GateWasRead
<1>2. GateWasRead => NoTextAfterStop
  BY DEF GateWasRead, NoTextAfterStop
<1>3. Spec => [](TypeOK /\ GateWasRead)
  BY InitTyped, StepTyped, GateStep, <1>1, PTL DEF Spec
<1> QED
  BY <1>2, <1>3, PTL DEF OptOutHolds
-----------------------------------------------------------------------------
(* The contract of the queue.                                              *)

Allowed(r) == job'[r] = job[r] \/ <<job[r], job'[r]>> \in Queue!Change

LEMMA AllowedIsStep ==
  ASSUME TypeOK', \A r \in Requests : Allowed(r)
  PROVE  Queue!Next
BY DEF TypeOK, Allowed, Queue!Next, Queue!State

LEMMA JobStepAllowed ==
  ASSUME RecordInv, [Next]_vars, NEW r \in Requests
  PROVE  Allowed(r)
<1> USE DEF Allowed, Queue!Change
<1>0. job \in [Requests -> {"absent", "pending", "running", "succeeded", "dead"}]
  BY DEF RecordInv, TypeOK
<1>1. CASE job' = job
  BY <1>1
<1>2. ASSUME NEW s \in Requests, ClaimJob(s) \/ Reclaim(s) PROVE Allowed(r)
  BY <1>0, <1>2 DEF ClaimJob, Reclaim
<1>3. ASSUME NEW t \in work, EnqueueScheduled(t) \/ Requeue(t) PROVE Allowed(r)
  <2>1. Stands(t) /\ t.req \in Requests /\ t.by \in {"send", "job"}
    BY DEF RecordInv, TasksStand, TypeOK, Task
  <2>2. job[t.req] \in {"absent", "running"}
    BY <2>1 DEF Stands
  <2> QED
    BY <1>0, <1>3, <2>1, <2>2 DEF EnqueueScheduled, Requeue, Live
<1>4. ASSUME NEW t \in work, JobSucceeds(t) \/ JobFails(t) PROVE Allowed(r)
  <2>1. Stands(t) /\ t.req \in Requests /\ t.by \in {"send", "job"}
    BY DEF RecordInv, TasksStand, TypeOK, Task
  <2>2. job[t.req] = "running"
    BY <1>4, <2>1 DEF Stands, JobSucceeds, JobFails
  <2> QED
    BY <1>0, <1>4, <2>1, <2>2 DEF JobSucceeds, JobFails
<1>5. ASSUME NEW t \in work, TaskStep(t) PROVE Allowed(r)
  <2>1. CASE EnqueueScheduled(t) \/ Requeue(t)
    BY <1>3, <2>1
  <2>2. CASE JobSucceeds(t) \/ JobFails(t)
    BY <1>4, <2>2
  <2>3. CASE ~(EnqueueScheduled(t) \/ Requeue(t) \/ JobSucceeds(t) \/ JobFails(t))
    <3>1. job' = job
      BY <1>5, <2>3 DEF TaskStep, RecordSuppressed, RecordScheduled, RecordSending,
         ReadMessage, CheckGate, SuppressNow, Accepts, Refuses, RecordFailed, RecordSent,
         StatementThrows, table
    <3> QED
      BY <1>1, <3>1
  <2> QED
    BY <2>1, <2>2, <2>3
<1>6. ASSUME NEW s \in Requests, Send(s) PROVE Allowed(r)
  BY <1>1, <1>6 DEF Send, table
<1>7. CASE TextsStop \/ TextsStart \/ Crash
  BY <1>1, <1>7 DEF TextsStop, TextsStart, Crash, table
<1>8. CASE UNCHANGED vars
  BY <1>1, <1>8 DEF vars
<1> QED
  BY <1>2, <1>5, <1>6, <1>7, <1>8 DEF Next

(* messaging.ts send, deliver: the job of a message is planted once and    *)
(* after that only claimed, returned and settled, as JobContract has it,   *)
(* statements that throw and exits of the process included.                *)
THEOREM MessagingKeepsContract == Spec => UsesQueueByContract
<1>1. Init => Queue!Init
  BY DEF Init, Queue!Init
<1>2. RecordInv /\ RecordInv' /\ [Next]_vars => [Queue!Next]_job
  BY JobStepAllowed, AllowedIsStep DEF RecordInv
<1> QED
  BY <1>1, <1>2, RecordsHold, PTL DEF Spec, UsesQueueByContract, Queue!Spec

-----------------------------------------------------------------------------
(* Nothing is left behind.                                                 *)

(* A row that is to go out has its job, or somebody at it.                 *)
NotForgotten(r) ==
  msg[r] \in {"scheduled", "sending"} =>
    job[r] \in {"pending", "running", "dead"} \/ \E t \in work : t.req = r

LEMMA GotoStays ==
  ASSUME TypeOK, NEW t \in work, NEW pc \in Steps, Goto(t, pc)
  PROVE  \A u \in work : \E v \in work' : v.req = u.req
<1>1. PICK q \in Task : work' = (work \ {t}) \cup {q} /\ q.req = t.req
  BY GotoMoves DEF TypeOK
<1> QED
  BY <1>1

(* Whoever is done leaves the row with an outcome or a job.                *)
LEMMA TaskStepForgetsNothing ==
  ASSUME RecordInv, ~DbErrors, NEW t \in work, TaskStep(t), NEW r \in Requests, NotForgotten(r)
  PROVE  NotForgotten(r)'
<1>0. /\ Stands(t) /\ t.req \in Requests /\ t.by \in {"send", "job"} /\ t \in Task
      /\ msg \in [Requests -> {"none", "scheduled", "sending", "sent", "failed", "suppressed"}]
      /\ job \in [Requests -> {"absent", "pending", "running", "succeeded", "dead"}]
  BY DEF RecordInv, TasksStand, TypeOK, Task
<1>1. CASE t.req # r
  <2>1. msg'[r] = msg[r] /\ job'[r] = job[r]
    BY <1>0, <1>1 DEF TaskStep, RecordSuppressed, RecordScheduled, EnqueueScheduled,
       RecordSending, ReadMessage, CheckGate, SuppressNow, Accepts, Refuses, RecordFailed,
       Requeue, RecordSent, StatementThrows, JobSucceeds, JobFails, table
  <2>2. \A u \in work : u.req = r => u \in work'
    BY <1>1 DEF TaskStep, RecordSuppressed, RecordScheduled, EnqueueScheduled,
       RecordSending, ReadMessage, CheckGate, SuppressNow, Accepts, Refuses, RecordFailed,
       Requeue, RecordSent, StatementThrows, JobSucceeds, JobFails, Outcome, Goto, Done
  <2> QED
    BY <2>1, <2>2 DEF NotForgotten
<1>2. CASE t.req = r
  <2>1. ASSUME NEW pc \in Steps, Goto(t, pc) PROVE NotForgotten(r)'
    <3>1. \E v \in work' : v.req = r
      BY <1>2, <2>1, GotoStays DEF RecordInv
    <3> QED
      BY <3>1 DEF NotForgotten
  <2>2. ASSUME t.by = "job", job' = job PROVE NotForgotten(r)'
    BY <1>0, <1>2, <2>2 DEF NotForgotten, Stands
  <2>3. CASE RecordSuppressed(t)
    BY <1>0, <1>2, <2>3 DEF RecordSuppressed, NotForgotten, Stands, BeforeRow
  <2>4. CASE RecordScheduled(t)
    BY <2>1, <2>4 DEF RecordScheduled, Steps
  <2>5. CASE EnqueueScheduled(t)
    BY <1>0, <1>2, <2>5 DEF EnqueueScheduled, NotForgotten, Stands, BeforeRow, Live
  <2>6. CASE RecordSending(t)
    BY <1>0, <1>2, <2>1, <2>6 DEF RecordSending, Steps, NotForgotten, Stands, BeforeRow
  <2>7. CASE ReadMessage(t)
    BY <1>0, <1>2, <2>1, <2>2, <2>7 DEF ReadMessage, Steps, NotForgotten, table
  <2>8. CASE CheckGate(t)
    <3> DEFINE q == [t EXCEPT !.pc = IF Gate(t.req) THEN "call" ELSE "suppress",
                              !.seen = keywords]
    <3>0. q \in work' /\ q.req = t.req
      BY <1>0, <2>8 DEF CheckGate, Task
    <3>1. \E v \in work' : v.req = r
      BY <1>2, <3>0
    <3> QED
      BY <3>1 DEF NotForgotten
  <2>9. CASE SuppressNow(t)
    BY <1>0, <1>2, <2>9 DEF SuppressNow, NotForgotten
  <2>10. CASE Accepts(t) \/ Refuses(t)
    BY <2>1, <2>10 DEF Accepts, Refuses, Steps
  <2>11. CASE RecordFailed(t) \/ RecordSent(t)
    BY <1>0, <1>2, <2>11 DEF RecordFailed, RecordSent, NotForgotten
  <2>12. CASE Requeue(t)
    BY <1>0, <1>2, <2>12 DEF Requeue, NotForgotten, Stands
  <2>13. CASE JobSucceeds(t)
    BY <1>0, <1>2, <2>13 DEF JobSucceeds, NotForgotten, Stands
  <2>14. CASE JobFails(t)
    BY <1>0, <1>2, <2>14 DEF JobFails, NotForgotten
  <2>15. CASE StatementThrows(t)
    BY <2>15 DEF StatementThrows
  <2> QED
    BY <2>3, <2>4, <2>5, <2>6, <2>7, <2>8, <2>9, <2>10, <2>11, <2>12, <2>13, <2>14,
      <2>15
       DEF TaskStep
<1> QED
  BY <1>1, <1>2

LEMMA StepForgetsNothing ==
  ASSUME RecordInv, ~DbErrors, [Next]_vars, NothingLeftBehind
  PROVE  NothingLeftBehind'
<1> SUFFICES ASSUME NEW r \in Requests, exits' = 0 PROVE NotForgotten(r)'
  BY DEF NothingLeftBehind, NotForgotten
<1>0. /\ exits = 0 => NotForgotten(r)
      /\ exits \in Nat
      /\ job \in [Requests -> {"absent", "pending", "running", "succeeded", "dead"}]
  BY DEF NothingLeftBehind, NotForgotten, RecordInv, TypeOK
<1>1. ASSUME NEW s \in Requests, Send(s) \/ ClaimJob(s) PROVE NotForgotten(r)'
  BY <1>0, <1>1 DEF Send, ClaimJob, NotForgotten, table
<1>2. ASSUME NEW s \in Requests, Reclaim(s) PROVE NotForgotten(r)'
  BY <1>0, <1>2 DEF Reclaim, NotForgotten
<1>3. ASSUME NEW t \in work, TaskStep(t) PROVE NotForgotten(r)'
  <2>1. exits' = exits
    BY <1>3 DEF TaskStep, RecordSuppressed, RecordScheduled, EnqueueScheduled,
       RecordSending, ReadMessage, CheckGate, SuppressNow, Accepts, Refuses, RecordFailed,
       Requeue, RecordSent, StatementThrows, JobSucceeds, JobFails
  <2> QED
    BY <1>0, <1>3, <2>1, TaskStepForgetsNothing
<1>4. CASE TextsStop \/ TextsStart
  BY <1>0, <1>4 DEF TextsStop, TextsStart, NotForgotten, table
<1>5. CASE Crash
  BY <1>0, <1>5 DEF Crash
<1>6. CASE UNCHANGED vars
  BY <1>0, <1>6 DEF vars, NotForgotten
<1> QED
  BY <1>1, <1>2, <1>3, <1>4, <1>5, <1>6 DEF Next

(* messaging.ts send, deliver: what was recorded to go out is never        *)
(* without a job or somebody at it, as long as the process lives and its   *)
(* statements succeed.                                                     *)
THEOREM NobodyIsForgotten ==
  ASSUME ~DbErrors PROVE Spec => []NothingLeftBehind
<1>1. Init => NothingLeftBehind
  BY DEF Init, NothingLeftBehind
<1>2. RecordInv /\ NothingLeftBehind /\ [Next]_vars => NothingLeftBehind'
  BY StepForgetsNothing
<1> QED
  BY <1>1, <1>2, RecordsHold, PTL DEF Spec

-----------------------------------------------------------------------------
(* The client's answers: Corrections, which MCCatchUp calls Answers.       *)

(* Sets are counted, and finite, alike in every module.                    *)
LEMMA AnswersCount ==
  ASSUME NEW S
  PROVE  Answers!Cardinality(S) = Cardinality(S) /\ Answers!IsFiniteSet(S) = IsFiniteSet(S)
BY DEF Answers!Cardinality, Cardinality, Answers!IsFiniteSet, IsFiniteSet

(* What may stand in a column: an answer, or what staff typed.             *)
Values == (0 .. MaxAnswers) \cup Staff
Forms ==
  [at : {"closed"}] \cup [at : {"open"}, value : [Paths -> Values]]
  \cup [at : {"saving"}, value : [Paths -> Values], before : [Paths -> Values]]
  \cup [at : {"reverting"}] \cup [at : {"answersRead"}, answers : [Paths -> Values]]
  \cup [at : {"editsRead"}, merged : [Paths -> Values]]

(* A push never lists what the client has not uploaded, and nothing is     *)
(* open, corrected or told of before the first one came.                   *)
AnswersInv ==
  /\ said \in Answers!Payload /\ pushes \subseteq Answers!Payload
  /\ row # NoRow => row \in Answers!Payload /\ row.docs \subseteq documents
  /\ row = NoRow => edits = [p \in Paths |-> NoEdit] /\ events = {}
  /\ documents \subseteq said.docs /\ \A m \in pushes : m.docs \subseteq said.docs
  /\ submitted \in BOOLEAN /\ torn \in BOOLEAN
  /\ columns \in [Paths -> Values] /\ edits \in [Paths -> Values \cup {NoEdit}]
  /\ form \in [Staff -> Forms]
  /\ \A u \in Staff : form[u].at # "closed" => row # NoRow
  /\ Answers!ColumnsAgree /\ Answers!SubmittedIsHeard

(* The form by what is done with it.                                       *)
LEMMA FormShape ==
  ASSUME NEW f \in Forms
  PROVE  /\ f.at \in {"closed", "open", "saving", "reverting", "answersRead", "editsRead"}
         /\ f.at = "open" => f.value \in [Paths -> Values]
         /\ f.at = "saving" => f.value \in [Paths -> Values] /\ f.before \in [Paths -> Values]
         /\ f.at = "answersRead" => f.answers \in [Paths -> Values]
         /\ f.at = "editsRead" => f.merged \in [Paths -> Values]
BY DEF Forms

LEMMA ClosedForm == Answers!Closed \in Forms /\ Answers!Closed.at = "closed"
BY DEF Answers!Closed, Forms

(* Corrections are laid over answers.                                      *)
LEMMA MergeTyped ==
  ASSUME NEW a \in [Paths -> Values], NEW e \in [Paths -> Values \cup {NoEdit}]
  PROVE  Answers!Merge(a, e) \in [Paths -> Values]
BY DEF Answers!Merge

LEMMA AnswersAreValues == [Paths -> 0 .. MaxAnswers] \subseteq [Paths -> Values]
BY DEF Values

LEMMA ShownTyped == AnswersInv /\ row # NoRow => Answers!Shown \in [Paths -> Values]
BY MergeTyped, AnswersAreValues DEF AnswersInv, Answers!Shown, Answers!Payload

(* A Boolean that holds where somebody is a member says so.                *)
LEMMA SaysSo ==
  ASSUME NEW b \in BOOLEAN, NEW S, NEW x, b <=> x \in S
  PROVE  b = (x \in S)
<1>1. CASE b
  BY <1>1
<1>2. CASE ~b
  BY <1>2
<1> QED
  BY <1>1, <1>2

LEMMA AnswersBegin == Answers!CorrectionsAssumption /\ Answers!Init => AnswersInv
<1> SUFFICES ASSUME Answers!CorrectionsAssumption, Answers!Init PROVE AnswersInv
  OBVIOUS
<1>1. said \in Answers!Payload
  BY DEF Answers!CorrectionsAssumption, Answers!Init, Answers!Payload
<1>2. Cardinality({}) = 0
  BY FS_EmptySet
<1>3. [u \in Staff |-> Answers!Closed] \in [Staff -> Forms] /\ \A u \in Staff : form[u].at = "closed"
  BY ClosedForm DEF Answers!Init
<1>4. columns \in [Paths -> Values] /\ edits \in [Paths -> Values \cup {NoEdit}]
  BY DEF Answers!Init, Values, Answers!CorrectionsAssumption
<1>5. submitted = FALSE /\ torn = FALSE
  BY DEF Answers!Init
<1>8. "submitted" \notin events /\ row = NoRow /\ counts = {}
  BY DEF Answers!Init
<1>6. Answers!ColumnsAgree /\ Answers!SubmittedIsHeard
  <2>1. submitted = ("submitted" \in events)
    <3>1. submitted <=> "submitted" \in events
      BY <1>5, <1>8
    <3>2. submitted \in BOOLEAN
      BY <1>5, Zenon
    <3> QED
      BY <3>1, <3>2, SaysSo, Zenon
  <2> QED
    BY <2>1, <1>8 DEF Answers!ColumnsAgree, Answers!SubmittedIsHeard
<1>7. submitted \in BOOLEAN /\ torn \in BOOLEAN
  BY <1>5, Zenon
<1> QED
  BY <1>1, <1>3, <1>4, <1>6, <1>7 DEF Answers!Init, AnswersInv

-----------------------------------------------------------------------------
(* The portal.                                                             *)

LEMMA ChangeKeeps ==
  ASSUME Answers!CorrectionsAssumption, AnswersInv, NEW next, Answers!Change(next),
         [next EXCEPT !.given = next.given + 1] \in Answers!Payload, said.docs \subseteq next.docs
  PROVE  AnswersInv'
<1> DEFINE c == [next EXCEPT !.given = next.given + 1]
<1>1. said' = c /\ pushes' = pushes \cup {c} /\ c.docs = next.docs
  BY DEF Answers!Change, Answers!Payload
<1>2. UNCHANGED <<row, submitted, documents, events, counts, columns, edits, form, torn>>
  BY DEF Answers!Change, Answers!mirrorVars
<1>3. said' \in Answers!Payload /\ pushes' \subseteq Answers!Payload /\ documents' \subseteq said'.docs
      /\ \A m \in pushes' : m.docs \subseteq said'.docs
  BY <1>1, <1>2 DEF AnswersInv
<1>4. Answers!ColumnsAgree' /\ Answers!SubmittedIsHeard'
  BY <1>2 DEF AnswersInv, Answers!ColumnsAgree, Answers!SubmittedIsHeard,
    Answers!Shown, Answers!Reverting
<1> QED
  BY <1>2, <1>3, <1>4 DEF AnswersInv

LEMMA AnswerKeeps ==
  ASSUME Answers!CorrectionsAssumption, AnswersInv, NEW p \in Paths, Answers!Answer(p)
  PROVE  AnswersInv'
<1> DEFINE next == [said EXCEPT !.answers[p] = said.given + 1]
<1>1. said.given < MaxAnswers /\ said \in Answers!Payload /\ Answers!Change(next)
  BY DEF Answers!Answer, Answers!Change, AnswersInv
<1>2. [said.answers EXCEPT ![p] = said.given + 1] \in [Paths -> 0 .. MaxAnswers]
  BY <1>1 DEF Answers!Payload, Answers!CorrectionsAssumption
<1>3. /\ next = [said EXCEPT !.answers = [said.answers EXCEPT ![p] = said.given + 1]]
      /\ next.given = said.given /\ next.docs = said.docs
  BY <1>1 DEF Answers!Payload
<1>4. [next EXCEPT !.given = next.given + 1] \in Answers!Payload
  BY <1>1, <1>2, <1>3 DEF Answers!Payload, Answers!CorrectionsAssumption
<1> HIDE DEF next
<1> QED
  BY <1>1, <1>3, <1>4, ChangeKeeps

LEMMA UploadKeeps ==
  ASSUME Answers!CorrectionsAssumption, AnswersInv, NEW f \in Uploads, Answers!Upload(f)
  PROVE  AnswersInv'
<1> DEFINE next == [said EXCEPT !.docs = said.docs \cup {f}]
<1>1. said.given < MaxAnswers /\ said \in Answers!Payload /\ Answers!Change(next)
  BY DEF Answers!Upload, Answers!Change, AnswersInv
<1>2. next \in Answers!Payload /\ next.given = said.given /\ said.docs \subseteq next.docs
  BY <1>1 DEF Answers!Payload
<1> HIDE DEF next
<1>3. [next EXCEPT !.given = next.given + 1] \in Answers!Payload
  BY <1>1, <1>2 DEF Answers!Payload, Answers!CorrectionsAssumption
<1> QED
  BY <1>1, <1>2, <1>3, ChangeKeeps

LEMMA SubmitKeeps ==
  ASSUME Answers!CorrectionsAssumption, AnswersInv, Answers!Submit
  PROVE  AnswersInv'
<1> DEFINE next == [said EXCEPT !.submitted = TRUE]
<1>1. said.given < MaxAnswers /\ said \in Answers!Payload /\ Answers!Change(next)
  BY DEF Answers!Submit, Answers!Change, AnswersInv
<1>2. next \in Answers!Payload /\ next.given = said.given /\ said.docs = next.docs
  BY <1>1 DEF Answers!Payload
<1> HIDE DEF next
<1>3. [next EXCEPT !.given = next.given + 1] \in Answers!Payload
  BY <1>1, <1>2 DEF Answers!Payload, Answers!CorrectionsAssumption
<1> QED
  BY <1>1, <1>2, <1>3, ChangeKeeps

LEMMA LoseKeeps ==
  ASSUME AnswersInv, NEW m, Answers!Lose(m)
  PROVE  AnswersInv'
<1>1. UNCHANGED <<said, row, submitted, documents, events, counts, columns, edits, form, torn>>
  BY DEF Answers!Lose, Answers!mirrorVars
<1>2. Answers!ColumnsAgree' /\ Answers!SubmittedIsHeard'
  BY <1>1 DEF AnswersInv, Answers!ColumnsAgree, Answers!SubmittedIsHeard,
    Answers!Shown, Answers!Reverting
<1>3. pushes' \subseteq pushes
  BY DEF Answers!Lose
<1> QED
  BY <1>1, <1>2, <1>3 DEF AnswersInv

(* However a push arrives: the columns are what the file shows, and what   *)
(* was announced is what arrived.                                          *)
LEMMA ImportKeeps ==
  ASSUME Answers!CorrectionsAssumption, AnswersInv, NEW m \in Answers!Payload, m.docs \subseteq said.docs,
         Answers!Import(m), pushes' \subseteq pushes, UNCHANGED <<said, edits, form>>
  PROVE  AnswersInv'
<1> USE DEF AnswersInv
<1>1. CASE Answers!Unchanged(m)
  <2>1. UNCHANGED <<row, submitted, documents, events, counts, columns, torn>>
    BY <1>1 DEF Answers!Import, Answers!mirrorVars
  <2>2. Answers!ColumnsAgree' /\ Answers!SubmittedIsHeard'
    BY <2>1 DEF Answers!ColumnsAgree, Answers!SubmittedIsHeard, Answers!Shown,
      Answers!Reverting
  <2> QED
    BY <2>1, <2>2
<1>2. CASE ~Answers!Unchanged(m)
  <2>1. /\ row' = m /\ submitted' = (submitted \/ m.submitted)
        /\ documents' = documents \cup m.docs /\ Answers!Heard(m)
        /\ columns' = Answers!Merge(m.answers, edits) /\ torn' = FALSE
    BY <1>2 DEF Answers!Import, Answers!WithManifest
  <2>2. m # NoRow /\ m.answers \in [Paths -> 0 .. MaxAnswers] /\ m.submitted \in BOOLEAN
    BY DEF Answers!Payload, Answers!CorrectionsAssumption
  <2>3. columns' \in [Paths -> Values]
    BY <2>1, <2>2, MergeTyped, AnswersAreValues
  <2>4. Answers!ColumnsAgree'
    BY <2>1 DEF Answers!ColumnsAgree, Answers!Shown
  <2>5. submitted' \in BOOLEAN /\ torn' \in BOOLEAN
    BY <2>1, <2>2
  <2>6. submitted' = ("submitted" \in events')
    <3>1. submitted <=> "submitted" \in events
      BY DEF Answers!SubmittedIsHeard
    <3>2. submitted' <=> "submitted" \in events'
      BY <2>1, <2>2, <3>1 DEF Answers!Heard
    <3> QED
      BY <2>5, <3>2, SaysSo, Zenon
  <2>7. "created" \in events'
    BY <2>1 DEF Answers!Heard
  <2>8. IsFiniteSet(documents') /\ IsFiniteSet(m.docs) /\ m.docs \subseteq documents'
        /\ documents \subseteq documents'
    BY <2>1, FS_Subset, AnswersCount DEF Answers!Payload, Answers!CorrectionsAssumption
  <2>9. counts' \subseteq 1 .. Cardinality(documents')
    <3>1. Cardinality(documents) \in Nat /\ Cardinality(documents) <= Cardinality(documents')
          /\ Cardinality(m.docs) \in Nat /\ Cardinality(m.docs) <= Cardinality(documents')
          /\ Cardinality(documents') \in Nat
      BY <2>8, FS_Subset, FS_CardinalityType
    <3>2. counts \subseteq 1 .. Cardinality(documents')
      BY <3>1, AnswersCount DEF Answers!SubmittedIsHeard
    <3>3. CASE row # NoRow /\ Cardinality(m.docs) > Cardinality(row.docs)
      <4>1. Cardinality(row.docs) \in Nat
        BY <3>3, <2>8, FS_Subset, FS_CardinalityType
      <4>2. Cardinality(m.docs) \in 1 .. Cardinality(documents')
        BY <3>1, <3>3, <4>1
      <4> QED
        BY <2>1, <3>2, <3>3, <4>2, AnswersCount DEF Answers!Heard
    <3>4. CASE ~(row # NoRow /\ Cardinality(m.docs) > Cardinality(row.docs))
      BY <2>1, <3>2, <3>4, AnswersCount DEF Answers!Heard
    <3> QED
      BY <3>3, <3>4
  <2>10. Answers!SubmittedIsHeard'
    BY <2>1, <2>6, <2>7, <2>9, AnswersCount DEF Answers!SubmittedIsHeard
  <2> QED
    BY <2>1, <2>2, <2>3, <2>4, <2>5, <2>8, <2>10
<1> QED
  BY <1>1, <1>2

LEMMA ArrivesKeeps ==
  ASSUME Answers!CorrectionsAssumption, AnswersInv,
         Answers!Sweep \/ \E m \in pushes, again \in BOOLEAN : Answers!Deliver(m, again)
  PROVE  AnswersInv'
<1>1. CASE Answers!Sweep
  BY <1>1, ImportKeeps DEF Answers!Sweep, AnswersInv, Answers!portalVars
<1>2. ASSUME NEW m \in pushes, NEW again \in BOOLEAN, Answers!Deliver(m, again) PROVE AnswersInv'
  BY <1>2, ImportKeeps DEF Answers!Deliver, AnswersInv
<1> QED
  BY <1>1, <1>2

-----------------------------------------------------------------------------
(* Staff.                                                                  *)

(* A form that moves from step to step while nothing else does.            *)
LEMMA FormMoves ==
  ASSUME AnswersInv, NEW u \in Staff, NEW f \in Forms,
         form' = [form EXCEPT ![u] = f], f.at # "closed" => row # NoRow,
         form[u].at \in {"reverting", "answersRead", "editsRead"}
           => f.at \in {"reverting", "answersRead", "editsRead"},
         UNCHANGED <<said, pushes, row, submitted, documents, events, counts, columns,
                     edits, torn>>
  PROVE  AnswersInv'
<1> USE DEF AnswersInv
<1>1. form' \in [Staff -> Forms] /\ \A v \in Staff : form'[v].at # "closed" => row' # NoRow
  OBVIOUS
<1>2. Answers!Reverting \subseteq Answers!Reverting'
  BY DEF Answers!Reverting
<1>3. Answers!ColumnsAgree' /\ Answers!SubmittedIsHeard'
  BY <1>2 DEF Answers!ColumnsAgree, Answers!SubmittedIsHeard, Answers!Shown
<1> QED
  BY <1>1, <1>3

LEMMA OpenFormKeeps ==
  ASSUME AnswersInv, NEW u \in Staff, Answers!OpenForm(u)
  PROVE  AnswersInv'
<1> DEFINE f == [at |-> "open", value |-> Answers!Shown]
<1>1. row # NoRow /\ form' = [form EXCEPT ![u] = f] /\ form[u].at = "closed"
  BY ClosedForm DEF Answers!OpenForm
<1>2. f \in Forms /\ f.at = "open"
  BY <1>1, ShownTyped DEF Forms
<1> HIDE DEF f
<1> QED
  BY <1>1, <1>2, FormMoves DEF Answers!OpenForm, Answers!portalVars, Answers!mirrorVars

LEMMA TypeKeeps ==
  ASSUME AnswersInv, NEW u \in Staff, NEW p \in Paths, Answers!Type(u, p)
  PROVE  AnswersInv'
<1> DEFINE f == [form[u] EXCEPT !.value = [form[u].value EXCEPT ![p] = u]]
<1>1. form' = [form EXCEPT ![u] = f] /\ form[u].at = "open"
  BY DEF Answers!Type
<1>2. form[u] \in [at : {"open"}, value : [Paths -> Values]]
  BY <1>1 DEF AnswersInv, Forms
<1>3. [form[u].value EXCEPT ![p] = u] \in [Paths -> Values]
  BY <1>2 DEF Values
<1>4. f \in [at : {"open"}, value : [Paths -> Values]]
  BY <1>2, <1>3
<1>5. f \in Forms /\ f.at = "open" /\ row # NoRow
  BY <1>1, <1>4 DEF Forms, AnswersInv
<1> HIDE DEF f
<1> QED
  BY <1>1, <1>5, FormMoves DEF Answers!Type, Answers!portalVars, Answers!mirrorVars

LEMMA ReadBeforeKeeps ==
  ASSUME AnswersInv, NEW u \in Staff, Answers!ReadBefore(u)
  PROVE  AnswersInv'
<1> DEFINE f == [at |-> "saving", value |-> form[u].value, before |-> Answers!Shown]
<1>1. form' = [form EXCEPT ![u] = f] /\ form[u].at = "open"
  BY DEF Answers!ReadBefore
<1>2. row # NoRow /\ form[u].value \in [Paths -> Values]
  BY <1>1, FormShape DEF AnswersInv
<1>3. f \in Forms /\ f.at = "saving"
  BY <1>2, ShownTyped DEF Forms
<1> HIDE DEF f
<1> QED
  BY <1>1, <1>2, <1>3, FormMoves DEF Answers!ReadBefore, Answers!portalVars,
    Answers!mirrorVars

LEMMA CommitSaveKeeps ==
  ASSUME Answers!CorrectionsAssumption, AnswersInv, NEW u \in Staff, Answers!CommitSave(u)
  PROVE  AnswersInv'
<1>1. form[u].at = "saving" /\ form' = [form EXCEPT ![u] = Answers!Closed]
      /\ UNCHANGED <<said, pushes, row, submitted, documents, events, counts>>
  BY DEF Answers!CommitSave, Answers!portalVars, Answers!mirrorVars
<1>2. row # NoRow /\ form[u].value \in [Paths -> Values]
  BY <1>1, FormShape DEF AnswersInv
<1>3. CASE Answers!ChangedPaths(u) = {}
  BY <1>1, <1>3, ClosedForm, FormMoves DEF Answers!CommitSave
<1>4. CASE Answers!ChangedPaths(u) # {}
  <2>1. edits' = Answers!Corrected(u) /\ columns' = Answers!Merge(row.answers, Answers!Corrected(u)) /\ torn' = FALSE
    BY <1>4 DEF Answers!CommitSave
  <2>2. Answers!Corrected(u) \in [Paths -> Values \cup {NoEdit}]
    BY <1>2 DEF Answers!Corrected, Answers!ChangedPaths, AnswersInv
  <2>3. columns' \in [Paths -> Values]
    BY <1>2, <2>1, <2>2, MergeTyped, AnswersAreValues DEF AnswersInv, Answers!Payload
  <2>4. Answers!ColumnsAgree' /\ Answers!SubmittedIsHeard'
    BY <1>1, <2>1 DEF Answers!ColumnsAgree, Answers!SubmittedIsHeard, Answers!Shown,
      AnswersInv
  <2>5. form' \in [Staff -> Forms] /\ \A v \in Staff : form'[v].at # "closed" => row' # NoRow
    BY <1>1, <1>2, ClosedForm DEF AnswersInv
  <2>6. submitted' \in BOOLEAN /\ torn' \in BOOLEAN
    BY <1>1, <2>1, Zenon DEF AnswersInv
  <2> QED
    BY <1>1, <1>2, <2>1, <2>2, <2>3, <2>4, <2>5, <2>6 DEF AnswersInv
<1> QED
  BY <1>3, <1>4

LEMMA RevertDeleteKeeps ==
  ASSUME AnswersInv, NEW u \in Staff, NEW p \in Paths, Answers!RevertDelete(u, p)
  PROVE  AnswersInv'
<1> DEFINE f == [at |-> "reverting"]
<1>1. /\ form' = [form EXCEPT ![u] = f] /\ form[u].at = "open"
      /\ edits' = [edits EXCEPT ![p] = NoEdit]
      /\ UNCHANGED <<said, pushes, row, submitted, documents, events, counts, columns, torn>>
  BY DEF Answers!RevertDelete, Answers!portalVars, Answers!mirrorVars
<1>2. row # NoRow /\ f \in Forms /\ f.at = "reverting"
  BY <1>1 DEF AnswersInv, Forms
<1> HIDE DEF f
<1>3. form' \in [Staff -> Forms] /\ \A v \in Staff : form'[v].at # "closed" => row' # NoRow
  BY <1>1, <1>2 DEF AnswersInv
<1>4. edits' \in [Paths -> Values \cup {NoEdit}]
  BY <1>1 DEF AnswersInv
<1>5. u \in Answers!Reverting'
  BY <1>1, <1>2 DEF Answers!Reverting, AnswersInv
<1>6. Answers!ColumnsAgree' /\ Answers!SubmittedIsHeard'
  BY <1>1, <1>5 DEF Answers!ColumnsAgree, Answers!SubmittedIsHeard, AnswersInv
<1> QED
  BY <1>1, <1>2, <1>3, <1>4, <1>6 DEF AnswersInv

LEMMA RevertReadsKeep ==
  ASSUME AnswersInv, NEW u \in Staff, Answers!RevertReadAnswers(u) \/ Answers!RevertReadEdits(u)
  PROVE  AnswersInv'
<1>1. CASE Answers!RevertReadAnswers(u)
  <2> DEFINE f == [at |-> "answersRead", answers |-> row.answers]
  <2>1. form' = [form EXCEPT ![u] = f] /\ form[u].at = "reverting"
    BY <1>1 DEF Answers!RevertReadAnswers
  <2>2. row # NoRow /\ row.answers \in [Paths -> Values]
    BY <2>1, AnswersAreValues DEF AnswersInv, Answers!Payload
  <2>3. f \in Forms /\ f.at = "answersRead"
    BY <2>2 DEF Forms
  <2> HIDE DEF f
  <2> QED
    BY <1>1, <2>1, <2>2, <2>3, FormMoves DEF Answers!RevertReadAnswers,
      Answers!portalVars, Answers!mirrorVars
<1>2. CASE Answers!RevertReadEdits(u)
  <2> DEFINE f == [at |-> "editsRead", merged |-> Answers!Merge(form[u].answers, edits)]
  <2>1. form' = [form EXCEPT ![u] = f] /\ form[u].at = "answersRead"
    BY <1>2 DEF Answers!RevertReadEdits
  <2>2. row # NoRow /\ form[u].answers \in [Paths -> Values]
    BY <2>1, FormShape DEF AnswersInv
  <2>3. f \in Forms /\ f.at = "editsRead"
    BY <2>2, MergeTyped DEF Forms, AnswersInv
  <2> HIDE DEF f
  <2> QED
    BY <1>2, <2>1, <2>2, <2>3, FormMoves DEF Answers!RevertReadEdits,
      Answers!portalVars, Answers!mirrorVars
<1> QED
  BY <1>1, <1>2

LEMMA RevertWriteKeeps ==
  ASSUME AnswersInv, NEW u \in Staff, Answers!RevertWrite(u)
  PROVE  AnswersInv'
<1>1. /\ form[u].at = "editsRead" /\ form' = [form EXCEPT ![u] = Answers!Closed]
      /\ columns' = form[u].merged /\ torn' = (form[u].merged # Answers!Shown)
      /\ UNCHANGED <<said, pushes, row, submitted, documents, events, counts, edits>>
  BY DEF Answers!RevertWrite, Answers!portalVars, Answers!mirrorVars
<1>2. row # NoRow /\ form[u].merged \in [Paths -> Values]
  BY <1>1, FormShape DEF AnswersInv
<1>3. form' \in [Staff -> Forms] /\ \A v \in Staff : form'[v].at # "closed" => row' # NoRow
  BY <1>1, <1>2, ClosedForm DEF AnswersInv
<1>4. Answers!Shown' = Answers!Shown
  BY <1>1 DEF Answers!Shown
<1>5. torn' \in BOOLEAN /\ (~torn' => columns' = Answers!Shown')
  BY <1>1, <1>4
<1>6. Answers!ColumnsAgree' /\ Answers!SubmittedIsHeard'
  BY <1>1, <1>5 DEF Answers!ColumnsAgree, Answers!SubmittedIsHeard, AnswersInv
<1>7. columns' \in [Paths -> Values]
  BY <1>1, <1>2
<1> QED
  BY <1>1, <1>2, <1>3, <1>5, <1>6, <1>7 DEF AnswersInv

LEMMA ExitKeeps ==
  ASSUME AnswersInv, Answers!Exit
  PROVE  AnswersInv'
<1>1. /\ form' = [u \in Staff |-> IF form[u].at = "open" THEN form[u] ELSE Answers!Closed]
      /\ torn' = (torn \/ Answers!Reverting # {})
      /\ UNCHANGED <<said, pushes, row, submitted, documents, events, counts, columns, edits>>
  BY DEF Answers!Exit, Answers!portalVars, Answers!mirrorVars
<1>2. form' \in [Staff -> Forms] /\ \A v \in Staff : form'[v].at # "closed" => row' # NoRow
  BY <1>1, ClosedForm DEF AnswersInv
<1>3. torn' \in BOOLEAN /\ (~torn' => ~torn /\ Answers!Reverting = {})
  BY <1>1 DEF AnswersInv
<1>4. Answers!ColumnsAgree' /\ Answers!SubmittedIsHeard'
  BY <1>1, <1>3 DEF Answers!ColumnsAgree, Answers!SubmittedIsHeard, AnswersInv,
    Answers!Shown
<1> QED
  BY <1>1, <1>2, <1>3, <1>4 DEF AnswersInv

-----------------------------------------------------------------------------
LEMMA AnswersStep ==
  Answers!CorrectionsAssumption /\ AnswersInv /\ [Answers!Next]_(Answers!vars) => AnswersInv'
<1> SUFFICES ASSUME Answers!CorrectionsAssumption, AnswersInv, [Answers!Next]_(Answers!vars) PROVE AnswersInv'
  OBVIOUS
<1>1. CASE UNCHANGED Answers!vars
  BY <1>1 DEF Answers!vars, Answers!portalVars, Answers!mirrorVars, AnswersInv,
    Answers!ColumnsAgree, Answers!SubmittedIsHeard, Answers!Shown,
    Answers!Reverting
<1>2. CASE Answers!Portal
  BY <1>2, AnswerKeeps, UploadKeeps, SubmitKeeps, LoseKeeps, ArrivesKeeps
    DEF Answers!Portal
<1>3. ASSUME NEW u \in Staff, Answers!StaffStep(u) PROVE AnswersInv'
  BY <1>3, OpenFormKeeps, ReadBeforeKeeps, CommitSaveKeeps, RevertReadsKeep,
    RevertWriteKeeps,
    TypeKeeps, RevertDeleteKeeps DEF Answers!StaffStep
<1> QED
  BY <1>1, <1>2, <1>3, ExitKeeps DEF Answers!Next

LEMMA AnswersHonest ==
  ASSUME AnswersInv PROVE Answers!TypeOK /\ Answers!ColumnsAgree /\ Answers!SubmittedIsHeard
BY FormShape DEF AnswersInv, Answers!TypeOK, Values, Answers!Payload

-----------------------------------------------------------------------------
(* The badge.                                                              *)

(* The tab, and that it has a call for each place.                         *)
BadgeInv == Chats!TypeOK /\ call \in [Calls -> {Free, Asked} \cup Chats!Numbers]

LEMMA BadgeBegins == Chats!BadgeAssumption /\ Chats!Init => BadgeInv
BY DEF Chats!BadgeAssumption, Chats!Init, BadgeInv, Chats!TypeOK, Chats!Numbers

LEMMA RefreshKeeps ==
  ASSUME BadgeInv, Chats!Refresh
  PROVE  call' \in [Calls -> {Free, Asked} \cup Chats!Numbers]
BY DEF Chats!Refresh, BadgeInv

LEMMA BadgeStep == BadgeInv /\ [Chats!Next]_(Chats!badgeVars) => BadgeInv'
<1> SUFFICES ASSUME BadgeInv, [Chats!Next]_(Chats!badgeVars) PROVE BadgeInv'
  OBVIOUS
<1> DEFINE Typed == call \in [Calls -> {Free, Asked} \cup Chats!Numbers]
<1>1. CASE UNCHANGED Chats!badgeVars
  BY <1>1 DEF BadgeInv, Chats!TypeOK, Chats!badgeVars
<1>2. CASE Chats!Mount \/ Chats!TimerFires \/ Chats!Poll
  <2>1. Typed'
    BY <1>2, RefreshKeeps DEF Chats!Mount, Chats!TimerFires, Chats!Poll
  <2> QED
    BY <1>2, <2>1 DEF BadgeInv, Chats!TypeOK, Chats!Mount, Chats!TimerFires,
      Chats!Poll, Chats!Polls
<1>3. CASE Chats!Unmount \/ Chats!Break \/ Chats!Drop \/ Chats!Reconnect
  BY <1>3 DEF BadgeInv, Chats!TypeOK, Chats!Unmount, Chats!Break, Chats!Drop,
    Chats!Reconnect
<1>4. CASE Chats!Change
  BY <1>4 DEF BadgeInv, Chats!TypeOK, Chats!Change
<1>5. ASSUME NEW i \in Calls, Chats!Serve(i) \/ Chats!Arrive(i) \/ Chats!Fail(i) PROVE BadgeInv'
  <2>1. Typed'
    BY <1>5 DEF BadgeInv, Chats!TypeOK, Chats!Serve, Chats!Arrive, Chats!Fail
  <2>2. shown' \in Chats!Numbers
    BY <1>5 DEF BadgeInv, Chats!TypeOK, Chats!Serve, Chats!Arrive, Chats!Fail
  <2> QED
    BY <1>5, <2>1, <2>2 DEF BadgeInv, Chats!TypeOK, Chats!Serve, Chats!Arrive,
      Chats!Fail
<1> QED
  BY <1>1, <1>2, <1>3, <1>4, <1>5 DEF Chats!Next

-----------------------------------------------------------------------------
(* The three together: every step is a step of one of them, and leaves the *)
(* others alone.                                                           *)
CatchUpInv == RecordInv /\ AnswersInv /\ BadgeInv

LEMMA CatchUpBegins == MCInit => Init /\ CatchUpInv
BY CatchUpAssumption, RecordInit, AnswersBegin, BadgeBegins DEF MCInit, CatchUpInv

LEMMA StepOfEach ==
  [MCNext]_<<story, vars, answerVars, badgeVars>>
    => [Next]_vars /\ [Answers!Next]_(Answers!vars) /\ [Chats!Next]_(Chats!badgeVars)
<1>1. UNCHANGED answerVars => UNCHANGED Answers!vars
  BY DEF answerVars, Answers!vars, Answers!portalVars, Answers!mirrorVars,
    Answers!bounds
<1>2. UNCHANGED badgeVars => UNCHANGED Chats!badgeVars
  BY DEF badgeVars, Chats!badgeVars
<1> QED
  BY <1>1, <1>2 DEF MCNext

LEMMA CatchUpStep ==
  CatchUpInv /\ [MCNext]_<<story, vars, answerVars, badgeVars>> => CatchUpInv'
BY StepOfEach, CatchUpAssumption, RecordStep, AnswersStep, BadgeStep DEF CatchUpInv

(* The rows, the requests and the pushes under way, the forms that are     *)
(* open, and the tab with its stream, timer and calls are well formed.     *)
THEOREM CatchUpTyped == MCSpec => []TypesOK
<1>1. CatchUpInv => TypesOK
  BY AnswersHonest DEF CatchUpInv, RecordInv, BadgeInv, TypesOK
<1> QED
  BY <1>1, CatchUpBegins, CatchUpStep, PTL DEF MCSpec

(* portal-import.ts, applications.ts: the columns agree with the merged    *)
(* form, and a submission is announced once, however pushes, saves,        *)
(* reverts and exits cross.  messaging.ts: while statements succeed, what  *)
(* was recorded to go out has a job or somebody at it.                     *)
THEOREM NothingIsForgotten ==
  ASSUME ~DbErrors PROVE MCSpec => []NothingForgotten
<1>1. MCInit => NothingLeftBehind
  BY CatchUpBegins DEF Init, NothingLeftBehind
<1>2. CatchUpInv /\ NothingLeftBehind /\ [MCNext]_<<story, vars, answerVars, badgeVars>>
        => NothingLeftBehind'
  BY StepOfEach, StepForgetsNothing DEF CatchUpInv
<1>3. CatchUpInv /\ NothingLeftBehind => NothingForgotten
  BY AnswersHonest DEF CatchUpInv, NothingForgotten
<1> QED
  BY <1>1, <1>2, <1>3, CatchUpBegins, CatchUpStep, PTL DEF MCSpec

-----------------------------------------------------------------------------
(* Inbound texts, for any records, numbers and texts, any number of        *)
(* deliveries, edits and exits, and statements that throw.                 *)

-----------------------------------------------------------------------------
(* Types.  TypeOK is not inductive: a keyword is written for the customer  *)
(* of the callback, who must have been found.                              *)

CustomerIsKnown ==
  \A t \in tasks : t.pc \in {"attach", "keyword"} => t.customer \in Customers

TypeInv == In!TypeOK /\ CustomerIsKnown

(* What a callback in hand becomes.                                        *)
LEMMA CallbackMoves ==
  ASSUME tasks \subseteq In!Task, CustomerIsKnown, NEW t \in tasks,
         NEW pc \in {"store", "seen", "match", "hold", "attach", "keyword", "mark"},
         pc \in {"attach", "keyword"} => t.customer \in Customers
  PROVE  /\ In!Goto(t, pc) => tasks' \subseteq In!Task /\ CustomerIsKnown'
         /\ In!Answer(t) => tasks' \subseteq In!Task /\ CustomerIsKnown'
  BY DEF In!Task, In!Goto, In!Answer, CustomerIsKnown

LEMMA MatchMoves ==
  ASSUME TypeInv, NEW t \in tasks, In!MatchCustomer(t)
  PROVE  tasks' \subseteq In!Task /\ CustomerIsKnown'
<1>0. tasks \subseteq In!Task /\ t \in In!Task /\ CustomerIsKnown
  BY DEF TypeInv, In!TypeOK
<1>1. CASE In!Goto(t, "hold")
  BY <1>0, <1>1, CallbackMoves
<1>2. ASSUME NEW c \in Customers,
             tasks' = (tasks \ {t}) \cup {[t EXCEPT !.customer = c, !.pc = "attach"]}
      PROVE  tasks' \subseteq In!Task /\ CustomerIsKnown'
  <2>1. LET u == [t EXCEPT !.customer = c, !.pc = "attach"] IN u \in In!Task /\ u.customer = c
    BY <1>0 DEF In!Task
  <2> QED
    BY <1>0, <1>2, <2>1 DEF CustomerIsKnown
<1> QED
  BY <1>1, <1>2 DEF In!MatchCustomer

(* Suppressions are those of the number that wrote.                        *)
LEMMA KeywordTypes ==
  ASSUME TypeInv, NEW t \in tasks, In!ApplyKeyword(t)
  PROVE  /\ suppressions' \subseteq [customer : Customers, address : Phones]
         /\ consents' \in Seq([customer : Customers, granted : BOOLEAN, text : Texts])
         /\ applied' \subseteq Texts
<1>1. t.customer \in Customers /\ t.text \in Texts /\ Sender \in Phones
  BY ConsentAssumption DEF TypeInv, In!TypeOK, CustomerIsKnown, In!ApplyKeyword, In!Task
<1>2. (t.text \in StartTexts) \in BOOLEAN
  OBVIOUS
<1>3. suppressions' \subseteq [customer : Customers, address : Phones]
  BY <1>1 DEF In!ApplyKeyword, In!Suppress, In!Unsuppress, TypeInv, In!TypeOK
<1>4. consents' \in Seq([customer : Customers, granted : BOOLEAN, text : Texts])
  BY <1>1, <1>2 DEF In!ApplyKeyword, TypeInv, In!TypeOK
<1> QED
  BY <1>1, <1>3, <1>4 DEF In!ApplyKeyword, TypeInv, In!TypeOK

LEMMA TypeStep ==
  ASSUME TypeInv, NEW t \in tasks, In!TaskStep(t)
  PROVE  TypeInv'
<1> USE DEF In!records, In!inbox, In!opinion
<1>0. /\ In!TypeOK /\ CustomerIsKnown
      /\ tasks \subseteq In!Task /\ t \in In!Task /\ t.text \in Texts
      /\ t.customer \in Customers \cup {Nobody}
  BY DEF TypeInv, In!TypeOK, In!Task
<1>1. tasks' \subseteq In!Task /\ CustomerIsKnown'
  <2>1. CASE In!StoreEvent(t)
    BY <1>0, <2>1, CallbackMoves DEF In!StoreEvent
  <2>2. CASE In!LookForDuplicate(t)
    BY <1>0, <2>2, CallbackMoves DEF In!LookForDuplicate
  <2>3. CASE In!MatchCustomer(t)
    BY <2>3, MatchMoves
  <2>4. CASE In!HoldMessage(t)
    BY <1>0, <2>4, CallbackMoves DEF In!HoldMessage
  <2>5. CASE In!AttachMessage(t)
    BY <1>0, <2>5, CallbackMoves DEF In!AttachMessage, CustomerIsKnown
  <2>6. CASE In!ApplyKeyword(t)
    BY <1>0, <2>6, CallbackMoves DEF In!ApplyKeyword
  <2>7. CASE In!MarkProcessed(t)
    BY <1>0, <2>7, CallbackMoves DEF In!MarkProcessed
  <2>8. CASE In!StatementThrows(t)
    BY <1>0, <2>8, CallbackMoves DEF In!StatementThrows
  <2> QED
    BY <2>1, <2>2, <2>3, <2>4, <2>5, <2>6, <2>7, <2>8 DEF In!TaskStep
<1>2. In!TypeOK'
  <2>1. CASE In!StoreEvent(t)
    BY <1>0, <1>1, <2>1 DEF In!StoreEvent, In!TypeOK
  <2>2. CASE In!LookForDuplicate(t)
    BY <1>0, <1>1, <2>2 DEF In!LookForDuplicate, In!TypeOK
  <2>3. CASE In!MatchCustomer(t)
    BY <1>0, <1>1, <2>3 DEF In!MatchCustomer, In!TypeOK
  <2>4. CASE In!HoldMessage(t)
    BY <1>0, <1>1, <2>4 DEF In!HoldMessage, In!TypeOK
  <2>5. CASE In!AttachMessage(t)
    BY <1>0, <1>1, <2>5 DEF In!AttachMessage, In!TypeOK
  <2>6. CASE In!ApplyKeyword(t)
    <3>1. UNCHANGED <<phone, merged, asks, rewrites, wrote, hook, stored, held, deliveries, exits>>
      BY <2>6 DEF In!ApplyKeyword
    <3> QED
      BY <1>0, <1>1, <2>6, <3>1, KeywordTypes DEF In!TypeOK
  <2>7. CASE In!MarkProcessed(t)
    BY <1>0, <1>1, <2>7 DEF In!MarkProcessed, In!TypeOK
  <2>8. CASE In!StatementThrows(t)
    BY <1>0, <1>1, <2>8 DEF In!StatementThrows, In!TypeOK
  <2> QED
    BY <2>1, <2>2, <2>3, <2>4, <2>5, <2>6, <2>7, <2>8 DEF In!TaskStep
<1> QED
  BY <1>1, <1>2 DEF TypeInv

LEMMA TypeNext == TypeInv /\ [In!Next]_(In!vars) => TypeInv'
<1> USE DEF In!records, In!inbox, In!opinion
<1> SUFFICES ASSUME TypeInv, [In!Next]_(In!vars) PROVE TypeInv'
  OBVIOUS
<1>0. In!TypeOK /\ CustomerIsKnown
  BY DEF TypeInv
<1>1. ASSUME NEW e \in Texts, In!Says(e) PROVE TypeInv'
  BY <1>0, <1>1 DEF In!Says, TypeInv, In!TypeOK, CustomerIsKnown
<1>2. ASSUME NEW e \in Texts, In!Callback(e) PROVE TypeInv'
  <2> DEFINE t == [text |-> e, nth |-> deliveries[e], customer |-> Nobody, pc |-> "store"]
  <2>1. t \in In!Task /\ t.pc = "store"
    BY <1>0 DEF In!TypeOK, In!Task
  <2>2. tasks' = tasks \cup {t}
    BY <1>2 DEF In!Callback
  <2>3. tasks' \subseteq In!Task /\ CustomerIsKnown'
    <3> HIDE DEF t
    <3> QED
      BY <1>0, <2>1, <2>2 DEF In!TypeOK, CustomerIsKnown
  <2>4. deliveries' \in [Texts -> Nat]
    BY <1>0, <1>2, SMTT(30) DEF In!Callback, In!TypeOK
  <2>5. UNCHANGED <<phone, merged, asks, rewrites, wrote, hook, stored, held, consents,
                    suppressions, applied, exits>>
    BY <1>2 DEF In!Callback
  <2> HIDE DEF t
  <2> QED
    BY <1>0, <2>3, <2>4, <2>5 DEF TypeInv, In!TypeOK
<1>3. ASSUME NEW t \in tasks, In!TaskStep(t) PROVE TypeInv'
  BY <1>3, TypeStep
<1>4. ASSUME NEW c \in Customers, NEW p \in Phones \cup {NoPhone}, In!AskPhone(c, p) PROVE TypeInv'
  <2>1. [op |-> "phone", customer |-> c, to |-> p] \in In!Ask
    BY DEF In!Ask
  <2> QED
    BY <1>0, <1>4, <2>1 DEF In!AskPhone, In!Asks, TypeInv, In!TypeOK, CustomerIsKnown
<1>5. ASSUME NEW s \in Customers, NEW l \in Customers, In!AskMerge(s, l) PROVE TypeInv'
  <2>1. [op |-> "merge", customer |-> l, to |-> s] \in In!Ask
    BY DEF In!Ask
  <2> QED
    BY <1>0, <1>5, <2>1 DEF In!AskMerge, In!Asks, TypeInv, In!TypeOK, CustomerIsKnown
<1>6. ASSUME NEW a \in asks, In!ChangePhone(a) PROVE TypeInv'
  <2>1. a.customer \in Customers /\ a.to \in Phones \cup {NoPhone}
    BY <1>0, <1>6 DEF In!ChangePhone, In!TypeOK, In!Ask
  <2> QED
    BY <1>0, <1>6, <2>1 DEF In!ChangePhone, TypeInv, In!TypeOK, CustomerIsKnown
<1>7. ASSUME NEW a \in asks, In!Merge(a) PROVE TypeInv'
  <2>1. a.customer \in Customers /\ a.to \in Customers
    BY <1>0, <1>7 DEF In!Merge, In!TypeOK, In!Ask
  <2>2. suppressions' \subseteq [customer : Customers, address : Phones]
    BY <1>0, <1>7, <2>1, ZenonT(40) DEF In!Merge, In!TypeOK
  <2>3. merged' \in [Customers -> Customers \cup {Nobody}]
    BY <1>0, <1>7, <2>1 DEF In!Merge, In!Repointed, In!TypeOK
  <2>4. phone' \in [Customers -> Phones \cup {NoPhone}]
    BY <1>0, <1>7, <2>1 DEF In!Merge, In!TypeOK
  <2> QED
    BY <1>0, <1>7, <2>2, <2>3, <2>4 DEF In!Merge, TypeInv, In!TypeOK, CustomerIsKnown
<1>8. CASE In!Crash
  BY <1>0, <1>8 DEF In!Crash, TypeInv, In!TypeOK, CustomerIsKnown
<1>9. CASE UNCHANGED (In!vars)
  BY <1>0, <1>9 DEF In!vars, TypeInv, In!TypeOK, CustomerIsKnown
<1> QED
  BY <1>1, <1>2, <1>3, <1>4, <1>5, <1>6, <1>7, <1>8, <1>9 DEF In!Next

(* The tables and what the process holds of them are what the schema and   *)
(* the handlers say: rows of known records, suppressions of the number     *)
(* that wrote, callbacks at one of their steps.                            *)
THEOREM TextsComeInTyped ==
  ASSUME In!InboundAssumption
  PROVE  In!Spec => []In!TypeOK
<1>1. In!Init => TypeInv
  BY ConsentAssumption DEF In!InboundAssumption, In!Init, TypeInv, In!TypeOK,
    CustomerIsKnown
<1>2. TypeInv /\ [In!Next]_(In!vars) => TypeInv'
  BY TypeNext
<1> QED
  BY <1>1, <1>2, PTL DEF In!Spec, TypeInv

-----------------------------------------------------------------------------
(* Merges.                                                                 *)

(* A request that is about to merge read two records in use, which nobody  *)
(* has merged since: staff's requests are served one at a time.            *)
AskedAlone == \A a, b \in asks : a = b

MergesStand ==
  \A a \in asks : a.op = "merge" =>
    /\ a.customer # a.to
    /\ merged[a.customer] = Nobody /\ merged[a.to] = Nobody

(* A consent row says what its keyword says.                               *)
RowsSayTheirWord ==
  \A i \in 1..Len(consents) : consents[i].granted <=> consents[i].text \in StartTexts

StopInv ==
  /\ TypeInv /\ IsFiniteSet(asks)
  /\ AskedAlone /\ MergesStand /\ In!MergesAreFlat /\ RowsSayTheirWord

LEMMA TextsCount ==
  ASSUME NEW S PROVE In!Cardinality(S) = Cardinality(S)
BY DEF In!Cardinality, Cardinality

(* A request comes in only when there is none, if one at a time is served. *)
LEMMA NobodyAsked ==
  ASSUME In!InboundAssumption, StaffAtOnce <= 1, IsFiniteSet(asks),
         Cardinality(asks) < StaffAtOnce
  PROVE  asks = {}
<1>1. StaffAtOnce \in Nat /\ Cardinality(asks) \in Nat
  BY FS_CardinalityType DEF In!InboundAssumption
<1>2. Cardinality(asks) = 0
  BY <1>1
<1> QED
  BY <1>2, FS_EmptySet

(* A merge of two records in use leaves no chain: what pointed at the one  *)
(* that goes now points at the one that stays.                             *)
LEMMA MergeKeepsFlat ==
  ASSUME In!TypeOK, In!MergesAreFlat, NEW a \in asks, In!Merge(a),
         a.customer # a.to, merged[a.customer] = Nobody, merged[a.to] = Nobody
  PROVE  In!MergesAreFlat'
<1>1. a.customer \in Customers /\ a.to \in Customers /\ Nobody \notin Customers
  BY ConsentAssumption DEF In!TypeOK, In!Ask, In!Merge
<1>2. \A c \in Customers :
        merged'[c] = IF c = a.customer \/ merged[c] = a.customer THEN a.to ELSE merged[c]
  BY <1>1 DEF In!Merge, In!Repointed, In!TypeOK
<1>3. merged \in [Customers -> Customers \cup {Nobody}]
  BY DEF In!TypeOK
<1>4. merged'[a.to] = Nobody
  BY <1>1, <1>2
<1>5. ASSUME NEW c \in Customers, merged'[c] # Nobody PROVE merged'[merged'[c]] = Nobody
  <2>1. CASE c = a.customer \/ merged[c] = a.customer
    BY <1>2, <1>4, <2>1
  <2>2. CASE ~(c = a.customer \/ merged[c] = a.customer)
    <3>1. merged'[c] = merged[c] /\ merged[c] \in Customers /\ merged[merged[c]] = Nobody
      BY <1>2, <1>3, <1>5, <2>2 DEF In!MergesAreFlat
    <3> QED
      BY <1>1, <1>2, <2>2, <3>1
  <2> QED
    BY <2>1, <2>2
<1> QED
  BY <1>5 DEF In!MergesAreFlat

(* Where no merge leads anywhere but to a record in use, a record folded   *)
(* into one that is in use is that record or points at it.                 *)
LEMMA FoldedAtMostOnce ==
  ASSUME In!TypeOK, In!MergesAreFlat, NEW c \in Customers, NEW r \in Customers
  PROVE  (In!CountsFor(r, c) => In!FoldedInto(r, c))
         /\ (In!FoldedInto(r, c) /\ merged[c] = Nobody => In!CountsFor(r, c))
<1>1. Nobody \notin Customers /\ merged \in [Customers -> Customers \cup {Nobody}]
  BY ConsentAssumption DEF In!TypeOK
<1>2. ASSUME In!CountsFor(r, c) PROVE In!FoldedInto(r, c)
  BY <1>1, <1>2 DEF In!CountsFor, In!FoldedInto
<1>3. ASSUME In!FoldedInto(r, c), merged[c] = Nobody PROVE In!CountsFor(r, c)
  <2> DEFINE S == {r} \cup {x \in Customers : merged[r] = x}
  <2>1. S \in SUBSET Customers /\ r \in S
    OBVIOUS
  <2>2. \A x \in S : merged[x] # Nobody => merged[x] \in S
    BY <1>1 DEF In!MergesAreFlat
  <2>3. c \in S
    BY <1>3, <2>1, <2>2 DEF In!FoldedInto
  <2> QED
    BY <2>3 DEF In!CountsFor
<1> QED
  BY <1>2, <1>3

(* So the gate, which looks one step back, sees every keyword there is.    *)
LEMMA GateSeesThem ==
  ASSUME In!TypeOK, In!MergesAreFlat, RowsSayTheirWord
  PROVE  In!StopFollowsTheClient
<1> SUFFICES ASSUME NEW c \in Customers, NEW i \in 1..Len(consents),
                    consents[i].text \in StopTexts,
                    In!FoldedInto(consents[i].customer, c),
                    \A k \in (i + 1)..Len(consents) : ~In!FoldedInto(consents[k].customer, c),
                    merged[c] = Nobody
             PROVE  ~In!Consented(c)
  BY DEF In!StopFollowsTheClient, In!MayText
<1>1. /\ Len(consents) \in Nat /\ i \in Nat
      /\ \A k \in 1..Len(consents) : consents[k].customer \in Customers
  <2>1. consents \in Seq([customer : Customers, granted : BOOLEAN, text : Texts])
    BY DEF In!TypeOK
  <2>2. Len(consents) \in Nat
    BY <2>1
  <2>3. ASSUME NEW k \in 1..Len(consents) PROVE consents[k].customer \in Customers
    <3>1. consents[k] \in [customer : Customers, granted : BOOLEAN, text : Texts]
      BY <2>1, ElementOfSeq
    <3> QED
      BY <3>1
  <2> QED
    BY <2>2, <2>3
<1>2. In!CountsFor(consents[i].customer, c)
  BY <1>1, FoldedAtMostOnce
<1>3. ASSUME NEW k \in 1..Len(consents), In!CountsFor(consents[k].customer, c) PROVE k <= i
  <2>1. In!FoldedInto(consents[k].customer, c)
    BY <1>1, <1>3, FoldedAtMostOnce
  <2>2. k \notin (i + 1)..Len(consents)
    BY <2>1
  <2> QED
    BY <1>1, <2>2
<1>4. ~consents[i].granted
  BY ConsentAssumption DEF RowsSayTheirWord
<1> QED
  BY <1>2, <1>3, <1>4 DEF In!Consented

(* A row is written with every keyword, and says what it says.             *)
LEMMA RowsStep ==
  ASSUME TypeInv, RowsSayTheirWord, NEW t \in tasks, In!TaskStep(t)
  PROVE  RowsSayTheirWord'
<1> USE DEF In!opinion
<1>1. CASE In!ApplyKeyword(t)
  <2> DEFINE noted == [customer |-> t.customer, granted |-> t.text \in StartTexts,
                     text |-> t.text]
  <2>1. consents' = Append(consents, noted)
    BY <1>1 DEF In!ApplyKeyword
  <2>2. noted.granted <=> noted.text \in StartTexts
    OBVIOUS
  <2>3. /\ consents \in Seq([customer : Customers, granted : BOOLEAN, text : Texts])
        /\ Len(consents) \in Nat
    BY DEF TypeInv, In!TypeOK
  <2>4. /\ Len(consents') = Len(consents) + 1
        /\ \A k \in 1..Len(consents) : consents'[k] = consents[k]
        /\ consents'[Len(consents) + 1] = noted
    <3> HIDE DEF noted
    <3> QED
      BY <2>1, <2>3
  <2>5. ASSUME NEW k \in 1..Len(consents')
        PROVE  consents'[k].granted <=> consents'[k].text \in StartTexts
    <3>1. k \in 1..Len(consents) \/ k = Len(consents) + 1
      BY <2>3, <2>4, <2>5
    <3> HIDE DEF noted
    <3>2. CASE k \in 1..Len(consents)
      BY <2>4, <3>2, Zenon DEF RowsSayTheirWord
    <3>3. CASE k = Len(consents) + 1
      BY <2>2, <2>4, <3>3, Zenon
    <3> QED
      BY <3>1, <3>2, <3>3
  <2> QED
    BY <2>5 DEF RowsSayTheirWord
<1>2. CASE UNCHANGED consents
  BY <1>2 DEF RowsSayTheirWord
<1> QED
  BY <1>1, <1>2 DEF In!TaskStep, In!StoreEvent, In!LookForDuplicate, In!MatchCustomer,
    In!HoldMessage,
     In!AttachMessage, In!MarkProcessed, In!StatementThrows

(* Inbound sees the records as whoever reads the gate does.                *)
LEMMA OneGate == In!StopOutlivesMerges => StopOutlivesMerges
BY DEF In!StopOutlivesMerges, StopOutlivesMerges, In!StopFollowsTheClient,
  StopFollowsTheClient,
   In!MergesAreFlat, MergesAreFlat, In!FoldedInto, FoldedInto, In!MayText, MayText,
   In!Suppressed, Suppressed, In!Consented, Consented, In!CountsFor, CountsFor

LEMMA StopNext ==
  ASSUME In!InboundAssumption, StaffAtOnce <= 1, StopInv, [In!Next]_(In!vars)
  PROVE  StopInv'
<1> USE DEF In!records, In!inbox, In!opinion
<1>0. /\ In!TypeOK /\ IsFiniteSet(asks) /\ AskedAlone /\ MergesStand /\ In!MergesAreFlat
      /\ RowsSayTheirWord /\ TypeInv
  BY DEF StopInv, TypeInv
<1>1. TypeInv'
  BY <1>0, TypeNext
<1>2. ASSUME UNCHANGED <<merged, asks, consents>> PROVE StopInv'
  BY <1>0, <1>1, <1>2
     DEF StopInv, AskedAlone, MergesStand, In!MergesAreFlat, RowsSayTheirWord
<1>3. ASSUME NEW t \in tasks, In!TaskStep(t) PROVE StopInv'
  <2>1. UNCHANGED <<merged, asks>>
    BY <1>3 DEF In!TaskStep, In!StoreEvent, In!LookForDuplicate, In!MatchCustomer,
      In!HoldMessage,
       In!AttachMessage, In!ApplyKeyword, In!MarkProcessed, In!StatementThrows
  <2>2. RowsSayTheirWord'
    BY <1>0, <1>3, RowsStep
  <2> QED
    BY <1>0, <1>1, <2>1, <2>2 DEF StopInv, AskedAlone, MergesStand, In!MergesAreFlat
<1>4. ASSUME NEW c \in Customers, NEW to,
             NEW op \in {"phone", "merge"}, In!Asks(op, c, to),
             op = "merge" => c # to /\ merged[c] = Nobody /\ merged[to] = Nobody
      PROVE  StopInv'
  <2> DEFINE a == [op |-> op, customer |-> c, to |-> to]
  <2>1. asks = {} /\ asks' = {a} /\ UNCHANGED <<merged, consents>>
    <3>1. asks = {}
      BY <1>0, <1>4, NobodyAsked, TextsCount DEF In!Asks
    <3> QED
      BY <1>4, <3>1 DEF In!Asks
  <2>2. a.op = op /\ a.customer = c /\ a.to = to
    OBVIOUS
  <2>3. IsFiniteSet(asks')
    BY <2>1, FS_Singleton
  <2>4. AskedAlone'
    BY <2>1 DEF AskedAlone
  <2>5. MergesStand'
    BY <1>4, <2>1, <2>2 DEF MergesStand
  <2> QED
    BY <1>0, <1>1, <2>1, <2>3, <2>4, <2>5 DEF StopInv, In!MergesAreFlat,
      RowsSayTheirWord
<1>5. ASSUME NEW a \in asks, In!ChangePhone(a) \/ In!Merge(a) PROVE StopInv'
  <2>1. asks' = {} /\ UNCHANGED consents
    BY <1>0, <1>5 DEF In!ChangePhone, In!Merge, AskedAlone
  <2>2. In!MergesAreFlat'
    <3>1. CASE In!ChangePhone(a)
      BY <1>0, <3>1 DEF In!ChangePhone, In!MergesAreFlat
    <3>2. CASE In!Merge(a)
      <4>1. a.customer # a.to /\ merged[a.customer] = Nobody /\ merged[a.to] = Nobody
        BY <1>0, <3>2 DEF In!Merge, MergesStand
      <4> QED
        BY <1>0, <3>2, <4>1, MergeKeepsFlat
    <3> QED
      BY <1>5, <3>1, <3>2
  <2>3. IsFiniteSet(asks')
    BY <2>1, FS_EmptySet
  <2> QED
    BY <1>0, <1>1, <2>1, <2>2, <2>3 DEF StopInv, AskedAlone, MergesStand,
      RowsSayTheirWord
<1>6. CASE In!Crash
  <2>1. asks' = {} /\ UNCHANGED <<merged, consents>>
    BY <1>6 DEF In!Crash
  <2>2. IsFiniteSet(asks')
    BY <2>1, FS_EmptySet
  <2> QED
    BY <1>0, <1>1, <2>1, <2>2
       DEF StopInv, AskedAlone, MergesStand, In!MergesAreFlat, RowsSayTheirWord
<1>7. ASSUME NEW e \in Texts, In!Says(e) \/ In!Callback(e) PROVE StopInv'
  BY <1>2, <1>7 DEF In!Says, In!Callback
<1>8. CASE UNCHANGED (In!vars)
  BY <1>2, <1>8 DEF In!vars
<1>9. ASSUME NEW c \in Customers, NEW p \in Phones \cup {NoPhone}, In!AskPhone(c, p)
      PROVE  StopInv'
  BY <1>4, <1>9 DEF In!AskPhone
<1>10. ASSUME NEW s \in Customers, NEW l \in Customers, In!AskMerge(s, l) PROVE StopInv'
  BY <1>4, <1>10 DEF In!AskMerge
<1> QED
  BY <1>3, <1>5, <1>6, <1>7, <1>8, <1>9, <1>10 DEF In!Next

(* As long as staff's requests do not overlap (two that do can leave a     *)
(* chain), a merge leaves no record pointing at one that is itself merged, *)
(* so that the gate, which reads the consents of a record and of those     *)
(* that point at it, never texts a client whose last word, on whichever    *)
(* of his records, was STOP.                                               *)
THEOREM AStopFollowsItsClient ==
  ASSUME In!InboundAssumption, StaffAtOnce <= 1
  PROVE  In!Spec => []StopOutlivesMerges
<1>1. In!Init => StopInv
  <2>1. In!Init => TypeInv
    BY ConsentAssumption DEF In!InboundAssumption, In!Init, TypeInv, In!TypeOK,
      CustomerIsKnown
  <2>2. IsFiniteSet({})
    BY FS_EmptySet
  <2> QED
    BY <2>1, <2>2
       DEF In!Init, StopInv, AskedAlone, MergesStand, In!MergesAreFlat, RowsSayTheirWord
<1>2. StopInv /\ [In!Next]_(In!vars) => StopInv'
  BY StopNext
<1>3. StopInv => In!StopOutlivesMerges
  BY GateSeesThem DEF StopInv, TypeInv, In!StopOutlivesMerges
<1>4. In!StopOutlivesMerges => StopOutlivesMerges
  BY OneGate
<1> QED
  BY <1>1, <1>2, <1>3, <1>4, PTL DEF In!Spec
=============================================================================
