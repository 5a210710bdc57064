------------------------------- MODULE Tasks -------------------------------
(***************************************************************************)
(* Tasks, their schedule and the reminder before one starts:               *)
(* src/services/tasks.ts and src/domain/tasks.ts.                          *)
(*                                                                         *)
(* An edit reads the task, judges it and computes the whole schedule       *)
(* before its transaction; the transaction writes the task, recomputes the *)
(* file's next_task_at from a snapshot taken when that statement starts,   *)
(* and commits.  The reminder job reads what is due, then marks and tells  *)
(* one task after the other.                                               *)
(*                                                                         *)
(* Times are whole units: a day has the hours of Hours.  One file; every   *)
(* task is on it.                                                          *)
(***************************************************************************)
EXTENDS Integers, FiniteSets, FiniteSetsExt

CONSTANTS
  TaskIds,
  Staff,
  TaskWorkers,   \* bound: requests at the same time
  Tickers,       \* bound: runs of the reminder job at the same time (a lease may be overrun)
  Calendar,      \* bound: the days a task can be due on
  Horizon,       \* bound: the last instant of the clock
  Grace,         \* REMINDER_GRACE_MINUTES
  Leads,         \* bound: how long before the start a reminder can be asked for
  Usual,         \* REMINDER_MINUTES
  MaxRequests,   \* bound: requests
  Nothing

Open == {"open", "waiting"}
Closed == {"completed", "cancelled"}
Hours == {0, 1}

(* The rows, and none of them is Nothing.                                  *)
Plan ==
  [day : Calendar \cup {Nothing}, hour : Hours \cup {Nothing}, at : Int \cup {Nothing},
   lead : Leads \cup {Nothing}, remind : Int \cup {Nothing}]
TaskRow ==
  [status : Open \cup Closed, owner : Staff \cup {Nothing}, sent : BOOLEAN, plan : Plan]

TasksAssumption ==
  /\ Calendar \subseteq Int /\ Horizon \in Nat /\ MaxRequests \in Nat
  /\ Leads \subseteq Int /\ Usual \in Leads
  /\ Nothing \notin TaskRow

VARIABLES
  task,       \* task[t]: the row, or Nothing
  nextTask,   \* applications.next_task_at
  request,    \* request[w]: the request under way
  tick,       \* tick[j]: the rows a run of the reminder job has still to treat
  now,
  requests,
  told,       \* ghost: told[t], reminders claimed since t was last scheduled
  rearmed,    \* ghost: rearmed[t], times a change of status cleared the mark since then
  asleep,     \* ghost: tasks last scheduled as closed ones
  unasked,    \* ghost: automation's tasks that no request has counted yet
  crossed     \* ghost: next_task_at was computed before another transaction committed

taskVars == <<task, nextTask, request, tick, now, requests, told, rearmed, asleep, unasked,
              crossed>>

Resting == [kind |-> "idle"]

-----------------------------------------------------------------------------
(* src/domain/tasks.ts.                                                    *)

Instant(day, hour) == IF day = Nothing \/ hour = Nothing THEN Nothing ELSE 2 * day + hour

ReminderInstant(at, lead, status) ==
  IF at = Nothing \/ lead = Nothing \/ status \notin Open THEN Nothing ELSE at - lead

(* scheduleRefusal: a time needs a date.                                   *)
Schedulable(day, hour) == hour # Nothing => day # Nothing

(* transitionRefusal: what is closed is reopened before it changes.        *)
Allowed(from, to) == from = to \/ from \in Open \/ to \in Open

PastGrace(remind) == now - remind > Grace

(* ownerFor: an admin's task goes to whoever holds the file.               *)
OwnerFor(actor, manageAll, holder) ==
  IF manageAll /\ holder # Nothing THEN holder ELSE actor

Schedule(day, hour, lead, status) ==
  LET at == Instant(day, hour)
      minutes == IF hour = Nothing THEN Nothing ELSE lead
  IN [day |-> day, hour |-> hour, at |-> at, lead |-> minutes,
      remind |-> ReminderInstant(at, minutes, status)]

-----------------------------------------------------------------------------
Init ==
  /\ task = [t \in TaskIds |-> Nothing]
  /\ nextTask = Nothing
  /\ request = [w \in TaskWorkers |-> Resting]
  /\ tick = [j \in Tickers |-> {}]
  /\ now = 0 /\ requests = 0
  /\ told = [t \in TaskIds |-> 0] /\ rearmed = [t \in TaskIds |-> 0]
  /\ asleep = {} /\ unasked = {} /\ crossed = FALSE

Free(w) == request[w] = Resting /\ requests < MaxRequests
Begin(w, r) == request' = [request EXCEPT ![w] = r] /\ requests' = requests + 1
End(w) == request' = [request EXCEPT ![w] = Resting]

(* The row t holds once w's update has run on it.                          *)
Written(w) ==
  LET r == request[w] IN
  IF r.op = "create" THEN r.row
  ELSE LET kept == [task[r.task] EXCEPT !.status = IF r.status = Nothing THEN @ ELSE r.status] IN
       IF r.rescheduled
         THEN [kept EXCEPT !.plan = r.plan, !.sent = FALSE]
         ELSE [kept EXCEPT !.sent = @ /\ r.status \notin Open]

(* What refreshNextTask counts: open tasks with a date.                    *)
Counts(row) == row # Nothing /\ row.status \in Open /\ row.plan.day # Nothing
Falls(plan) == IF plan.at # Nothing THEN plan.at ELSE 2 * plan.day

Earliest(rows) ==
  LET due == {Falls(rows[t].plan) : t \in {u \in TaskIds : Counts(rows[u])}} IN
  IF due = {} THEN Nothing ELSE Min(due)

-----------------------------------------------------------------------------
(* createTask: the holder of the file is read before the transaction.      *)
AskCreate(w, t, actor, manageAll, holder, day, hour, lead) ==
  /\ Free(w) /\ task[t] = Nothing
  /\ \A v \in TaskWorkers : request[v].kind # "idle" => request[v].task # t
  /\ Schedulable(day, hour)
  /\ Begin(w, [kind |-> "asked", op |-> "create", task |-> t, status |-> Nothing,
               rescheduled |-> TRUE, forOpen |-> TRUE, overtaken |-> FALSE, unseen |-> {},
               snapshot |-> Nothing,
               row |-> [status |-> "open", owner |-> OwnerFor(actor, manageAll, holder),
                        sent |-> FALSE, plan |-> Schedule(day, hour, lead, "open")]])
  /\ UNCHANGED <<task, nextTask, tick, now, told, rearmed, asleep, unasked, crossed>>

(* updateTask: a part of the schedule, a status, both in one request, or    *)
(* neither (a title).  The half that is not given is the one read here,    *)
(* and the reminder is for the status given, or else for the one read.     *)
AskUpdate(w, t, part, value, status) ==
  LET row == task[t]
      day == IF part = "day" THEN value ELSE row.plan.day
      hour == IF part = "hour" THEN value ELSE row.plan.hour
      lead == IF part = "lead" THEN value
              ELSE IF row.plan.lead = Nothing THEN Usual ELSE row.plan.lead
      meant == IF status = Nothing THEN row.status ELSE status
  IN /\ Free(w) /\ row # Nothing /\ Allowed(row.status, meant) /\ Schedulable(day, hour)
     /\ Begin(w, [kind |-> "asked", op |-> "update", task |-> t, status |-> status,
                  rescheduled |-> part # "none", forOpen |-> meant \in Open,
                  overtaken |-> FALSE, unseen |-> {}, snapshot |-> Nothing,
                  plan |-> IF part = "none" THEN Nothing
                           ELSE Schedule(day, hour, lead, meant)])
     /\ UNCHANGED <<task, nextTask, tick, now, told, rearmed, asleep, unasked, crossed>>

Writing(w) == request[w].kind = "written"

(* Fault: next_task_at looks at what is committed only.                    *)
RefreshBefore(w) == Earliest(task)

RefreshNextTask(w) == Earliest([task EXCEPT ![request[w].task] = Written(w)])

(* The transaction writes the row, which it holds until it commits, and    *)
(* next_task_at is computed from what is committed and its own write.      *)
Write(w) ==
  /\ request[w].kind = "asked"
  /\ \A v \in TaskWorkers : Writing(v) => request[v].task # request[w].task
  /\ request' = [request EXCEPT ![w].kind = "written", ![w].snapshot = RefreshNextTask(w)]
  /\ UNCHANGED <<task, nextTask, tick, now, requests, told, rearmed, asleep, unasked, crossed>>

(* Whoever has taken a snapshot and not committed has not seen this.       *)
OvertakenBy(w) ==
  [v \in TaskWorkers |-> IF v = w THEN Resting
                         ELSE IF Writing(v) THEN [request[v] EXCEPT !.overtaken = TRUE]
                         ELSE request[v]]

Commit(w) ==
  LET r == request[w]
      t == r.task
  IN /\ Writing(w)
     /\ task' = [task EXCEPT ![t] = Written(w)]
     /\ nextTask' = r.snapshot
     /\ unasked' = r.unseen
     /\ crossed' = r.overtaken
     /\ request' = OvertakenBy(w)
     /\ IF r.rescheduled
          THEN /\ told' = [told EXCEPT ![t] = 0] /\ rearmed' = [rearmed EXCEPT ![t] = 0]
               /\ asleep' = IF r.forOpen THEN asleep \ {t} ELSE asleep \cup {t}
          ELSE /\ rearmed' = [rearmed EXCEPT ![t] = @ + (IF r.status \in Open THEN 1 ELSE 0)]
               /\ UNCHANGED <<told, asleep>>
     /\ UNCHANGED <<tick, now, requests>>

(* An automation's create_task: a row with a day and no time, and for      *)
(* nobody when it finds nobody.  next_task_at is not computed again.       *)
Automate(t, owner, day) ==
  /\ requests < MaxRequests /\ requests' = requests + 1
  /\ task[t] = Nothing
  /\ \A v \in TaskWorkers : request[v].kind # "idle" => request[v].task # t
  /\ task' = [task EXCEPT ![t] =
       [status |-> "open", owner |-> owner, sent |-> FALSE,
        plan |-> Schedule(day, Nothing, Nothing, "open")]]
  /\ request' = [v \in TaskWorkers |->
       IF Writing(v) THEN [request[v] EXCEPT !.unseen = @ \cup {t}] ELSE request[v]]
  /\ unasked' = unasked \cup {t}
  /\ UNCHANGED <<nextTask, tick, now, told, rearmed, asleep, crossed>>

(* The account that holds the task is closed and its work handed over.     *)
HandOver(from, to) ==
  LET moving == {t \in TaskIds : task[t] # Nothing /\ task[t].owner = from
          /\ task[t].status \in Open} IN
  /\ requests < MaxRequests /\ requests' = requests + 1
  /\ from # to /\ moving # {}
  /\ \A w \in TaskWorkers : ~Writing(w)
  /\ task' = [t \in TaskIds |-> IF t \in moving THEN [task[t] EXCEPT !.owner = to] ELSE task[t]]
  /\ UNCHANGED <<nextTask, request, tick, now, told, rearmed, asleep, unasked, crossed>>

-----------------------------------------------------------------------------
(* The reminder job.                                                       *)

Due(t) ==
  /\ task[t] # Nothing /\ task[t].status \in Open /\ ~task[t].sent
  /\ task[t].plan.remind # Nothing /\ task[t].plan.at # Nothing /\ task[t].plan.remind <= now

(* runTaskReminders: the select; each row is judged by the time it began.  *)
Select(j) ==
  /\ tick[j] = {}
  /\ \E t \in TaskIds : Due(t)
  /\ tick' = [tick EXCEPT ![j] =
       {[task |-> t, late |-> PastGrace(task[t].plan.remind)] : t \in {u \in TaskIds : Due(u)}}]
  /\ UNCHANGED <<task, nextTask, request, now, requests, told, rearmed, asleep, unasked, crossed>>

Held(t) == \E w \in TaskWorkers : Writing(w) /\ request[w].task = t
Mark(t) == task' = [task EXCEPT ![t].sent = TRUE]
Treated(j, x) == tick' = [tick EXCEPT ![j] = @ \ {x}]

(* Past its grace: marked without looking again, and not sent.             *)
Drop(j, x) ==
  /\ x \in tick[j] /\ x.late /\ ~Held(x.task)
  /\ Mark(x.task) /\ Treated(j, x)
  /\ UNCHANGED <<nextTask, request, now, requests, told, rearmed, asleep, unasked, crossed>>

Unmarked(t) == ~task[t].sent

(* The mark is written before anything is sent, and looks neither at the   *)
(* status nor at the time again.  What follows is attempted once.          *)
Claim(j, x) ==
  /\ x \in tick[j] /\ ~x.late /\ ~Held(x.task)
  /\ Treated(j, x)
  /\ IF Unmarked(x.task)
       THEN Mark(x.task) /\ told' = [told EXCEPT ![x.task] = @ + 1]
       ELSE UNCHANGED <<task, told>>
  /\ UNCHANGED <<nextTask, request, now, requests, rearmed, asleep, unasked, crossed>>

(* The process ends; what was not committed is rolled back.                *)
Exit ==
  /\ \/ \E w \in TaskWorkers : request[w] # Resting
     \/ \E j \in Tickers : tick[j] # {}
  /\ request' = [w \in TaskWorkers |-> Resting]
  /\ tick' = [j \in Tickers |-> {}]
  /\ UNCHANGED <<task, nextTask, now, requests, told, rearmed, asleep, unasked, crossed>>

Clock == now < Horizon /\ now' = now + 1
         /\ UNCHANGED <<task, nextTask, request, tick, requests, told, rearmed, asleep, unasked,
                        crossed>>

Asks(w) ==
  /\ Free(w)
  /\ \E t \in TaskIds :
       \/ \E actor \in Staff, manageAll \in BOOLEAN, holder \in Staff \cup {Nothing},
             day \in Calendar \cup {Nothing}, hour \in Hours \cup {Nothing}, lead \in Leads
                 \cup {Nothing} :
            AskCreate(w, t, actor, manageAll, holder, day, hour, lead)
       \/ \E status \in Open \cup Closed \cup {Nothing} :
            \/ AskUpdate(w, t, "none", Nothing, status)
            \/ \E day \in Calendar \cup {Nothing} : AskUpdate(w, t, "day", day, status)
            \/ \E hour \in Hours \cup {Nothing} : AskUpdate(w, t, "hour", hour, status)
            \/ \E lead \in Leads \cup {Nothing} : AskUpdate(w, t, "lead", lead, status)

Next ==
  \/ \E w \in TaskWorkers : Asks(w) \/ Write(w) \/ Commit(w)
  \/ \E t \in TaskIds, owner \in Staff \cup {Nothing}, day \in Calendar \cup {Nothing} :
       Automate(t, owner, day)
  \/ \E from, to \in Staff : HandOver(from, to)
  \/ \E j \in Tickers : Select(j) \/ \E x \in tick[j] : Drop(j, x) \/ Claim(j, x)
  \/ Exit
  \/ Clock

Spec == Init /\ [][Next]_taskVars

-----------------------------------------------------------------------------
(* Properties.                                                             *)

(* Rows, requests and counters are what the code can hold, and a row's     *)
(* instant is always the one its date and time say, whatever edits         *)
(* overlapped: the pair and what follows from it are written together.     *)
TypeOK ==
  /\ task \in [TaskIds -> TaskRow \cup {Nothing}]
  /\ \A t \in TaskIds : task[t] # Nothing =>
       /\ task[t].plan.at = Instant(task[t].plan.day, task[t].plan.hour)
       /\ task[t].plan.remind \in {Nothing, ReminderInstant(task[t].plan.at, task[t].plan.lead,
              "open")}
  /\ \A w \in TaskWorkers : request[w].kind \in {"idle", "asked", "written"}
  /\ now \in 0..Horizon /\ requests \in 0..MaxRequests

(* A task's owner is reminded at most once of each time it is set for, and *)
(* once more for each change of status that cleared the mark, whatever     *)
(* runs of the job overlap and whenever the process ends.                  *)
RemindedOncePerSetting == \A t \in TaskIds : told[t] <= 1 + rearmed[t]

(* An open task with a time and a reminder carries the instant to remind   *)
(* at, through edits that overlap, completions and reopenings; but for a   *)
(* task last rescheduled as a closed one, by somebody who had read it as   *)
(* closed or who closed it in the same request.                            *)
ReminderStands ==
  \A t \in TaskIds : task[t] # Nothing /\ task[t].status \in Open /\ t \notin asleep =>
    task[t].plan.remind = ReminderInstant(task[t].plan.at, task[t].plan.lead, "open")

(* The file's next task is the earliest open one, unless two transactions  *)
(* on its tasks overlapped; tasks an automation made are not looked at     *)
(* before the next request on the file.                                    *)
NextTaskAgrees ==
  crossed \/ nextTask = Earliest([t \in TaskIds |-> IF t \in unasked THEN Nothing ELSE task[t]])

-----------------------------------------------------------------------------
(* What the comments say and the code does not do.                         *)

(* domain/tasks.ts:17, "A REMINDER IS SENT ONCE, for the time the task is  *)
(* currently set for": a change of status between two open states clears   *)
(* the mark and it is sent again.                                          *)
RemindedOnce == \A t \in TaskIds : told[t] <= 1

(* domain/tasks.ts:250, "A finished task is not rescheduled or re-finished;*)
(* it is reopened first": only the status is judged, so a finished task is *)
(* rescheduled, and once it is reopened it has no reminder any more.       *)
FinishedIsNotRescheduled ==
  [][\A t \in TaskIds : task[t] # Nothing /\ task[t].status \in Closed /\ task'[t].status \in Closed
       => task'[t].plan = task[t].plan]_taskVars

(* services/tasks.ts:632, "A task moved to a new time is reminded about    *)
(* again": a run of the reminder job that had read it for its old time     *)
(* marks it as past its grace without looking again.                       *)
MovedIsRemindedAgain ==
  [][\A j \in Tickers : \A x \in tick[j] : Drop(j, x) =>
       LET at == task[x.task].plan.remind IN at = Nothing \/ PastGrace(at)]_taskVars

(* services/tasks.ts:12-14, every change recomputes the file's             *)
(* next_task_at "by the same statement that changed the task": an          *)
(* automation's task is inserted and nothing is recomputed.                *)
EveryChangeRefreshes == crossed \/ nextTask = Earliest(task)
=============================================================================
