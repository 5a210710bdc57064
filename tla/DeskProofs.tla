------------------------------ MODULE DeskProofs ------------------------------
(***************************************************************************)
(* Proofs about what staff have before them, the stories of MCDesk: Tasks  *)
(* for any tasks, calendar and number of requests and runs at once, and    *)
(* Chats (Talk) for any people, messages, pictures and number of requests. *)
(***************************************************************************)
EXTENDS MCDesk, FiniteSetTheorems, TLAPS

(* A plan is what its date, time and lead say, but that its reminder may   *)
(* have been left out; a plan that is awake has it.                        *)
Said(p) ==
  /\ p \in Plan
  /\ p.at = Instant(p.day, p.hour)
  /\ p.remind \in {Nothing, ReminderInstant(p.at, p.lead, "open")}
Awake(p) == p.remind = ReminderInstant(p.at, p.lead, "open")

Tables == [TaskIds -> TaskRow \cup {Nothing}]
Firsts == {Earliest(rows) : rows \in Tables} \cup {Nothing}

(* The file's tasks without those out, which nobody has counted yet.       *)
Seen(rows, out) == [t \in TaskIds |-> IF t \in out THEN Nothing ELSE rows[t]]

CreateOp ==
  [kind : {"asked", "written"}, op : {"create"}, task : TaskIds, status : {Nothing},
   rescheduled : {TRUE}, forOpen : {TRUE}, overtaken : BOOLEAN, unseen : SUBSET TaskIds,
   snapshot : Firsts, row : TaskRow]
MoveOp ==
  [kind : {"asked", "written"}, op : {"update"}, task : TaskIds,
   status : Open \cup Closed \cup {Nothing}, rescheduled : {TRUE}, forOpen : BOOLEAN,
   overtaken : BOOLEAN, unseen : SUBSET TaskIds, snapshot : Firsts, plan : Plan]
StatusOp ==
  [kind : {"asked", "written"}, op : {"update"}, task : TaskIds,
   status : Open \cup Closed \cup {Nothing}, rescheduled : {FALSE}, forOpen : BOOLEAN,
   overtaken : BOOLEAN, unseen : SUBSET TaskIds, snapshot : Firsts, plan : {Nothing}]
TaskOp == CreateOp \cup MoveOp \cup StatusOp

(* A request that writes or is about to: a new task is its own until it is *)
(* committed, a changed one is there, and what was inserted before the     *)
(* snapshot is in it.                                                      *)
TaskStands(r) ==
  /\ r.op = "create" => r.row.sent = FALSE /\ Said(r.row.plan) /\ Awake(r.row.plan)
  /\ r \in MoveOp => Said(r.plan) /\ (r.forOpen => Awake(r.plan))
  /\ r.op = "update" => task[r.task] # Nothing
  /\ r.kind = "asked" => r.unseen = {}

TaskTypes ==
  /\ task \in Tables
  /\ request \in [TaskWorkers -> TaskOp \cup {Resting}]
  /\ told \in [TaskIds -> Nat] /\ rearmed \in [TaskIds -> Nat]
  /\ now \in 0..Horizon /\ requests \in 0..MaxRequests
  /\ tick \in [Tickers -> SUBSET [task : TaskIds, late : BOOLEAN]]

(* A task told of more often than its mark was cleared carries the mark.   *)
TaskRows ==
  \A t \in TaskIds :
    /\ told[t] <= rearmed[t] + (IF task[t] # Nothing /\ task[t].sent THEN 1 ELSE 0)
    /\ task[t] # Nothing => Said(task[t].plan) /\ (t \notin asleep => Awake(task[t].plan))

TaskRequests ==
  /\ \A w \in TaskWorkers : request[w].kind # "idle" => TaskStands(request[w])
  /\ \A w, v \in TaskWorkers :
       /\ w # v /\ request[w].kind # "idle" /\ request[v].kind # "idle" /\ request[w].op = "create"
            => request[v].task # request[w].task
       /\ w # v /\ Writing(w) /\ Writing(v) => request[v].task # request[w].task

(* A task that is being created is not there yet.                          *)
TaskNew ==
  \A w \in TaskWorkers : request[w].kind # "idle" /\ request[w].op = "create" =>
    task[request[w].task] = Nothing

(* Who has written and was not overtaken has seen what its commit leaves.  *)
Leaving(w) == [task EXCEPT ![request[w].task] = Written(w)]
Shown(w) == request[w].snapshot = Earliest(Seen(Leaving(w), request[w].unseen))
TaskSnapshots == \A w \in TaskWorkers : Writing(w) /\ ~request[w].overtaken => Shown(w)

TaskTicks == \A j \in Tickers : \A x \in tick[j] : task[x.task] # Nothing

TaskInv ==
  TaskTypes /\ TaskRows /\ TaskRequests /\ TaskNew /\ TaskSnapshots /\ TaskTicks /\ NextTaskAgrees

LEMMA TaskAtInit == ASSUME TasksAssumption, Init PROVE TaskInv
<1>1. TaskTypes
  BY DEF TasksAssumption, Init, TaskTypes, Tables
<1>2. TaskRows /\ TaskRequests /\ TaskNew /\ TaskSnapshots /\ TaskTicks
  BY DEF Init, TaskRows, TaskRequests, TaskNew, TaskSnapshots, TaskTicks, Resting,
    Writing
<1>3. \A t \in TaskIds : ~Counts(task[t])
  BY DEF Init, Counts
<1>4. \A t \in TaskIds : ~Counts(Seen(task, unasked)[t])
  BY <1>3 DEF Seen, Counts
<1>5. {t \in TaskIds : Counts(Seen(task, unasked)[t])} = {}
  BY <1>4
<1>6. Earliest(Seen(task, unasked)) = Nothing
  BY <1>5 DEF Earliest
<1> QED
  BY <1>1, <1>2, <1>6 DEF TaskInv, NextTaskAgrees, Init, Seen

(* What the file shows depends on status and plan alone.                   *)
LEMMA EarliestOf ==
  ASSUME NEW a \in Tables, NEW b \in Tables,
         \A t \in TaskIds : Counts(a[t]) <=> Counts(b[t]),
         \A t \in TaskIds : Counts(a[t]) => a[t].plan = b[t].plan
  PROVE  Earliest(a) = Earliest(b)
<1> DEFINE A == {Falls(a[t].plan) : t \in {u \in TaskIds : Counts(a[u])}}
           B == {Falls(b[t].plan) : t \in {u \in TaskIds : Counts(b[u])}}
<1>1. A = B
  OBVIOUS
<1> QED
  BY <1>1 DEF Earliest

LEMMA SeenOf ==
  ASSUME NEW a \in Tables, NEW b \in Tables, NEW out,
         \A t \in TaskIds : Counts(a[t]) <=> Counts(b[t]),
         \A t \in TaskIds : Counts(a[t]) => a[t].plan = b[t].plan
  PROVE  Earliest(Seen(a, out)) = Earliest(Seen(b, out))
<1>1. Seen(a, out) \in Tables /\ Seen(b, out) \in Tables
  BY DEF Seen, Tables
<1>2. /\ \A t \in TaskIds : Seen(a, out)[t] = IF t \in out THEN Nothing ELSE a[t]
      /\ \A t \in TaskIds : Seen(b, out)[t] = IF t \in out THEN Nothing ELSE b[t]
  BY DEF Seen
<1>3. \A t \in TaskIds : Counts(Seen(a, out)[t]) <=> Counts(Seen(b, out)[t])
  BY <1>2 DEF Counts
<1>4. \A t \in TaskIds : Counts(Seen(a, out)[t]) => Seen(a, out)[t].plan = Seen(b, out)[t].plan
  BY <1>2 DEF Counts
<1> QED
  BY <1>1, <1>3, <1>4, EarliestOf

(* A schedule that is computed says what it is for.                        *)
LEMMA ScheduleSays ==
  ASSUME TasksAssumption, NEW day \in Calendar \cup {Nothing}, NEW hour \in Hours \cup {Nothing},
         NEW lead \in Leads \cup {Nothing}, NEW status \in Open \cup Closed
  PROVE  /\ Said(Schedule(day, hour, lead, status))
         /\ status \in Open => Awake(Schedule(day, hour, lead, status))
<1> DEFINE p == Schedule(day, hour, lead, status)
<1>1. Instant(day, hour) \in Int \cup {Nothing}
  BY DEF Instant, TasksAssumption, Hours
<1>2. \A l \in Leads \cup {Nothing} : \A s \in Open \cup Closed :
        /\ ReminderInstant(Instant(day, hour), l, s) \in Int \cup {Nothing}
        /\ ReminderInstant(Instant(day, hour), l, s)
             \in {Nothing, ReminderInstant(Instant(day, hour), l, "open")}
        /\ s \in Open => ReminderInstant(Instant(day, hour), l, s)
                           = ReminderInstant(Instant(day, hour), l, "open")
  BY <1>1 DEF ReminderInstant, TasksAssumption, Open, Closed
<1>3. p.lead \in Leads \cup {Nothing} /\ p.at = Instant(day, hour) /\ p.day = day /\ p.hour = hour
      /\ p.remind = ReminderInstant(p.at, p.lead, status)
  BY DEF Schedule
<1>4. p \in Plan
  BY <1>1, <1>2 DEF Schedule, Plan
<1> QED
  BY <1>2, <1>3, <1>4 DEF Said, Awake

LEMMA TaskOf ==
  ASSUME TaskInv, NEW w \in TaskWorkers, request[w].kind # "idle"
  PROVE  /\ request[w] \in TaskOp /\ request[w].task \in TaskIds /\ TaskStands(request[w])
         /\ request[w] # Resting
<1>1. request[w] \in TaskOp \cup {Resting} /\ request[w] # Resting
  BY DEF TaskInv, TaskTypes, Resting
<1> QED
  BY <1>1 DEF TaskInv, TaskRequests, TaskOp, CreateOp, MoveOp, StatusOp

(* The row a request leaves, of the table and the request alone.           *)
Leaves(rows, r) ==
  IF r.op = "create" THEN r.row
  ELSE LET kept == [rows[r.task] EXCEPT !.status = IF r.status = Nothing THEN @ ELSE r.status] IN
       IF r.rescheduled
         THEN [kept EXCEPT !.plan = r.plan, !.sent = FALSE]
         ELSE [kept EXCEPT !.sent = @ /\ r.status \notin Open]

LEMMA WrittenLeaves ==
  ASSUME NEW w \in TaskWorkers
  PROVE  /\ Written(w) = Leaves(task, request[w])
         /\ Written(w)' = Leaves(task', request'[w])
  BY DEF Written, Leaves

(* A request that begins.                                                  *)
LEMMA TaskBegins ==
  ASSUME TasksAssumption, TaskInv, NEW w \in TaskWorkers, Free(w), NEW op \in TaskOp, Begin(w, op),
         op.kind = "asked", TaskStands(op),
         \A v \in TaskWorkers :
           request[v].kind # "idle" /\ (op.op = "create" \/ request[v].op = "create")
             => request[v].task # op.task,
         op.op = "create" => task[op.task] = Nothing,
         UNCHANGED <<task, nextTask, tick, now, told, rearmed, asleep, unasked, crossed>>
  PROVE  TaskInv'
<1>1. request' = [request EXCEPT ![w] = op] /\ requests' = requests + 1 /\ requests < MaxRequests
  BY DEF Begin, Free
<1>2. TaskTypes'
  <2>1. requests' \in 0..MaxRequests
    BY <1>1 DEF TaskInv, TaskTypes, TasksAssumption
  <2>2. request' \in [TaskWorkers -> TaskOp \cup {Resting}]
    BY <1>1 DEF TaskInv, TaskTypes
  <2> QED
    BY <2>1, <2>2 DEF TaskInv, TaskTypes
<1>3. \A v \in TaskWorkers : request'[v] = IF v = w THEN op ELSE request[v]
  BY <1>1 DEF TaskInv, TaskTypes
<1>4. TaskRequests'
  <2>1. \A v \in TaskWorkers : request'[v].kind # "idle" => TaskStands(request[v])' 
    BY <1>3 DEF TaskInv, TaskRequests, TaskStands
  <2>2. ~Writing(w)'
    BY <1>3 DEF Writing
  <2> QED
    BY <1>3, <2>1, <2>2 DEF TaskInv, TaskRequests, Writing
<1>5. TaskSnapshots'
  <2> SUFFICES ASSUME NEW v \in TaskWorkers, Writing(v)', ~request'[v].overtaken
               PROVE  Shown(v)'
    BY DEF TaskSnapshots
  <2>1. request'[v] = request[v] /\ Writing(v)
    BY <1>3 DEF Writing
  <2>2. Written(v)' = Written(v)
    BY <2>1, WrittenLeaves
  <2> QED
    BY <2>1, <2>2 DEF TaskInv, TaskSnapshots, Shown, Leaving
<1>6. TaskNew'
  BY <1>3 DEF TaskInv, TaskNew
<1>7. NextTaskAgrees'
  BY DEF TaskInv, NextTaskAgrees
<1> QED
  BY <1>2, <1>4, <1>5, <1>6, <1>7 DEF TaskInv, TaskRows, TaskTicks, TaskTypes

LEMMA TaskAsks ==
  ASSUME TasksAssumption, TaskInv, NEW w \in TaskWorkers, Asks(w) PROVE TaskInv'
<1>1. Nothing \in Firsts
  BY DEF Firsts
<1>2. ASSUME NEW t \in TaskIds, NEW actor \in Staff, NEW manageAll \in BOOLEAN,
             NEW holder \in Staff \cup {Nothing}, NEW day \in Calendar \cup {Nothing},
             NEW hour \in Hours \cup {Nothing}, NEW lead \in Leads \cup {Nothing},
             AskCreate(w, t, actor, manageAll, holder, day, hour, lead)
      PROVE  TaskInv'
  <2> DEFINE row == [status |-> "open", owner |-> OwnerFor(actor, manageAll, holder),
                     sent |-> FALSE, plan |-> Schedule(day, hour, lead, "open")]
             op == [kind |-> "asked", op |-> "create", task |-> t, status |-> Nothing,
                    rescheduled |-> TRUE, forOpen |-> TRUE, overtaken |-> FALSE,
                    unseen |-> {}, snapshot |-> Nothing, row |-> row]
  <2>1. Said(row.plan) /\ Awake(row.plan)
    BY ScheduleSays DEF Open
  <2>2. row \in TaskRow
    BY <2>1 DEF Said, TaskRow, OwnerFor, Open
  <2>3. op \in TaskOp
    BY <1>1, <2>2 DEF TaskOp, CreateOp
  <2>4. TaskStands(op)
    BY <2>1 DEF TaskStands, MoveOp
  <2>5. task[op.task] = Nothing /\ \A v \in TaskWorkers : request[v].kind # "idle" => request[v].task # op.task
    BY <1>2 DEF AskCreate
  <2>6. /\ Begin(w, op) /\ Free(w)
        /\ UNCHANGED <<task, nextTask, tick, now, told, rearmed, asleep, unasked, crossed>>
    BY <1>2 DEF AskCreate
  <2> HIDE DEF op
  <2>7. op.kind = "asked"
    BY DEF op
  <2> QED
    BY <2>3, <2>4, <2>5, <2>6, <2>7, TaskBegins
<1>3. ASSUME NEW t \in TaskIds, NEW part \in {"none", "day", "hour", "lead"},
             NEW value, part = "day" => value \in Calendar \cup {Nothing},
             part = "hour" => value \in Hours \cup {Nothing},
             part = "lead" => value \in Leads \cup {Nothing},
             NEW status \in Open \cup Closed \cup {Nothing}, AskUpdate(w, t, part, value, status)
      PROVE  TaskInv'
  <2> DEFINE row == task[t]
             day == IF part = "day" THEN value ELSE row.plan.day
             hour == IF part = "hour" THEN value ELSE row.plan.hour
             lead == IF part = "lead" THEN value
                     ELSE IF row.plan.lead = Nothing THEN Usual ELSE row.plan.lead
             meant == IF status = Nothing THEN row.status ELSE status
             plan == Schedule(day, hour, lead, meant)
             op == [kind |-> "asked", op |-> "update", task |-> t, status |-> status,
                    rescheduled |-> part # "none", forOpen |-> meant \in Open,
                    overtaken |-> FALSE, unseen |-> {}, snapshot |-> Nothing,
                    plan |-> IF part = "none" THEN Nothing ELSE plan]
  <2>1. row \in TaskRow /\ task[t] # Nothing
    BY <1>3 DEF AskUpdate, TaskInv, TaskTypes, Tables
  <2>2. row.plan \in Plan /\ row.status \in Open \cup Closed
    BY <2>1 DEF TaskRow
  <2>3. day \in Calendar \cup {Nothing} /\ hour \in Hours \cup {Nothing}
    BY <1>3, <2>2 DEF Plan
  <2>4. lead \in Leads \cup {Nothing}
    BY <1>3, <2>2 DEF Plan, TasksAssumption
  <2>5. meant \in Open \cup Closed
    BY <2>2
  <2>7. /\ Begin(w, op) /\ Free(w)
        /\ UNCHANGED <<task, nextTask, tick, now, told, rearmed, asleep, unasked, crossed>>
    BY <1>3 DEF AskUpdate
  <2> HIDE DEF day, hour, lead, meant
  <2>6. Said(plan) /\ (meant \in Open => Awake(plan))
    BY <2>3, <2>4, <2>5, ScheduleSays
  <2>8. \A v \in TaskWorkers : request[v].kind # "idle" /\ request[v].op = "create" => request[v].task # t
    BY <2>1 DEF TaskInv, TaskNew
  <2>9. op.kind = "asked" /\ op.op = "update" /\ op.task = t
    OBVIOUS
  <2>10. op \in TaskOp /\ TaskStands(op)
    <3>1. plan \in Plan /\ (meant \in Open) \in BOOLEAN
      BY <2>6 DEF Said
    <3>2. CASE part = "none"
      <4>1. op \in StatusOp /\ op.rescheduled = FALSE
        BY <1>1, <3>1, <3>2 DEF StatusOp
      <4>2. op \notin MoveOp
        BY <4>1 DEF MoveOp
      <4> QED
        BY <2>1, <2>9, <4>1, <4>2 DEF TaskStands, TaskOp
    <3>3. CASE part # "none"
      <4>1. op.plan = plan /\ op.forOpen = (meant \in Open) /\ op.unseen = {}
        BY <3>3
      <4>2. op \in MoveOp
        BY <1>1, <3>1, <3>3 DEF MoveOp
      <4> QED
        BY <2>1, <2>6, <2>9, <4>1, <4>2 DEF TaskStands, TaskOp
    <3> QED
      BY <3>2, <3>3
  <2> HIDE DEF op
  <2> QED
    BY <2>7, <2>8, <2>9, <2>10, TaskBegins
<1> QED
  BY <1>2, <1>3 DEF Asks

LEMMA WrittenRow ==
  ASSUME TaskInv, NEW w \in TaskWorkers, request[w].kind # "idle"
  PROVE  /\ Written(w) \in TaskRow /\ Said(Written(w).plan)
         /\ Written(w).sent => ~request[w].rescheduled /\ request[w].status \notin Open
         /\ Written(w).sent => task[request[w].task] # Nothing /\ task[request[w].task].sent
         /\ request[w].rescheduled /\ request[w].forOpen => Awake(Written(w).plan)
         /\ ~request[w].rescheduled =>
              /\ task[request[w].task] # Nothing /\ Written(w).plan = task[request[w].task].plan
              /\ Written(w).sent <=> task[request[w].task].sent /\ request[w].status \notin Open
<1> DEFINE r == request[w]
           t == r.task
<1>1. r \in TaskOp /\ t \in TaskIds /\ TaskStands(r)
  BY TaskOf
<1>2. CASE r \in CreateOp
  <2>1. r.op = "create" /\ r.row \in TaskRow /\ r.rescheduled
    BY <1>2 DEF CreateOp
  <2>2. Written(w) = r.row
    BY <2>1 DEF Written
  <2> QED
    BY <1>1, <2>1, <2>2 DEF TaskStands
<1>3. ASSUME r.op = "update" PROVE task[t] \in TaskRow /\ task[t] # Nothing /\ Said(task[t].plan)
  BY <1>1, <1>3 DEF TaskStands, TaskInv, TaskTypes, Tables, TaskRows
<1>4. CASE r \in MoveOp
  <2> DEFINE status == IF r.status = Nothing THEN task[t].status ELSE r.status
  <2>1. r.op = "update" /\ r.plan \in Plan /\ r.rescheduled
    BY <1>4 DEF MoveOp
  <2>2. PICK y \in TaskRow : y = task[t]
    BY <1>3, <2>1
  <2>3. status \in Open \cup Closed
    BY <1>4, <2>2 DEF MoveOp, TaskRow
  <2>4. Written(w) = [y EXCEPT !.status = status, !.plan = r.plan, !.sent = FALSE]
    BY <2>1, <2>2 DEF Written, TaskRow
  <2> HIDE DEF status
  <2>5. Written(w) \in TaskRow /\ Written(w).plan = r.plan /\ Written(w).sent = FALSE
    BY <2>1, <2>2, <2>3, <2>4 DEF TaskRow
  <2> QED
    BY <1>1, <1>4, <2>1, <2>5 DEF TaskStands
<1>5. CASE r \in StatusOp
  <2>1. r.op = "update" /\ r.status \in Open \cup Closed \cup {Nothing} /\ ~r.rescheduled
    BY <1>5 DEF StatusOp
  <2> DEFINE status == IF r.status = Nothing THEN task[t].status ELSE r.status
  <2>2. PICK b \in BOOLEAN : b = (task[t].sent /\ r.status \notin Open)
    BY <1>3 DEF TaskRow
  <2>3. Written(w) = [task[t] EXCEPT !.status = status, !.sent = b]
    BY <1>3, <2>1, <2>2 DEF Written, TaskRow
  <2>4. status \in Open \cup Closed
    BY <1>3, <2>1 DEF TaskRow
  <2> HIDE DEF status
  <2>5. PICK y \in TaskRow : y = task[t]
    BY <1>3, <2>1
  <2>6. Written(w) \in TaskRow /\ Written(w).plan = task[t].plan /\ Written(w).sent = b
    BY <2>2, <2>3, <2>4, <2>5 DEF TaskRow
  <2> QED
    BY <1>3, <2>1, <2>2, <2>6
<1> QED
  BY <1>1, <1>2, <1>4, <1>5 DEF TaskOp

LEMMA TaskWrites ==
  ASSUME TasksAssumption, TaskInv, NEW w \in TaskWorkers, Write(w) PROVE TaskInv'
<1>a. PICK r, s : r = request[w] /\ s = RefreshNextTask(w)
  OBVIOUS
<1>b. PICK op : op = [r EXCEPT !.kind = "written", !.snapshot = s]
  OBVIOUS
<1>0. /\ r = request[w] /\ s = RefreshNextTask(w)
      /\ op = [r EXCEPT !.kind = "written", !.snapshot = s]
  BY <1>a, <1>b
<1>1. r.kind = "asked" /\ request' = [request EXCEPT ![w].kind = "written", ![w].snapshot = s]
      /\ UNCHANGED <<task, nextTask, tick, now, requests, told, rearmed, asleep, unasked, crossed>>
  BY <1>0 DEF Write
<1>2. r \in TaskOp /\ r.task \in TaskIds /\ TaskStands(r)
  BY <1>0, <1>1, TaskOf
<1>3. /\ s \in Firsts /\ r.unseen = {}
      /\ Seen(Leaving(w), {}) = Leaving(w) /\ s = Earliest(Leaving(w))
  <2>1. Leaving(w) \in Tables
    BY <1>0, <1>1, <1>2, WrittenRow DEF TaskInv, TaskTypes, Tables, Leaving
  <2>2. Seen(Leaving(w), {}) = Leaving(w)
    BY <2>1 DEF Seen, Tables
  <2>3. s = Earliest(Leaving(w))
    BY <1>0 DEF RefreshNextTask, Leaving
  <2>4. r.unseen = {}
    BY <1>1, <1>2 DEF TaskStands
  <2> QED
    BY <2>1, <2>2, <2>3, <2>4 DEF Firsts
<1>4. /\ op \in TaskOp /\ op.kind = "written" /\ op.snapshot = s /\ op.task = r.task /\ op.op = r.op
      /\ op.status = r.status /\ op.rescheduled = r.rescheduled /\ op.overtaken = r.overtaken
      /\ op.unseen = r.unseen /\ op.forOpen = r.forOpen /\ (op \in MoveOp <=> r \in MoveOp)
      /\ (r \in MoveOp => op.plan = r.plan) /\ (r.op = "create" => op.row = r.row)
  <2>1. CASE r \in CreateOp
    BY <1>0, <1>2, <1>3, <2>1 DEF TaskOp, CreateOp, MoveOp
  <2>2. CASE r \in MoveOp
    BY <1>0, <1>2, <1>3, <2>2 DEF TaskOp, MoveOp
  <2>3. CASE r \in StatusOp
    BY <1>0, <1>2, <1>3, <2>3 DEF TaskOp, StatusOp, MoveOp
  <2> QED
    BY <1>2, <2>1, <2>2, <2>3 DEF TaskOp
<1>5. \A v \in TaskWorkers : request'[v] = IF v = w THEN op ELSE request[v]
  BY <1>0, <1>1 DEF TaskInv, TaskTypes
<1>13. ASSUME NEW v \in TaskWorkers, request'[v].kind # "idle"
       PROVE  request[v].kind # "idle" /\ request'[v].task = request[v].task /\ request'[v].op = request[v].op
  <2>1. CASE v = w
    <3>1. request'[v] = op /\ request[v] = r
      BY <1>0, <1>5, <2>1
    <3> QED
      BY <1>1, <1>4, <3>1
  <2>2. CASE v # w
    <3>1. request'[v] = request[v]
      BY <1>5, <2>2
    <3> QED
      BY <1>13, <3>1
  <2> QED
    BY <2>1, <2>2
<1>6. TaskTypes'
  <2>1. request' = [request EXCEPT ![w] = op]
    BY <1>0, <1>1
  <2> QED
    BY <1>1, <1>4, <2>1 DEF TaskInv, TaskTypes
<1>7. TaskRequests'
  <2>1. TaskStands(op)'
    BY <1>1, <1>2, <1>4 DEF TaskStands
  <2>2. \A v \in TaskWorkers : request'[v].kind # "idle" => TaskStands(request[v])'
    <3> SUFFICES ASSUME NEW v \in TaskWorkers, request'[v].kind # "idle" PROVE TaskStands(request[v])'
      OBVIOUS
    <3>1. CASE v = w
      BY <1>5, <2>1, <3>1 DEF TaskStands
    <3>2. CASE v # w
      <4>1. PICK y : y = request[v] /\ y = request'[v]
        BY <1>5, <3>2
      <4>2. TaskStands(y)'
        BY <1>1, <4>1 DEF TaskInv, TaskRequests, TaskStands
      <4> QED
        BY <4>1, <4>2 DEF TaskStands
    <3> QED
      BY <3>1, <3>2
  <2>3. \A v \in TaskWorkers : Writing(v)' => v = w \/ (Writing(v) /\ request[v].task # r.task)
    BY <1>0, <1>5 DEF Writing, Write
  <2>4. \A v \in TaskWorkers : request'[v].kind # "idle" =>
          request[v].kind # "idle" /\ request'[v].task = request[v].task /\ request'[v].op = request[v].op
    BY <1>13
  <2>5. \A x, v \in TaskWorkers :
          x # v /\ request'[x].kind # "idle" /\ request'[v].kind # "idle" /\ request'[x].op = "create"
            => request'[v].task # request'[x].task
    BY <2>4 DEF TaskInv, TaskRequests
  <2>6. \A x, v \in TaskWorkers : x # v /\ Writing(x)' /\ Writing(v)' => request'[v].task # request'[x].task
    <3>1. \A v \in TaskWorkers : Writing(v)' => request'[v].kind # "idle"
      BY DEF Writing
    <3>2. \A v \in TaskWorkers : Writing(v)' => request'[v].task = request[v].task
      BY <2>4, <3>1
    <3>3. \A x, v \in TaskWorkers : x # v /\ Writing(x) /\ Writing(v) => request[v].task # request[x].task
      BY DEF TaskInv, TaskRequests
    <3> QED
      BY <1>0, <2>3, <3>2, <3>3
  <2> QED
    BY <2>2, <2>5, <2>6 DEF TaskRequests
<1>8. TaskNew'
  <2> SUFFICES ASSUME NEW v \in TaskWorkers, request'[v].kind # "idle", request'[v].op = "create"
               PROVE  task[request'[v].task] = Nothing
    BY <1>1 DEF TaskNew
  <2>1. request[v].kind # "idle" /\ request'[v].task = request[v].task /\ request'[v].op = request[v].op
    BY <1>13
  <2> QED
    BY <2>1 DEF TaskInv, TaskNew
<1>9. \A v \in TaskWorkers : Written(v)' = Written(v) /\ request'[v].task = request[v].task
  <2> SUFFICES ASSUME NEW v \in TaskWorkers PROVE Written(v)' = Written(v) /\ request'[v].task = request[v].task
    OBVIOUS
  <2>1. CASE v # w
    BY <1>1, <1>5, <2>1, WrittenLeaves
  <2>2. CASE v = w
    <3>1. Leaves(task, op) = Leaves(task, r)
      <4>1. CASE r.op = "create"
        BY <1>4, <4>1 DEF Leaves
      <4>2. CASE r \in MoveOp
        BY <1>4, <4>2 DEF Leaves
      <4>3. CASE r \in StatusOp
        BY <1>4, <4>3 DEF Leaves, StatusOp
      <4> QED
        BY <1>2, <4>1, <4>2, <4>3 DEF TaskOp, CreateOp
    <3>2. request[v] = r /\ request'[v] = op /\ task' = task /\ op.task = r.task
      BY <1>0, <1>1, <1>4, <1>5, <2>2
    <3>3. Written(v) = Leaves(task, r) /\ Written(v)' = Leaves(task, op)
      BY <3>2, WrittenLeaves
    <3> QED
      BY <3>1, <3>2, <3>3
  <2> QED
    BY <2>1, <2>2
<1>10. \A v \in TaskWorkers : Leaving(v)' = Leaving(v)
  BY <1>1, <1>9 DEF Leaving
<1>11. TaskSnapshots'
  <2> SUFFICES ASSUME NEW v \in TaskWorkers, Writing(v)', ~request'[v].overtaken
               PROVE  Shown(v)'
    BY DEF TaskSnapshots
  <2>1. CASE v = w
    <3>1. request'[v] = op /\ op.snapshot = s /\ op.unseen = {}
      BY <1>3, <1>4, <1>5, <2>1
    <3>2. Leaving(v)' = Leaving(w)
      BY <1>10, <2>1
    <3>3. request'[v].snapshot = Earliest(Seen(Leaving(w), request'[v].unseen))
      BY <1>3, <3>1
    <3> QED
      BY <3>2, <3>3 DEF Shown
  <2>2. CASE v # w
    <3>1. request'[v] = request[v]
      BY <1>5, <2>2
    <3>2. Writing(v)
      BY <3>1 DEF Writing
    <3>3. Shown(v)
      BY <3>1, <3>2 DEF TaskInv, TaskSnapshots
    <3>4. Leaving(v)' = Leaving(v)
      BY <1>10
    <3> QED
      BY <3>1, <3>3, <3>4 DEF Shown
  <2> QED
    BY <2>1, <2>2
<1>12. NextTaskAgrees'
  BY <1>1 DEF TaskInv, NextTaskAgrees
<1> QED
  BY <1>1, <1>6, <1>7, <1>8, <1>11, <1>12 DEF TaskInv, TaskRows, TaskTicks

LEMMA TaskCommits ==
  ASSUME TasksAssumption, TaskInv, NEW w \in TaskWorkers, Commit(w) PROVE TaskInv'
<1>0. PICK r, t, row : r = request[w] /\ t = r.task /\ row = Written(w)
  OBVIOUS
<1>1. /\ Writing(w) /\ r.kind = "written" /\ t \in TaskIds /\ r \in TaskOp /\ TaskStands(r) /\ r # Resting
      /\ row \in TaskRow /\ row # Nothing
  BY <1>0, TaskOf, WrittenRow DEF Commit, Writing, TasksAssumption
<1>2. /\ task' = [task EXCEPT ![t] = row] /\ nextTask' = r.snapshot /\ crossed' = r.overtaken
      /\ unasked' = r.unseen
      /\ request' = OvertakenBy(w) /\ UNCHANGED <<tick, now, requests>>
  BY <1>0 DEF Commit
<1>3. \A u \in TaskIds : task'[u] = IF u = t THEN row ELSE task[u]
  BY <1>2 DEF TaskInv, TaskTypes, Tables
<1>4. \A v \in TaskWorkers :
        request'[v] = IF v = w THEN Resting
                      ELSE IF Writing(v) THEN [request[v] EXCEPT !.overtaken = TRUE] ELSE request[v]
  BY <1>2 DEF OvertakenBy
<1>5. ASSUME NEW v \in TaskWorkers, Writing(v), v # w
      PROVE  /\ request'[v] \in TaskOp /\ request'[v].kind = "written" /\ request'[v].overtaken
             /\ request'[v].task = request[v].task /\ request'[v].op = request[v].op
             /\ request'[v].forOpen = request[v].forOpen
             /\ request'[v] \in MoveOp => request[v] \in MoveOp /\ request'[v].plan = request[v].plan
             /\ request[v].op = "create" => request'[v].row = request[v].row
  <2>1. request'[v] = [request[v] EXCEPT !.overtaken = TRUE] /\ request[v].kind = "written"
    BY <1>4, <1>5 DEF Writing
  <2>2. request[v] \in TaskOp
    BY <2>1, TaskOf
  <2>3. PICK y : y = request[v]
    OBVIOUS
  <2>4. PICK z : z = [y EXCEPT !.overtaken = TRUE]
    OBVIOUS
  <2>5. /\ z \in TaskOp /\ z.kind = y.kind /\ z.overtaken /\ z.task = y.task /\ z.op = y.op
        /\ z.forOpen = y.forOpen
        /\ z \in MoveOp => y \in MoveOp /\ z.plan = y.plan
        /\ y.op = "create" => z.row = y.row
    <3>1. CASE y \in CreateOp
      BY <2>4, <3>1 DEF TaskOp, CreateOp, MoveOp
    <3>2. CASE y \in MoveOp
      BY <2>4, <3>2 DEF TaskOp, MoveOp
    <3>3. CASE y \in StatusOp
      BY <2>4, <3>3 DEF TaskOp, StatusOp, MoveOp
    <3> QED
      BY <2>2, <2>3, <3>1, <3>2, <3>3 DEF TaskOp
  <2> QED
    BY <2>1, <2>3, <2>4, <2>5
<1>6. \A v \in TaskWorkers : request'[v].kind # "idle" =>
        /\ v # w /\ request[v].kind # "idle" /\ request'[v].task = request[v].task
        /\ request'[v].op = request[v].op /\ request'[v].kind = request[v].kind
  <2> SUFFICES ASSUME NEW v \in TaskWorkers, request'[v].kind # "idle"
      PROVE  /\ v # w /\ request[v].kind # "idle" /\ request'[v].task = request[v].task
             /\ request'[v].op = request[v].op /\ request'[v].kind = request[v].kind
    OBVIOUS
  <2>1. v # w
    <3>1. request'[w] = Resting
      BY <1>4
    <3>2. Resting.kind = "idle"
      BY DEF Resting
    <3> QED
      BY <3>1, <3>2
  <2>2. CASE Writing(v)
    BY <1>5, <2>1, <2>2 DEF Writing
  <2>3. CASE ~Writing(v)
    BY <1>4, <2>1, <2>3
  <2> QED
    BY <2>1, <2>2, <2>3
<1>7. TaskTypes'
  <2>1. task' \in Tables
    BY <1>1, <1>2 DEF TaskInv, TaskTypes, Tables
  <2>2. request' \in [TaskWorkers -> TaskOp \cup {Resting}]
    <3>1. \A v \in TaskWorkers : request'[v] \in TaskOp \cup {Resting}
      BY <1>4, <1>5 DEF TaskInv, TaskTypes
    <3>2. request' = [v \in TaskWorkers |-> request'[v]]
      BY <1>2 DEF OvertakenBy
    <3> QED
      BY <3>1, <3>2
  <2>3. told' \in [TaskIds -> Nat] /\ rearmed' \in [TaskIds -> Nat]
    <3>1. told' = told \/ told' = [told EXCEPT ![t] = 0]
      BY <1>0 DEF Commit
    <3>2. \/ rearmed' = [rearmed EXCEPT ![t] = 0] \/ rearmed' = [rearmed EXCEPT ![t] = @ + 1]
          \/ rearmed' = [rearmed EXCEPT ![t] = @ + 0]
      BY <1>0 DEF Commit
    <3> QED
      BY <3>1, <3>2 DEF TaskInv, TaskTypes
  <2> QED
    BY <1>2, <2>1, <2>2, <2>3 DEF TaskInv, TaskTypes
<1>8. TaskRows'
  <2>1. CASE r.rescheduled
    <3>1. /\ told' = [told EXCEPT ![t] = 0] /\ rearmed' = [rearmed EXCEPT ![t] = 0]
          /\ asleep' = IF r.forOpen THEN asleep \ {t} ELSE asleep \cup {t}
      BY <1>0, <2>1 DEF Commit
    <3>2. \A u \in TaskIds : told'[u] = (IF u = t THEN 0 ELSE told[u])
                             /\ rearmed'[u] = (IF u = t THEN 0 ELSE rearmed[u])
      BY <3>1 DEF TaskInv, TaskTypes
    <3>3. Said(row.plan) /\ (r.forOpen => Awake(row.plan))
      BY <1>0, <1>1, <2>1, WrittenRow
    <3> SUFFICES ASSUME NEW u \in TaskIds
        PROVE  /\ told'[u] <= rearmed'[u] + (IF task'[u] # Nothing /\ task'[u].sent THEN 1 ELSE 0)
               /\ task'[u] # Nothing => Said(task'[u].plan) /\ (u \notin asleep' => Awake(task'[u].plan))
      BY DEF TaskRows, Said, Awake
    <3>4. CASE u = t
      BY <1>3, <3>1, <3>2, <3>3, <3>4
    <3>5. CASE u # t
      <4>1. told'[u] = told[u] /\ rearmed'[u] = rearmed[u] /\ task'[u] = task[u] /\ (u \notin asleep' => u \notin asleep)
        BY <1>3, <3>1, <3>2, <3>5
      <4> QED
        BY <4>1 DEF TaskInv, TaskRows
    <3> QED
      BY <3>4, <3>5
  <2>2. CASE ~r.rescheduled
    <3>1. told' = told /\ asleep' = asleep
          /\ rearmed' = [rearmed EXCEPT ![t] = @ + (IF r.status \in Open THEN 1 ELSE 0)]
      BY <1>0, <2>2 DEF Commit
    <3>2. /\ row.plan = task[t].plan /\ task[t] # Nothing
          /\ row.sent <=> task[t].sent /\ r.status \notin Open
          /\ row.sent \in BOOLEAN /\ task[t].sent \in BOOLEAN
      BY <1>0, <1>1, <2>2, WrittenRow DEF TaskInv, TaskTypes, Tables, TaskRow
    <3> SUFFICES ASSUME NEW u \in TaskIds
        PROVE  /\ told'[u] <= rearmed'[u] + (IF task'[u] # Nothing /\ task'[u].sent THEN 1 ELSE 0)
               /\ task'[u] # Nothing => Said(task'[u].plan) /\ (u \notin asleep' => Awake(task'[u].plan))
      BY DEF TaskRows, Said, Awake
    <3>3. rearmed'[u] = IF u = t /\ r.status \in Open THEN rearmed[u] + 1 ELSE rearmed[u]
      BY <3>1 DEF TaskInv, TaskTypes
    <3>4. told[u] \in Nat /\ rearmed[u] \in Nat
      BY DEF TaskInv, TaskTypes
    <3>5. told[u] <= rearmed[u] + (IF task[u] # Nothing /\ task[u].sent THEN 1 ELSE 0)
      BY DEF TaskInv, TaskRows
    <3>6. told'[u] <= rearmed'[u] + (IF task'[u] # Nothing /\ task'[u].sent THEN 1 ELSE 0)
      BY <1>1, <1>3, <3>1, <3>2, <3>3, <3>4, <3>5
    <3>7. task'[u] # Nothing => Said(task'[u].plan) /\ (u \notin asleep' => Awake(task'[u].plan))
      BY <1>3, <3>1, <3>2 DEF TaskInv, TaskRows
    <3> QED
      BY <3>6, <3>7
  <2> QED
    BY <2>1, <2>2
<1>9. TaskRequests'
  <2>1. ASSUME NEW v \in TaskWorkers, request'[v].kind # "idle" PROVE TaskStands(request[v])'
    <3>1. TaskStands(request[v]) /\ request[v].kind # "idle" /\ v # w
      BY <1>6, <2>1 DEF TaskInv, TaskRequests
    <3>2. PICK y, z : y = request[v] /\ z = request'[v]
      OBVIOUS
    <3>3. /\ z.op = y.op /\ z.task = y.task /\ z.forOpen = y.forOpen
          /\ z \in MoveOp => y \in MoveOp /\ z.plan = y.plan
          /\ y.op = "create" => z.row = y.row
          /\ z.kind = "asked" => z = y
      BY <1>4, <1>5, <3>1, <3>2
    <3>4. y.task \in TaskIds /\ (task[y.task] # Nothing => task'[y.task] # Nothing)
      BY <1>1, <1>3, <3>1, <3>2, TaskOf
    <3>5. TaskStands(z)'
      BY <3>1, <3>2, <3>3, <3>4 DEF TaskStands
    <3> QED
      BY <3>2, <3>5 DEF TaskStands
  <2>2. \A x, v \in TaskWorkers :
          x # v /\ request'[x].kind # "idle" /\ request'[v].kind # "idle" /\ request'[x].op = "create"
            => request'[v].task # request'[x].task
    BY <1>6 DEF TaskInv, TaskRequests
  <2>3. \A v \in TaskWorkers : Writing(v)' => request'[v].kind # "idle" /\ Writing(v)
    BY <1>6 DEF Writing
  <2>4. \A x, v \in TaskWorkers : x # v /\ Writing(x)' /\ Writing(v)' => request'[v].task # request'[x].task
    BY <1>6, <2>3 DEF TaskInv, TaskRequests
  <2> QED
    BY <2>1, <2>2, <2>4 DEF TaskRequests
<1>10. TaskNew'
  <2> SUFFICES ASSUME NEW v \in TaskWorkers, request'[v].kind # "idle", request'[v].op = "create"
               PROVE  task'[request'[v].task] = Nothing
    BY DEF TaskNew
  <2>1. v # w /\ request[v].kind # "idle" /\ request'[v].task = request[v].task /\ request[v].op = "create"
    BY <1>6
  <2>2. request[v].task # t /\ request[v].task \in TaskIds
    BY <1>0, <1>1, <2>1, TaskOf DEF TaskInv, TaskRequests
  <2> QED
    BY <1>3, <2>1, <2>2 DEF TaskInv, TaskNew
<1>11. TaskSnapshots'
  <2>1. \A v \in TaskWorkers : Writing(v)' => Writing(v) /\ v # w
    BY <1>6 DEF Writing
  <2> QED
    BY <1>5, <2>1 DEF TaskSnapshots
<1>12. TaskTicks'
  BY <1>1, <1>2, <1>3 DEF TaskInv, TaskTicks, TaskTypes
<1>13. NextTaskAgrees'
  <2> SUFFICES ASSUME ~crossed'
               PROVE  nextTask' = Earliest(Seen(task', unasked'))
    BY DEF NextTaskAgrees, Seen
  <2>1. Shown(w)
    BY <1>0, <1>1, <1>2 DEF TaskInv, TaskSnapshots
  <2>2. Leaving(w) = task'
    BY <1>0, <1>2 DEF Leaving
  <2> QED
    BY <1>0, <1>2, <2>1, <2>2 DEF Shown
<1> QED
  BY <1>7, <1>8, <1>9, <1>10, <1>11, <1>12, <1>13 DEF TaskInv

(* What the reminder job and a handover do to rows: the plans stay.        *)
LEMMA TaskRowsKept ==
  ASSUME TasksAssumption, TaskInv, task' \in Tables, UNCHANGED <<request, unasked>>,
         \A t \in TaskIds : task[t] # Nothing <=> task'[t] # Nothing,
         \A t \in TaskIds : task[t] # Nothing =>
           task'[t].status = task[t].status /\ task'[t].plan = task[t].plan,
         \A w \in TaskWorkers : Writing(w) => task'[request[w].task] = task[request[w].task]
  PROVE  /\ TaskRequests' /\ TaskNew' /\ TaskSnapshots'
         /\ Earliest(Seen(task', unasked)) = Earliest(Seen(task, unasked))
<1>1. \A t \in TaskIds : Counts(task'[t]) <=> Counts(task[t])
  BY DEF Counts
<1>2. \A t \in TaskIds : Counts(task[t]) => task'[t].plan = task[t].plan
  BY DEF Counts
<1>3. task \in Tables
  BY DEF TaskInv, TaskTypes
<1>4. Earliest(Seen(task', unasked)) = Earliest(Seen(task, unasked))
  BY <1>1, <1>2, <1>3, SeenOf
<1>5. \A w \in TaskWorkers : request[w].kind # "idle" => request[w].task \in TaskIds
  BY TaskOf
<1>6. TaskRequests'
  BY <1>5 DEF TaskInv, TaskRequests, TaskStands, Writing
<1>7. TaskNew'
  BY <1>5 DEF TaskInv, TaskNew
<1>8. TaskSnapshots'
  <2> SUFFICES ASSUME NEW w \in TaskWorkers, Writing(w), ~request[w].overtaken
               PROVE  Shown(w)'
    BY DEF TaskSnapshots, Writing
  <2>0. PICK r : r = request[w]
    OBVIOUS
  <2>1. r \in TaskOp /\ r.task \in TaskIds /\ r.kind # "idle" /\ task'[r.task] = task[r.task]
    BY <2>0, TaskOf DEF Writing
  <2>2. Leaves(task', r) = Leaves(task, r)
    BY <2>1 DEF Leaves
  <2>3. PICK row : row = Written(w) /\ row = Written(w)' /\ row \in TaskRow
    BY <2>0, <2>1, <2>2, WrittenLeaves, WrittenRow
  <2> DEFINE a == [task EXCEPT ![r.task] = row]
             b == [task' EXCEPT ![r.task] = row]
  <2>4. a \in Tables /\ b \in Tables
    BY <1>3, <2>1, <2>3 DEF Tables
  <2>5. \A t \in TaskIds : a[t] = (IF t = r.task THEN row ELSE task[t])
                           /\ b[t] = (IF t = r.task THEN row ELSE task'[t])
    BY <1>3 DEF Tables
  <2> HIDE DEF a, b
  <2>6. \A t \in TaskIds : (Counts(b[t]) <=> Counts(a[t])) /\ (Counts(b[t]) => b[t].plan = a[t].plan)
    BY <1>1, <1>2, <2>5
  <2>7. Earliest(Seen(b, r.unseen)) = Earliest(Seen(a, r.unseen))
    BY <2>4, <2>6, SeenOf
  <2>8. Leaving(w)' = b /\ Leaving(w) = a
    BY <2>0, <2>3 DEF Leaving, a, b
  <2>9. r.snapshot = Earliest(Seen(a, r.unseen))
    BY <2>0, <2>8 DEF TaskInv, TaskSnapshots, Shown
  <2> QED
    BY <2>0, <2>7, <2>8, <2>9 DEF Shown
<1> QED
  BY <1>4, <1>6, <1>7, <1>8

(* A task an automation inserts: nothing that was read or shown had it.    *)
LEMMA TaskAutomates ==
  ASSUME TasksAssumption, TaskInv, NEW t \in TaskIds, NEW owner \in Staff \cup {Nothing},
         NEW day \in Calendar \cup {Nothing}, Automate(t, owner, day)
  PROVE  TaskInv'
<1> DEFINE row == [status |-> "open", owner |-> owner, sent |-> FALSE,
                   plan |-> Schedule(day, Nothing, Nothing, "open")]
<1>1. /\ task' = [task EXCEPT ![t] = row] /\ task[t] = Nothing
      /\ \A v \in TaskWorkers : request[v].kind # "idle" => request[v].task # t
      /\ request' = [v \in TaskWorkers |->
           IF Writing(v) THEN [request[v] EXCEPT !.unseen = @ \cup {t}] ELSE request[v]]
      /\ unasked' = unasked \cup {t} /\ requests < MaxRequests /\ requests' = requests + 1
      /\ UNCHANGED <<nextTask, tick, now, told, rearmed, asleep, crossed>>
  BY DEF Automate
<1>2. row \in TaskRow /\ row # Nothing /\ Said(row.plan) /\ Awake(row.plan) /\ row.sent = FALSE
  <2>1. Said(row.plan) /\ Awake(row.plan)
    BY ScheduleSays DEF Open
  <2>2. row \in TaskRow
    BY <2>1 DEF Said, TaskRow, Open
  <2> QED
    BY <2>1, <2>2 DEF TasksAssumption
<1> HIDE DEF row
<1>3. task \in Tables /\ task' \in Tables
      /\ \A u \in TaskIds : task'[u] = IF u = t THEN row ELSE task[u]
  BY <1>1, <1>2 DEF TaskInv, TaskTypes, Tables
<1>4. ASSUME NEW v \in TaskWorkers, request[v].kind # "idle"
      PROVE  /\ request'[v] \in TaskOp /\ request'[v].kind = request[v].kind
             /\ request'[v].task = request[v].task /\ request'[v].op = request[v].op
             /\ request'[v].overtaken = request[v].overtaken
             /\ request'[v].snapshot = request[v].snapshot
             /\ request'[v].unseen \in {request[v].unseen, request[v].unseen \cup {t}}
             /\ Writing(v) => request'[v].unseen = request[v].unseen \cup {t}
             /\ TaskStands(request'[v])
             /\ Leaves(task, request'[v]) = Leaves(task, request[v])
  <2>0. PICK y, z : y = request[v] /\ z = [y EXCEPT !.unseen = @ \cup {t}]
    OBVIOUS
  <2>1. y \in TaskOp /\ TaskStands(y)
    BY <1>4, <2>0, TaskOf
  <2>2. CASE ~Writing(v)
    <3>1. request'[v] = y
      BY <1>1, <2>0, <2>2
    <3> QED
      BY <2>0, <2>1, <2>2, <3>1
  <2>3. CASE Writing(v)
    <3>1. request'[v] = z /\ y.kind = "written"
      BY <1>1, <2>0, <2>3 DEF Writing
    <3>2. /\ z \in TaskOp /\ z.kind = y.kind /\ z.overtaken = y.overtaken /\ z.task = y.task
          /\ z.op = y.op /\ z.snapshot = y.snapshot /\ z.unseen = y.unseen \cup {t}
          /\ z.status = y.status /\ z.rescheduled = y.rescheduled /\ z.forOpen = y.forOpen
          /\ (z \in MoveOp => y \in MoveOp) /\ (y \in MoveOp => z.plan = y.plan)
          /\ (y.op = "create" => z.row = y.row) /\ (y.rescheduled <=> y \notin StatusOp)
      <4>1. CASE y \in CreateOp
        BY <2>0, <4>1 DEF TaskOp, CreateOp, MoveOp, StatusOp
      <4>2. CASE y \in MoveOp
        BY <2>0, <4>2 DEF TaskOp, MoveOp, StatusOp
      <4>3. CASE y \in StatusOp
        BY <2>0, <4>3 DEF TaskOp, StatusOp, MoveOp
      <4> QED
        BY <2>1, <4>1, <4>2, <4>3 DEF TaskOp
    <3>3. TaskStands(z)
      BY <2>1, <3>1, <3>2 DEF TaskStands
    <3>4. y.op = "create" \/ y \in MoveOp \/ ~y.rescheduled
      BY <2>1, <3>2 DEF TaskOp, CreateOp
    <3>5. Leaves(task, z) = Leaves(task, y)
      BY <3>2, <3>4 DEF Leaves
    <3> QED
      BY <2>0, <3>1, <3>2, <3>3, <3>5
  <2> QED
    BY <2>2, <2>3
<1>5. \A v \in TaskWorkers : request[v].kind = "idle" => request'[v] = request[v]
  BY <1>1 DEF Writing
<1>6. \A v \in TaskWorkers : request'[v].kind # "idle" => request[v].kind # "idle"
  BY <1>5
<1>7. \A v \in TaskWorkers : Writing(v)' <=> Writing(v)
  BY <1>4, <1>5 DEF Writing
<1>8. TaskTypes'
  <2>1. request' \in [TaskWorkers -> TaskOp \cup {Resting}]
    <3>1. \A v \in TaskWorkers : request'[v] \in TaskOp \cup {Resting}
      BY <1>4, <1>5 DEF TaskInv, TaskTypes
    <3> QED
      BY <1>1, <3>1
  <2> QED
    BY <1>1, <1>3, <2>1 DEF TaskInv, TaskTypes, TasksAssumption
<1>9. TaskRows'
  <2> SUFFICES ASSUME NEW u \in TaskIds
      PROVE  /\ told[u] <= rearmed[u] + (IF task'[u] # Nothing /\ task'[u].sent THEN 1 ELSE 0)
             /\ task'[u] # Nothing => Said(task'[u].plan) /\ (u \notin asleep => Awake(task'[u].plan))
    BY <1>1 DEF TaskRows, Said, Awake
  <2>1. told[u] \in Nat /\ rearmed[u] \in Nat
    BY DEF TaskInv, TaskTypes
  <2> QED
    BY <1>1, <1>2, <1>3, <2>1 DEF TaskInv, TaskRows
<1>10. TaskRequests'
  <2>1. ASSUME NEW v \in TaskWorkers, request'[v].kind # "idle" PROVE TaskStands(request[v])'
    <3>1. TaskStands(request'[v]) /\ request'[v].task \in TaskIds
      BY <1>4, <1>6, <2>1, TaskOf
    <3> QED
      BY <1>2, <1>3, <3>1 DEF TaskStands
  <2>2. \A v \in TaskWorkers : request'[v].kind # "idle" =>
          request'[v].task = request[v].task /\ request'[v].op = request[v].op
    BY <1>4, <1>6
  <2>3. \A v \in TaskWorkers : Writing(v) => request[v].kind # "idle"
    BY DEF Writing
  <2>4. \A v \in TaskWorkers : Writing(v) => request'[v].task = request[v].task
    BY <1>4, <2>3
  <2>5. \A x, v \in TaskWorkers :
          x # v /\ request'[x].kind # "idle" /\ request'[v].kind # "idle" /\ request'[x].op = "create"
            => request'[v].task # request'[x].task
    BY <1>6, <2>2 DEF TaskInv, TaskRequests
  <2>6. \A x, v \in TaskWorkers : x # v /\ Writing(x)' /\ Writing(v)' => request'[v].task # request'[x].task
    BY <1>7, <2>4 DEF TaskInv, TaskRequests
  <2> QED
    BY <2>1, <2>5, <2>6 DEF TaskRequests
<1>11. TaskNew'
  <2> SUFFICES ASSUME NEW v \in TaskWorkers, request'[v].kind # "idle", request'[v].op = "create"
               PROVE  task'[request'[v].task] = Nothing
    BY DEF TaskNew
  <2>1. request[v].kind # "idle" /\ request'[v].task = request[v].task /\ request[v].op = "create"
    BY <1>4, <1>6
  <2>2. request[v].task # t /\ request[v].task \in TaskIds
    BY <1>1, <2>1, TaskOf
  <2> QED
    BY <1>3, <2>1, <2>2 DEF TaskInv, TaskNew
<1>12. TaskSnapshots'
  <2> SUFFICES ASSUME NEW v \in TaskWorkers, Writing(v), ~request'[v].overtaken PROVE Shown(v)'
    BY <1>7 DEF TaskSnapshots
  <2>0. PICK r, q, out : r = request[v] /\ q = request'[v] /\ out = r.unseen
    OBVIOUS
  <2>1. r.kind # "idle" /\ r.task \in TaskIds /\ r.task # t
    BY <1>1, <2>0, TaskOf DEF Writing
  <2>2. /\ q.task = r.task /\ q.snapshot = r.snapshot /\ q.unseen = out \cup {t} /\ ~r.overtaken
        /\ Leaves(task, q) = Leaves(task, r) /\ q \in TaskOp
    BY <1>4, <2>0, <2>1
  <2>3. Leaves(task', q) = Leaves(task, q)
    BY <1>3, <2>1, <2>2 DEF Leaves
  <2>4. PICK y : y = Written(v) /\ y = Written(v)'
    BY <2>0, <2>2, <2>3, WrittenLeaves
  <2> DEFINE a == [task EXCEPT ![r.task] = y]
             b == [task' EXCEPT ![r.task] = y]
  <2>5. Leaving(v) = a /\ Leaving(v)' = b
    BY <2>0, <2>2, <2>4 DEF Leaving
  <2>6. \A u \in TaskIds : /\ a[u] = IF u = r.task THEN y ELSE task[u]
                           /\ b[u] = IF u = r.task THEN y ELSE task'[u]
    BY <1>3 DEF Tables
  <2> HIDE DEF a, b
  <2>7. Seen(b, out \cup {t}) = Seen(a, out)
    <3>1. \A u \in TaskIds : (IF u \in out \cup {t} THEN Nothing ELSE b[u]) = (IF u \in out THEN Nothing ELSE a[u])
      BY <1>1, <1>3, <2>1, <2>6
    <3> QED
      BY <3>1 DEF Seen
  <2>8. r.snapshot = Earliest(Seen(a, out))
    BY <2>0, <2>2, <2>5 DEF TaskInv, TaskSnapshots, Shown
  <2> QED
    BY <2>0, <2>2, <2>5, <2>7, <2>8 DEF Shown
<1>13. TaskTicks'
  BY <1>1, <1>2, <1>3 DEF TaskInv, TaskTicks, TaskTypes
<1>14. NextTaskAgrees'
  <2>1. Seen(task', unasked') = Seen(task, unasked)
    <3>1. \A u \in TaskIds : (IF u \in unasked' THEN Nothing ELSE task'[u]) = (IF u \in unasked THEN Nothing ELSE task[u])
      BY <1>1, <1>3
    <3> QED
      BY <3>1 DEF Seen
  <2>2. crossed \/ nextTask = Earliest(Seen(task, unasked))
    BY DEF TaskInv, NextTaskAgrees, Seen
  <2>3. crossed \/ nextTask' = Earliest(Seen(task', unasked'))
    BY <1>1, <2>1, <2>2
  <2> QED
    BY <1>1, <2>3 DEF NextTaskAgrees, Seen
<1> QED
  BY <1>8, <1>9, <1>10, <1>11, <1>12, <1>13, <1>14 DEF TaskInv

LEMMA TaskHandsOver ==
  ASSUME TasksAssumption, TaskInv, NEW from \in Staff, NEW to \in Staff, HandOver(from, to)
  PROVE  TaskInv'
<1> DEFINE moving == {t \in TaskIds : task[t] # Nothing /\ task[t].owner = from /\ task[t].status \in Open}
<1>1. /\ task' = [t \in TaskIds |-> IF t \in moving THEN [task[t] EXCEPT !.owner = to] ELSE task[t]]
      /\ requests < MaxRequests /\ requests' = requests + 1
      /\ \A w \in TaskWorkers : ~Writing(w)
      /\ UNCHANGED <<nextTask, request, tick, now, told, rearmed, asleep, unasked, crossed>>
  BY DEF HandOver
<1>2. ASSUME NEW t \in TaskIds, task[t] # Nothing
      PROVE  /\ task'[t] \in TaskRow /\ task'[t] # Nothing /\ task'[t].status = task[t].status
             /\ task'[t].plan = task[t].plan /\ task'[t].sent = task[t].sent
  <2>1. PICK y \in TaskRow : y = task[t]
    BY <1>2 DEF TaskInv, TaskTypes, Tables
  <2>2. LET z == [y EXCEPT !.owner = to] IN
        z \in TaskRow /\ z.status = y.status /\ z.plan = y.plan /\ z.sent = y.sent
    BY DEF TaskRow
  <2>3. task'[t] = y \/ task'[t] = [y EXCEPT !.owner = to]
    BY <1>1, <2>1
  <2> QED
    BY <2>1, <2>2, <2>3 DEF TasksAssumption
<1>3. \A t \in TaskIds : task[t] = Nothing => task'[t] = Nothing
  BY <1>1
<1>4. task' \in Tables
  <2>1. \A t \in TaskIds : task'[t] \in TaskRow \cup {Nothing}
    BY <1>2, <1>3
  <2>2. task' = [t \in TaskIds |-> task'[t]]
    BY <1>1
  <2> QED
    BY <2>1, <2>2 DEF Tables
<1>5. TaskRequests' /\ TaskNew' /\ TaskSnapshots'
      /\ Earliest(Seen(task', unasked)) = Earliest(Seen(task, unasked))
  <2>1. \A t \in TaskIds : task[t] # Nothing <=> task'[t] # Nothing
    BY <1>2, <1>3
  <2> QED
    BY <1>1, <1>2, <1>4, <2>1, TaskRowsKept
<1>6. TaskTypes'
  BY <1>1, <1>4 DEF TaskInv, TaskTypes, TasksAssumption
<1>7. TaskRows'
  BY <1>1, <1>2, <1>3 DEF TaskInv, TaskRows, Said, Awake
<1>8. TaskTicks'
  <2>1. \A j \in Tickers : \A x \in tick[j] : x.task \in TaskIds /\ task[x.task] # Nothing
    BY DEF TaskInv, TaskTicks, TaskTypes
  <2> QED
    BY <1>1, <1>2, <2>1 DEF TaskTicks
<1>9. NextTaskAgrees'
  BY <1>1, <1>5 DEF TaskInv, NextTaskAgrees, Seen
<1> QED
  BY <1>5, <1>6, <1>7, <1>8, <1>9 DEF TaskInv

(* A mark on a row nobody holds; told may have been counted.               *)
LEMMA TaskMarked ==
  ASSUME TasksAssumption, TaskInv, NEW t \in TaskIds, task[t] # Nothing, ~Held(t), Mark(t),
         NEW n \in {0, 1}, n = 0 \/ ~task[t].sent, told' = [told EXCEPT ![t] = @ + n],
         tick' \in [Tickers -> SUBSET [task : TaskIds, late : BOOLEAN]],
         \A j \in Tickers : tick'[j] \subseteq tick[j],
         UNCHANGED <<nextTask, request, now, requests, rearmed, asleep, unasked, crossed>>
  PROVE  TaskInv'
<1>1. PICK y \in TaskRow : y = task[t]
  BY DEF TaskInv, TaskTypes, Tables
<1>2. PICK z : z = [y EXCEPT !.sent = TRUE]
  OBVIOUS
<1>3. z \in TaskRow /\ z # Nothing /\ z.status = y.status /\ z.plan = y.plan /\ z.sent = TRUE
  BY <1>2 DEF TaskRow, TasksAssumption
<1>4. task' = [task EXCEPT ![t] = z]
  BY <1>1, <1>2 DEF Mark
<1>5. \A u \in TaskIds : task'[u] = IF u = t THEN z ELSE task[u]
  BY <1>4 DEF TaskInv, TaskTypes, Tables
<1>6. task' \in Tables
  BY <1>3, <1>4 DEF TaskInv, TaskTypes, Tables
<1>7. TaskRequests' /\ TaskNew' /\ TaskSnapshots'
      /\ Earliest(Seen(task', unasked)) = Earliest(Seen(task, unasked))
  <2>1. \A w \in TaskWorkers : Writing(w) => request[w].task \in TaskIds /\ request[w].task # t
    BY TaskOf DEF Held, Writing
  <2>2. \A w \in TaskWorkers : Writing(w) => task'[request[w].task] = task[request[w].task]
    BY <1>5, <2>1
  <2>3. \A u \in TaskIds : task[u] # Nothing <=> task'[u] # Nothing
    BY <1>1, <1>3, <1>5
  <2>4. \A u \in TaskIds : task[u] # Nothing =>
           task'[u].status = task[u].status /\ task'[u].plan = task[u].plan
    BY <1>1, <1>3, <1>5
  <2> QED
    BY <1>6, <2>2, <2>3, <2>4, TaskRowsKept
<1>8. TaskTypes'
  BY <1>6 DEF TaskInv, TaskTypes
<1>9. TaskRows'
  <2> SUFFICES ASSUME NEW u \in TaskIds
      PROVE  /\ told'[u] <= rearmed'[u] + (IF task'[u] # Nothing /\ task'[u].sent THEN 1 ELSE 0)
             /\ task'[u] # Nothing => Said(task'[u].plan) /\ (u \notin asleep' => Awake(task'[u].plan))
    BY DEF TaskRows, Said, Awake
  <2>1. told'[u] = (IF u = t THEN told[u] + n ELSE told[u]) /\ told[u] \in Nat /\ rearmed[u] \in Nat
    BY DEF TaskInv, TaskTypes
  <2>2. told[u] <= rearmed[u] + (IF task[u] # Nothing /\ task[u].sent THEN 1 ELSE 0)
    BY DEF TaskInv, TaskRows
  <2>3. told'[u] <= rearmed'[u] + (IF task'[u] # Nothing /\ task'[u].sent THEN 1 ELSE 0)
    BY <1>1, <1>3, <1>5, <2>1, <2>2
  <2>4. task'[u] # Nothing => Said(task'[u].plan) /\ (u \notin asleep' => Awake(task'[u].plan))
    BY <1>1, <1>3, <1>5 DEF TaskInv, TaskRows
  <2> QED
    BY <2>3, <2>4
<1>10. TaskTicks'
  BY <1>3, <1>5 DEF TaskInv, TaskTicks, TaskTypes
<1>11. NextTaskAgrees'
  BY <1>7 DEF TaskInv, NextTaskAgrees, Seen
<1> QED
  BY <1>7, <1>8, <1>9, <1>10, <1>11 DEF TaskInv

LEMMA TaskStill ==
  ASSUME TaskInv, UNCHANGED <<task, nextTask, request, told, rearmed, asleep, unasked, crossed>>
  PROVE  TaskRows' /\ TaskRequests' /\ TaskNew' /\ TaskSnapshots' /\ NextTaskAgrees'
<1>1. TaskRows' /\ TaskRequests' /\ TaskNew'
  BY DEF TaskInv, TaskRows, TaskRequests, TaskNew, TaskStands, Said, Awake, Writing
<1>2. \A w \in TaskWorkers : Leaving(w)' = Leaving(w)
  <2> SUFFICES ASSUME NEW w \in TaskWorkers PROVE Leaving(w)' = Leaving(w)
    OBVIOUS
  <2>1. Written(w)' = Written(w)
    BY WrittenLeaves
  <2> QED
    BY <2>1 DEF Leaving
<1>3. TaskSnapshots'
  <2>1. \A w \in TaskWorkers : Shown(w) => Shown(w)'
    BY <1>2 DEF Shown
  <2> QED
    BY <2>1 DEF TaskInv, TaskSnapshots, Writing
<1>4. NextTaskAgrees'
  BY DEF TaskInv, NextTaskAgrees
<1> QED
  BY <1>1, <1>3, <1>4

LEMMA TaskTicking ==
  ASSUME TasksAssumption, TaskInv, NEW j \in Tickers,
         Select(j) \/ \E x \in tick[j] : Drop(j, x) \/ Claim(j, x)
  PROVE  TaskInv'
<1>1. CASE Select(j)
  <2> DEFINE due == {[task |-> t, late |-> PastGrace(task[t].plan.remind)] : t \in {u \in TaskIds : Due(u)}}
  <2>1. /\ tick' = [tick EXCEPT ![j] = due]
        /\ UNCHANGED <<task, nextTask, request, now, requests, told, rearmed, asleep, unasked, crossed>>
    BY <1>1 DEF Select
  <2>2. due \in SUBSET [task : TaskIds, late : BOOLEAN]
    <3>1. \A t \in TaskIds : PastGrace(task[t].plan.remind) \in BOOLEAN
      BY DEF PastGrace
    <3> QED
      BY <3>1
  <2>3. \A x \in due : task[x.task] # Nothing
    BY DEF Due
  <2> HIDE DEF due
  <2>4. TaskTypes'
    BY <2>1, <2>2 DEF TaskInv, TaskTypes
  <2>5. TaskTicks'
    BY <2>1, <2>3 DEF TaskInv, TaskTypes, TaskTicks
  <2>6. TaskRows' /\ TaskRequests' /\ TaskNew' /\ TaskSnapshots' /\ NextTaskAgrees'
    BY <2>1, TaskStill
  <2> QED
    BY <2>4, <2>5, <2>6 DEF TaskInv
<1>2. ASSUME NEW x \in tick[j], Drop(j, x) PROVE TaskInv'
  <2>1. x.task \in TaskIds /\ task[x.task] # Nothing
    BY DEF TaskInv, TaskTypes, TaskTicks
  <2>2. Treated(j, x) /\ Mark(x.task) /\ ~Held(x.task)
        /\ UNCHANGED <<nextTask, request, now, requests, told, rearmed, asleep, unasked, crossed>>
    BY <1>2 DEF Drop
  <2>3. told' = [told EXCEPT ![x.task] = @ + 0]
    BY <2>1, <2>2 DEF TaskInv, TaskTypes
  <2>4. tick' \in [Tickers -> SUBSET [task : TaskIds, late : BOOLEAN]] /\ \A i \in Tickers : tick'[i] \subseteq tick[i]
    BY <2>2 DEF Treated, TaskInv, TaskTypes
  <2> QED
    BY <2>1, <2>2, <2>3, <2>4, TaskMarked
<1>3. ASSUME NEW x \in tick[j], Claim(j, x) PROVE TaskInv'
  <2>1. x.task \in TaskIds /\ task[x.task] # Nothing
    BY DEF TaskInv, TaskTypes, TaskTicks
  <2>2. Treated(j, x) /\ ~Held(x.task)
        /\ UNCHANGED <<nextTask, request, now, requests, rearmed, asleep, unasked, crossed>>
    BY <1>3 DEF Claim
  <2>3. tick' \in [Tickers -> SUBSET [task : TaskIds, late : BOOLEAN]] /\ \A i \in Tickers : tick'[i] \subseteq tick[i]
    BY <2>2 DEF Treated, TaskInv, TaskTypes
  <2>4. CASE Unmarked(x.task)
    <3>1. Mark(x.task) /\ told' = [told EXCEPT ![x.task] = @ + 1] /\ ~task[x.task].sent
      BY <1>3, <2>4 DEF Claim, Unmarked
    <3> QED
      BY <2>1, <2>2, <2>3, <3>1, TaskMarked
  <2>5. CASE ~Unmarked(x.task)
    <3>1. UNCHANGED <<task, told>>
      BY <1>3, <2>5 DEF Claim
    <3>2. TaskTypes' /\ TaskTicks'
      BY <2>2, <2>3, <3>1 DEF TaskInv, TaskTypes, TaskTicks
    <3>3. TaskRows' /\ TaskRequests' /\ TaskNew' /\ TaskSnapshots' /\ NextTaskAgrees'
      BY <2>2, <3>1, TaskStill
    <3> QED
      BY <3>2, <3>3 DEF TaskInv
  <2> QED
    BY <2>4, <2>5
<1> QED
  BY <1>1, <1>2, <1>3

LEMMA TaskStep ==
  ASSUME TasksAssumption, TaskInv, [Next]_taskVars PROVE TaskInv'
<1>1. CASE Exit
  <2>1. /\ request' = [w \in TaskWorkers |-> Resting] /\ tick' = [j \in Tickers |-> {}]
        /\ UNCHANGED <<task, nextTask, now, requests, told, rearmed, asleep, unasked, crossed>>
    BY <1>1 DEF Exit
  <2>2. TaskTypes' /\ TaskTicks'
    BY <2>1 DEF TaskInv, TaskTypes, TaskTicks
  <2>3. \A w \in TaskWorkers : request'[w].kind = "idle"
    BY <2>1 DEF Resting
  <2>4. TaskRequests' /\ TaskNew' /\ TaskSnapshots'
    BY <2>3 DEF TaskRequests, TaskNew, TaskSnapshots, Writing
  <2>5. TaskRows' /\ NextTaskAgrees'
    BY <2>1 DEF TaskInv, TaskRows, Said, Awake, NextTaskAgrees
  <2> QED
    BY <2>2, <2>4, <2>5 DEF TaskInv
<1>2. CASE Clock
  <2>1. now < Horizon /\ now' = now + 1
        /\ UNCHANGED <<task, nextTask, request, tick, requests, told, rearmed, asleep, unasked, crossed>>
    BY <1>2 DEF Clock
  <2>2. TaskTypes' /\ TaskTicks'
    BY <2>1 DEF TaskInv, TaskTypes, TaskTicks, TasksAssumption
  <2> QED
    BY <2>1, <2>2, TaskStill DEF TaskInv
<1>3. CASE UNCHANGED taskVars
  <2>1. UNCHANGED <<task, nextTask, request, tick, now, requests, told, rearmed, asleep, unasked, crossed>>
    BY <1>3 DEF taskVars
  <2>2. TaskTypes' /\ TaskTicks'
    BY <2>1 DEF TaskInv, TaskTypes, TaskTicks
  <2> QED
    BY <2>1, <2>2, TaskStill DEF TaskInv
<1> QED
  BY <1>1, <1>2, <1>3, TaskAsks, TaskWrites, TaskCommits, TaskAutomates, TaskHandsOver,
     TaskTicking DEF Next

LEMMA TaskKept ==
  ASSUME TaskInv
  PROVE  TypeOK /\ RemindedOncePerSetting /\ ReminderStands /\ NextTaskAgrees
<1>1. TypeOK
  <2>1. \A w \in TaskWorkers : request[w].kind \in {"idle", "asked", "written"}
    <3>1. \A r \in TaskOp : r.kind \in {"asked", "written"}
      BY DEF TaskOp, CreateOp, MoveOp, StatusOp
    <3>2. Resting.kind = "idle"
      BY DEF Resting
    <3> QED
      BY <3>1, <3>2 DEF TaskInv, TaskTypes
  <2> QED
    BY <2>1 DEF TaskInv, TaskTypes, TaskRows, Tables, Said, TypeOK
<1>2. RemindedOncePerSetting
  <2> SUFFICES ASSUME NEW t \in TaskIds PROVE told[t] <= 1 + rearmed[t]
    BY DEF RemindedOncePerSetting
  <2>1. told[t] \in Nat /\ rearmed[t] \in Nat
    BY DEF TaskInv, TaskTypes
  <2> QED
    BY <2>1 DEF TaskInv, TaskRows
<1>3. ReminderStands
  BY DEF TaskInv, TaskRows, Awake, ReminderStands
<1> QED
  BY <1>1, <1>2, <1>3 DEF TaskInv

-----------------------------------------------------------------------------
(* The chats.                                                              *)

(* What a request under way carries.                                       *)
SendOp == [kind : {"send"}, by : People, conv : Talk!Conversations, msg : Messages, file : BOOLEAN]
WritingOp ==
  [kind : {"writing"}, by : People, conv : Talk!Conversations, msg : Messages, file : BOOLEAN,
   at : Nat, shown : SUBSET Messages]
TellOp == [kind : {"tell"}, by : People, conv : Talk!Conversations, msg : Messages]
RingOp ==
  [kind : {"ring"}, by : People, conv : Talk!Conversations, msg : Messages, left : SUBSET People]
AmendOp == [kind : {"edit", "delete"}, by : People, msg : Messages, file : BOOLEAN]
RemoveOp == [kind : {"remove"}, msg : Messages, file : BOOLEAN]
PhotoOp == [kind : {"photo"}, new : Pictures \cup {Nobody}, old : Pictures \cup {Nobody}]
LeaveOp == [kind : {"leave"}, by : People, conv : {Group}, alone : BOOLEAN]
TalkOps ==
  SendOp \cup WritingOp \cup TellOp \cup RingOp \cup AmendOp \cup RemoveOp \cup PhotoOp
    \cup LeaveOp \cup {Talk!NoRequest}

TalkTypes ==
  /\ active \subseteq People /\ admins \subseteq People /\ tabs \subseteq People
  /\ chat \in [Talk!Conversations -> Talk!ChatRow \cup {Nobody}]
  /\ member \in [Talk!Conversations -> [People -> Talk!MemberRow \cup {Nobody}]]
  /\ message \in [Messages -> Talk!MessageRow \cup {Nobody}]
  /\ objects \subseteq Messages /\ photo \in Pictures \cup {Nobody}
  /\ pictures \in [Pictures -> {"unwritten", "stored", "removed"}]
  /\ bell \in [Talk!Conversations -> SUBSET People]
  /\ asked \in [Requests -> TalkOps]
  /\ clock \in Nat /\ count \in 0..MaxAsked
  /\ seen \in [People -> SUBSET Messages] /\ blurred \subseteq People \X Messages
  /\ served \in [Messages -> SUBSET People] /\ stranded \in BOOLEAN

(* Who may be in which conversation.                                       *)
TalkRooms ==
  /\ chat[Community] # Nobody
  /\ \A c \in Talk!Conversations :
       /\ chat[c] = Nobody => Talk!Members(c) = {}
       /\ c \notin Talk!Rooms => Talk!Members(c) \in {{}, c}

(* Marks and times are of the past, and what was seen is of threads one is *)
(* in.                                                                     *)
TalkReads ==
  /\ \A c \in Talk!Conversations, u \in People : Talk!IsMember(u, c) => member[c][u].read <= clock
  /\ \A m \in Messages : message[m] # Nobody => message[m].at \in 1..clock
  /\ \A u \in People : \A m \in seen[u] : message[m] # Nobody /\ Talk!IsMember(u, message[m].conv)
  /\ Talk!UnreadIsWhatWasNotSeen

(* A message about to be committed is later than the marks of the others,  *)
(* or has been noted as blurred.                                           *)
WritesIn(q) ==
  /\ q.at \in 1..clock /\ \A m \in q.shown : Talk!In(q.conv, m)
  /\ \A u \in People : Talk!IsMember(u, q.conv) /\ q.at <= member[q.conv][u].read => <<u, q.msg>> \in blurred

Sends(q) == message[q.msg] = Nobody /\ (q.file => q.msg \in objects)

(* Who is still to be rung, or has the message.                            *)
Rings(q) ==
  /\ Talk!Members(q.conv) \subseteq served[q.msg] \cup q.left
  /\ \A u \in q.left \cap tabs : Talk!IsMember(u, q.conv) => u \in served[q.msg]

GoesWell(q) ==
  /\ chat[Group] # Nobody
  /\ q.alone /\ Talk!Live(Group) /\ ~stranded => Talk!AdminsIn(Group) \ {q.by} # {}

Pictured(q) ==
  /\ q.old # Nobody => pictures[q.old] # "unwritten"
  /\ q.new # Nobody => pictures[q.new] = "stored" /\ q.new # photo /\ q.new # q.old

TalkStands(q) ==
  /\ q.kind \in {"send", "writing"} => Sends(q)
  /\ q.kind = "writing" => WritesIn(q)
  /\ q.kind \in {"tell", "ring"} => message[q.msg] # Nobody /\ message[q.msg].conv = q.conv
  /\ q.kind = "ring" => Rings(q)
  /\ q.kind \in {"edit", "delete"} => message[q.msg] # Nobody
  /\ q.kind = "remove" => message[q.msg] # Nobody /\ ~message[q.msg].file
  /\ q.kind = "photo" => Pictured(q)
  /\ q.kind = "leave" => GoesWell(q)

(* Two requests never write the same message or store the same picture.    *)
Apart(p, q) ==
  /\ p.kind \in {"send", "writing"} /\ q.kind \in {"send", "writing"} => p.msg # q.msg
  /\ p.kind = "photo" /\ q.kind = "photo" /\ p.new # Nobody => p.new # q.new /\ p.new # q.old

TalkAsked ==
  /\ \A r \in Requests : TalkStands(asked[r])
  /\ \A r, s \in Requests : r # s => Apart(asked[r], asked[s])

TalkFiles ==
  /\ Talk!FilesAreThere
  /\ photo # Nobody => pictures[photo] = "stored"

TalkInv ==
  /\ TalkTypes /\ TalkRooms /\ TalkReads /\ TalkAsked /\ TalkFiles
  /\ Talk!NobodyIsPassedOver /\ Talk!GroupsKeepAnAdmin

LEMMA TalkAtInit == ASSUME Talk!ChatsAssumption, Talk!Init PROVE TalkInv
<1>1. Nobody # Talk!Row /\ Talk!Row \in Talk!MemberRow
  <2>1. Talk!Row \in Talk!MemberRow
    BY DEF Talk!Row, Talk!MemberRow
  <2> QED
    BY <2>1 DEF Talk!ChatsAssumption
<1>2. chat[Community] \in Talk!ChatRow /\ chat[Group] = Nobody /\ chat[Community] # Nobody
  <2>1. [archived |-> FALSE, everyone |-> FALSE] \in Talk!ChatRow
    BY DEF Talk!ChatRow
  <2>2. Community \in Talk!Conversations /\ Group \in Talk!Conversations /\ Community # Group
    BY DEF Talk!Conversations, Talk!Rooms, Talk!ChatsAssumption
  <2>3. chat[Community] = [archived |-> FALSE, everyone |-> FALSE] /\ chat[Group] = Nobody
    BY <2>2 DEF Talk!Init
  <2> QED
    BY <2>1, <2>3 DEF Talk!ChatsAssumption
<1>3. \A c \in Talk!Conversations : c # Community => chat[c] = Nobody /\ Talk!Members(c) = {}
  BY DEF Talk!Init, Talk!Members, Talk!IsMember
<1>4. TalkTypes
  <2>1. chat \in [Talk!Conversations -> Talk!ChatRow \cup {Nobody}]
    <3>1. \A c \in Talk!Conversations : chat[c] \in Talk!ChatRow \cup {Nobody}
      BY <1>2, <1>3
    <3> QED
      BY <3>1 DEF Talk!Init
  <2>2. member \in [Talk!Conversations -> [People -> Talk!MemberRow \cup {Nobody}]]
    BY <1>1 DEF Talk!Init
  <2>3. asked \in [Requests -> TalkOps]
    BY DEF Talk!Init, TalkOps
  <2>4. clock \in Nat /\ count \in 0..MaxAsked
    BY DEF Talk!ChatsAssumption, Talk!Init
  <2>5. seen \in [People -> SUBSET Messages] /\ served \in [Messages -> SUBSET People]
        /\ bell \in [Talk!Conversations -> SUBSET People] /\ blurred \subseteq People \X Messages
    BY DEF Talk!Init
  <2>6. /\ active \subseteq People /\ admins \subseteq People /\ tabs \subseteq People
        /\ message \in [Messages -> Talk!MessageRow \cup {Nobody}]
        /\ objects \subseteq Messages /\ photo \in Pictures \cup {Nobody}
        /\ pictures \in [Pictures -> {"unwritten", "stored", "removed"}] /\ stranded \in BOOLEAN
    BY DEF Talk!Init
  <2> QED
    BY <2>1, <2>2, <2>3, <2>4, <2>5, <2>6 DEF TalkTypes
<1>5. TalkRooms
  BY <1>2, <1>3 DEF TalkRooms, Talk!Rooms
<1>6. TalkReads
  BY DEF Talk!Init, TalkReads, Talk!UnreadIsWhatWasNotSeen, Talk!IsMember, Talk!Row
<1>7. TalkAsked
  <2>1. \A r \in Requests : asked[r].kind = "idle"
    BY DEF Talk!Init, Talk!NoRequest
  <2> QED
    BY <2>1 DEF TalkAsked, TalkStands, Apart
<1>8. TalkFiles /\ Talk!NobodyIsPassedOver /\ Talk!GroupsKeepAnAdmin
  BY <1>2 DEF Talk!Init, TalkFiles, Talk!FilesAreThere, Talk!NobodyIsPassedOver,
    Talk!GroupsKeepAnAdmin, Talk!Live
<1> QED
  BY <1>4, <1>5, <1>6, <1>7, <1>8 DEF TalkInv

LEMMA TalkOp ==
  ASSUME NEW q \in TalkOps
  PROVE  /\ q.kind \in {"idle", "send", "writing", "tell", "ring", "edit", "delete", "remove",
                        "photo", "leave"}
         /\ q.kind = "send" => q \in SendOp
         /\ q.kind = "writing" => q \in WritingOp
         /\ q.kind = "tell" => q \in TellOp
         /\ q.kind = "ring" => q \in RingOp
         /\ q.kind \in {"edit", "delete"} => q \in AmendOp
         /\ q.kind = "remove" => q \in RemoveOp
         /\ q.kind = "photo" => q \in PhotoOp
         /\ q.kind = "leave" => q \in LeaveOp
         /\ q.kind = "idle" => q = Talk!NoRequest
  BY DEF TalkOps, SendOp, WritingOp, TellOp, RingOp, AmendOp, RemoveOp, PhotoOp,
    LeaveOp, Talk!NoRequest

(* A request goes on: nothing else changes, but that time may pass and     *)
(* files may be put into storage.                                          *)
LEMMA TalkGoes ==
  ASSUME TalkInv, NEW r \in Requests, NEW op \in TalkOps, asked' = [asked EXCEPT ![r] = op],
         UNCHANGED <<active, admins, chat, member, message, photo, pictures, tabs, bell, seen, blurred,
                     served, stranded>>,
         clock' \in Nat, clock <= clock', objects \subseteq objects', objects' \subseteq Messages,
         count' \in 0..MaxAsked,
         TalkStands(op)',
         \A s \in Requests \ {r} : Apart(asked[s], op) /\ Apart(op, asked[s]),
         asked[r].kind \in {"tell", "ring"} =>
           (op.kind = "ring" /\ op.msg = asked[r].msg)
             \/ Talk!Members(message[asked[r].msg].conv) \subseteq served[asked[r].msg]
  PROVE  TalkInv'
<1>1. \A s \in Requests : asked'[s] = IF s = r THEN op ELSE asked[s]
  BY DEF TalkInv, TalkTypes
<1>2. TalkTypes'
  BY DEF TalkInv, TalkTypes
<1>3. TalkRooms'
  BY DEF TalkInv, TalkRooms, Talk!Members, Talk!IsMember
<1>4. clock \in Nat
  BY DEF TalkInv, TalkTypes
<1>5. TalkReads'
  <2>1. \A c \in Talk!Conversations, u \in People : Talk!IsMember(u, c)' => member'[c][u].read <= clock'
    <3> SUFFICES ASSUME NEW c \in Talk!Conversations, NEW u \in People, Talk!IsMember(u, c)'
                 PROVE  member'[c][u].read <= clock'
      OBVIOUS
    <3>1. member[c][u] \in Talk!MemberRow /\ member[c][u].read \in Nat /\ member[c][u].read <= clock
      BY DEF Talk!IsMember, TalkInv, TalkTypes, TalkReads, Talk!MemberRow
    <3> QED
      BY <1>4, <3>1
  <2>2. \A m \in Messages : message'[m] # Nobody => message'[m].at \in 1..clock'
    BY <1>4 DEF TalkInv, TalkReads
  <2>3. \A u \in People : \A m \in seen'[u] : message'[m] # Nobody /\ Talk!IsMember(u, message[m].conv)'
    BY DEF TalkInv, TalkReads, Talk!IsMember
  <2>4. Talk!UnreadIsWhatWasNotSeen'
    BY DEF TalkInv, TalkReads, Talk!UnreadIsWhatWasNotSeen, Talk!IsMember, Talk!Unread
  <2> QED
    BY <2>1, <2>2, <2>3, <2>4 DEF TalkReads
<1>6. ASSUME NEW q, TalkStands(q) PROVE TalkStands(q)'
  <2>1. Sends(q) => Sends(q)'
    BY DEF Sends
  <2>2. WritesIn(q) => WritesIn(q)'
    BY <1>4 DEF WritesIn, Talk!In, Talk!IsMember
  <2>3. Rings(q) => Rings(q)'
    BY DEF Rings, Talk!Members, Talk!IsMember
  <2>4. GoesWell(q) => GoesWell(q)'
    BY DEF GoesWell, Talk!AdminsIn, Talk!Members, Talk!IsMember, Talk!Live
  <2>5. Pictured(q) => Pictured(q)'
    BY DEF Pictured
  <2> QED
    BY <1>6, <2>1, <2>2, <2>3, <2>4, <2>5 DEF TalkStands
<1>7. TalkAsked'
  <2>1. ASSUME NEW s \in Requests PROVE TalkStands(asked[s])'
    <3>1. PICK y : y = asked'[s]
      OBVIOUS
    <3>2. TalkStands(y)'
      BY <1>1, <1>6, <2>1, <3>1 DEF TalkInv, TalkAsked
    <3> QED
      BY <3>1, <3>2 DEF TalkStands, Sends, WritesIn, Rings, GoesWell, Pictured
  <2>2. \A s, t \in Requests : s # t => Apart(asked'[s], asked'[t])
    BY <1>1 DEF TalkInv, TalkAsked
  <2>3. \A s, t \in Requests : s # t => Apart(asked[s], asked[t])'
    BY <2>2 DEF Apart
  <2> QED
    BY <2>1, <2>3 DEF TalkAsked
<1>8. TalkFiles'
  BY DEF TalkInv, TalkFiles, Talk!FilesAreThere
<1>9. Talk!NobodyIsPassedOver'
  BY <1>1 DEF TalkInv, Talk!NobodyIsPassedOver, Talk!Members, Talk!IsMember
<1>10. Talk!GroupsKeepAnAdmin'
  BY DEF TalkInv, Talk!GroupsKeepAnAdmin, Talk!AdminsIn, Talk!Members, Talk!IsMember,
    Talk!Live
<1> QED
  BY <1>2, <1>3, <1>5, <1>7, <1>8, <1>9, <1>10 DEF TalkInv

(* What the rest of the system sees of two requests that change a picture. *)
TalkQuiet ==
  UNCHANGED <<active, admins, chat, member, message, objects, tabs, bell, clock, seen, blurred, served,
              stranded>>

LEMMA TalkPhoto ==
  ASSUME TalkInv, NEW r \in Requests, NEW op \in TalkOps, asked' = [asked EXCEPT ![r] = op],
         TalkQuiet, count' \in 0..MaxAsked, photo' \in Pictures \cup {Nobody},
         pictures' \in [Pictures -> {"unwritten", "stored", "removed"}],
         photo' # Nobody => pictures'[photo'] = "stored",
         op.kind \in {"idle", "photo"}, asked[r].kind \in {"idle", "photo"},
         op.kind = "photo" => Pictured(op)',
         \A s \in Requests \ {r} : asked[s].kind = "photo" => Pictured(asked[s])',
         \A s \in Requests \ {r} : Apart(asked[s], op) /\ Apart(op, asked[s])
  PROVE  TalkInv'
<1>1. \A s \in Requests : asked'[s] = IF s = r THEN op ELSE asked[s]
  BY DEF TalkInv, TalkTypes
<1>2. TalkTypes'
  BY DEF TalkInv, TalkTypes, TalkQuiet
<1>3. TalkRooms'
  BY DEF TalkInv, TalkRooms, Talk!Members, Talk!IsMember, TalkQuiet
<1>4. TalkReads'
  BY DEF TalkInv, TalkReads, Talk!UnreadIsWhatWasNotSeen, Talk!IsMember, Talk!Unread,
    TalkQuiet
<1>5. ASSUME NEW q, TalkStands(q), q.kind = "photo" => Pictured(q)' PROVE TalkStands(q)'
  <2>1. Sends(q) => Sends(q)'
    BY DEF Sends, TalkQuiet
  <2>2. WritesIn(q) => WritesIn(q)'
    BY DEF WritesIn, Talk!In, Talk!IsMember, TalkQuiet
  <2>3. Rings(q) => Rings(q)'
    BY DEF Rings, Talk!Members, Talk!IsMember, TalkQuiet
  <2>4. GoesWell(q) => GoesWell(q)'
    BY DEF GoesWell, Talk!AdminsIn, Talk!Members, Talk!IsMember, Talk!Live, TalkQuiet
  <2>5. UNCHANGED message
    BY DEF TalkQuiet
  <2> QED
    BY <1>5, <2>1, <2>2, <2>3, <2>4, <2>5 DEF TalkStands
<1>6. TalkAsked'
  <2>1. ASSUME NEW s \in Requests PROVE TalkStands(asked[s])'
    <3>1. PICK y : y = asked'[s]
      OBVIOUS
    <3>2. CASE s = r
      <4>1. TalkStands(y)'
        BY <1>1, <3>1, <3>2 DEF TalkStands
      <4> QED
        BY <3>1, <4>1 DEF TalkStands, Sends, WritesIn, Rings, GoesWell, Pictured
    <3>3. CASE s # r
      <4>1. y = asked[s] /\ TalkStands(y)
        BY <1>1, <3>1, <3>3 DEF TalkInv, TalkAsked
      <4>2. y.kind = "photo" => Pictured(y)'
        BY <1>1, <3>1, <3>3, <4>1 DEF Pictured
      <4>3. TalkStands(y)'
        BY <1>5, <4>1, <4>2
      <4> QED
        BY <3>1, <4>3 DEF TalkStands, Sends, WritesIn, Rings, GoesWell, Pictured
    <3> QED
      BY <3>2, <3>3
  <2>2. \A s, t \in Requests : s # t => Apart(asked'[s], asked'[t])
    BY <1>1 DEF TalkInv, TalkAsked
  <2>3. \A s, t \in Requests : s # t => Apart(asked[s], asked[t])'
    BY <2>2 DEF Apart
  <2> QED
    BY <2>1, <2>3 DEF TalkAsked
<1>7. TalkFiles'
  BY DEF TalkInv, TalkFiles, Talk!FilesAreThere, TalkQuiet
<1>8. Talk!NobodyIsPassedOver'
  BY <1>1 DEF TalkInv, Talk!NobodyIsPassedOver, Talk!Members, Talk!IsMember, TalkQuiet
<1>9. Talk!GroupsKeepAnAdmin'
  BY DEF TalkInv, Talk!GroupsKeepAnAdmin, Talk!AdminsIn, Talk!Members, Talk!IsMember,
    Talk!Live, TalkQuiet
<1> QED
  BY <1>2, <1>3, <1>4, <1>6, <1>7, <1>8, <1>9 DEF TalkInv

LEMMA TalkPictures ==
  ASSUME Talk!ChatsAssumption, TalkInv, NEW r \in Requests,
         \/ \E u \in People, new \in Pictures \cup {Nobody} : Talk!AskPhoto(r, u, new)
         \/ Talk!WritePhoto(r)
  PROVE  TalkInv'
<1>0. /\ pictures \in [Pictures -> {"unwritten", "stored", "removed"}] /\ Nobody \notin Pictures
      /\ photo \in Pictures \cup {Nobody} /\ (photo # Nobody => pictures[photo] = "stored")
      /\ \A s \in Requests : asked[s] \in TalkOps /\ TalkStands(asked[s])
      /\ \A s, t \in Requests : s # t => Apart(asked[s], asked[t])
  BY DEF Talk!ChatsAssumption, TalkInv, TalkTypes, TalkFiles, TalkAsked
<1>1. ASSUME NEW u \in People, NEW new \in Pictures \cup {Nobody}, Talk!AskPhoto(r, u, new) PROVE TalkInv'
  <2>1. PICK op : op = [kind |-> "photo", new |-> new, old |-> photo]
    OBVIOUS
  <2>2. /\ asked' = [asked EXCEPT ![r] = op] /\ count' = count + 1 /\ count < MaxAsked
        /\ asked[r] = Talk!NoRequest /\ (new # Nobody => pictures[new] = "unwritten")
        /\ pictures' = [p \in Pictures |-> IF p = new THEN "stored" ELSE pictures[p]]
        /\ photo' = photo /\ TalkQuiet
    BY <1>1, <2>1 DEF Talk!AskPhoto, Talk!Ask, Talk!Ready, Talk!ghosts, TalkQuiet
  <2>3. op \in PhotoOp /\ op.kind = "photo" /\ op.new = new /\ op.old = photo
    BY <1>0, <2>1 DEF PhotoOp
  <2>4. \A p \in Pictures : pictures'[p] = IF p = new THEN "stored" ELSE pictures[p]
    BY <2>2
  <2>5. new # Nobody => new \in Pictures /\ new # photo
    BY <1>0, <2>2
  <2>6. Pictured(op)'
    BY <1>0, <2>2, <2>3, <2>4, <2>5 DEF Pictured
  <2>7. ASSUME NEW s \in Requests \ {r}, asked[s].kind = "photo"
        PROVE  Pictured(asked[s])' /\ Apart(asked[s], op) /\ Apart(op, asked[s])
    <3>1. PICK y : y = asked[s]
      OBVIOUS
    <3>2. y \in PhotoOp /\ Pictured(y)
      BY <1>0, <2>7, <3>1, TalkOp DEF TalkStands
    <3>3. y.new # Nobody => y.new \in Pictures /\ y.new # new /\ y.new # photo /\ pictures'[y.new] = "stored"
      BY <2>2, <2>4, <2>5, <3>2 DEF Pictured, PhotoOp
    <3>4. y.old # Nobody => y.old \in Pictures /\ y.old # new /\ pictures'[y.old] # "unwritten"
      BY <2>2, <2>4, <2>5, <3>2 DEF Pictured, PhotoOp
    <3>5. Pictured(y)'
      BY <2>2, <3>2, <3>3, <3>4 DEF Pictured
    <3>6. Apart(y, op) /\ Apart(op, y)
      BY <1>0, <2>3, <2>5, <3>3, <3>4 DEF Apart
    <3>7. asked'[s] = y
      BY <2>2, <3>1 DEF TalkInv, TalkTypes
    <3> QED
      BY <3>1, <3>5, <3>6, <3>7 DEF Pictured
  <2>8. \A s \in Requests \ {r} : Apart(asked[s], op) /\ Apart(op, asked[s])
    BY <2>3, <2>7 DEF Apart
  <2>9. photo' # Nobody => pictures'[photo'] = "stored"
    BY <1>0, <2>2, <2>4
  <2>10. count' \in 0..MaxAsked /\ op \in TalkOps /\ asked[r].kind = "idle"
         /\ pictures' \in [Pictures -> {"unwritten", "stored", "removed"}]
    <3>1. count' \in 0..MaxAsked
      BY <2>2 DEF Talk!ChatsAssumption, TalkInv, TalkTypes
    <3>2. pictures' \in [Pictures -> {"unwritten", "stored", "removed"}]
      BY <1>0, <2>2
    <3> QED
      BY <2>2, <2>3, <3>1, <3>2 DEF TalkOps, Talk!NoRequest
  <2> QED
    BY <1>0, <2>2, <2>3, <2>6, <2>7, <2>8, <2>9, <2>10, TalkPhoto
<1>2. CASE Talk!WritePhoto(r)
  <2>1. PICK op : op = asked[r]
    OBVIOUS
  <2>2. op \in PhotoOp /\ op.kind = "photo" /\ Pictured(op)
    BY <1>0, <1>2, <2>1, TalkOp DEF Talk!WritePhoto, TalkStands
  <2>3. /\ asked' = [asked EXCEPT ![r] = Talk!NoRequest] /\ photo' = op.new
        /\ pictures' = [p \in Pictures |-> IF p = op.old THEN "removed" ELSE pictures[p]]
        /\ TalkQuiet /\ UNCHANGED count
    BY <1>2, <2>1 DEF Talk!WritePhoto, Talk!Answer, Talk!ghosts, TalkQuiet
  <2>4. \A p \in Pictures : pictures'[p] = IF p = op.old THEN "removed" ELSE pictures[p]
    BY <2>3
  <2>5. photo' \in Pictures \cup {Nobody} /\ (photo' # Nobody => pictures'[photo'] = "stored")
    BY <2>2, <2>3, <2>4 DEF Pictured, PhotoOp
  <2>6. ASSUME NEW s \in Requests \ {r}, asked[s].kind = "photo" PROVE Pictured(asked[s])'
    <3>1. PICK y : y = asked[s]
      OBVIOUS
    <3>2. y \in PhotoOp /\ Pictured(y) /\ Apart(y, op)
      BY <1>0, <2>1, <2>6, <3>1, TalkOp DEF TalkStands
    <3>3. y.new # Nobody => y.new \in Pictures /\ y.new # op.new /\ pictures'[y.new] = "stored"
      BY <2>2, <2>4, <2>6, <3>1, <3>2 DEF Pictured, PhotoOp, Apart
    <3>4. y.old # Nobody => y.old \in Pictures /\ pictures'[y.old] # "unwritten"
      BY <2>4, <3>2 DEF Pictured, PhotoOp
    <3>5. Pictured(y)'
      BY <2>3, <3>2, <3>3, <3>4 DEF Pictured
    <3>6. asked'[s] = y
      BY <2>3, <3>1 DEF TalkInv, TalkTypes
    <3> QED
      BY <3>1, <3>5, <3>6 DEF Pictured
  <2>7. Talk!NoRequest \in TalkOps /\ Talk!NoRequest.kind = "idle"
    BY DEF TalkOps, Talk!NoRequest
  <2>8. \A s \in Requests \ {r} : Apart(asked[s], Talk!NoRequest) /\ Apart(Talk!NoRequest, asked[s])
    BY <2>7 DEF Apart
  <2>9. count' \in 0..MaxAsked /\ pictures' \in [Pictures -> {"unwritten", "stored", "removed"}]
    BY <1>0, <2>3 DEF TalkInv, TalkTypes
  <2> QED
    BY <2>1, <2>2, <2>3, <2>5, <2>6, <2>7, <2>8, <2>9, TalkPhoto
<1> QED
  BY <1>1, <1>2

LEMMA TalkRequest ==
  ASSUME Talk!ChatsAssumption, TalkInv, NEW r \in Requests, Talk!Request(r) PROVE TalkInv'
<1>0. /\ count \in 0..MaxAsked /\ count < MaxAsked /\ MaxAsked \in Nat /\ asked[r] = Talk!NoRequest
      /\ asked[r].kind = "idle" /\ clock \in Nat /\ objects \subseteq Messages
      /\ \A s \in Requests : asked[s] \in TalkOps
  BY DEF Talk!Request, Talk!Ready, Talk!NoRequest, Talk!ChatsAssumption, TalkInv,
    TalkTypes
<1>1. ASSUME NEW u \in People, NEW c \in Talk!Conversations, NEW m \in Messages, NEW file \in BOOLEAN,
             Talk!AskSend(r, u, c, m, file)
      PROVE  TalkInv'
  <2>1. PICK op : op = [kind |-> "send", by |-> u, conv |-> c, msg |-> m, file |-> file]
    OBVIOUS
  <2>2. op \in SendOp /\ op.kind = "send" /\ op.msg = m /\ op.file = file
    BY <2>1 DEF SendOp
  <2>3. /\ asked' = [asked EXCEPT ![r] = op] /\ count' = count + 1
        /\ objects' = IF file THEN objects \cup {m} ELSE objects
        /\ message[m] = Nobody
        /\ \A q \in Requests : asked[q].kind \in {"send", "writing"} => asked[q].msg # m
        /\ UNCHANGED <<Talk!accounts, chat, member, message, tabs, bell, clock, Talk!ghosts>>
    BY <1>1, <2>1 DEF Talk!AskSend, Talk!Ask
  <2>4. UNCHANGED <<active, admins, chat, member, message, photo, pictures, tabs, bell, clock, seen,
                    blurred, served, stranded>>
    BY <2>3 DEF Talk!accounts, Talk!ghosts
  <2>5. TalkStands(op)'
    BY <2>2, <2>3, <2>4 DEF TalkStands, Sends
  <2>6. \A s \in Requests \ {r} : Apart(asked[s], op) /\ Apart(op, asked[s])
    BY <2>2, <2>3 DEF Apart
  <2>7. op \in TalkOps
    BY <2>2 DEF TalkOps
  <2>8. objects \subseteq objects' /\ objects' \subseteq Messages
    BY <1>0, <2>3
  <2>9. count' \in 0..MaxAsked /\ clock' \in Nat /\ clock <= clock'
    BY <1>0, <2>3
  <2> QED
    BY <1>0, <2>3, <2>4, <2>5, <2>6, <2>7, <2>8, <2>9, TalkGoes
<1>2. ASSUME NEW u \in People, NEW m \in Messages, NEW what \in {"edit", "delete"},
             Talk!AskAmend(r, u, m, what)
      PROVE  TalkInv'
  <2>1. PICK op : op = [kind |-> what, by |-> u, msg |-> m, file |-> message[m].file]
    OBVIOUS
  <2>2. /\ asked' = [asked EXCEPT ![r] = op] /\ count' = count + 1
        /\ objects' = objects /\ message[m] # Nobody
        /\ UNCHANGED <<Talk!accounts, chat, member, message, tabs, bell, clock, Talk!ghosts>>
    BY <1>2, <2>1 DEF Talk!AskAmend, Talk!Ask
  <2>3. message[m].file \in BOOLEAN
    BY <2>2 DEF TalkInv, TalkTypes, Talk!MessageRow
  <2>4. op \in AmendOp /\ op.kind \in {"edit", "delete"} /\ op.msg = m
    BY <2>1, <2>3 DEF AmendOp
  <2>5. UNCHANGED <<active, admins, chat, member, message, photo, pictures, tabs, bell, clock, seen,
                    blurred, served, stranded>>
    BY <2>2 DEF Talk!accounts, Talk!ghosts
  <2>6. TalkStands(op)'
    BY <2>2, <2>4, <2>5 DEF TalkStands
  <2>7. \A s \in Requests \ {r} : Apart(asked[s], op) /\ Apart(op, asked[s])
    BY <2>4 DEF Apart
  <2>8. op \in TalkOps
    BY <2>4 DEF TalkOps
  <2>9. count' \in 0..MaxAsked /\ clock' \in Nat /\ clock <= clock'
    BY <1>0, <2>2
  <2> QED
    BY <1>0, <2>2, <2>5, <2>6, <2>7, <2>8, <2>9, TalkGoes
<1>3. ASSUME NEW u \in People, NEW c \in Talk!Conversations, Talk!AskLeave(r, u, c) PROVE TalkInv'
  <2>1. PICK op : op = [kind |-> "leave", by |-> u, conv |-> c, alone |-> TRUE]
    OBVIOUS
  <2>2. /\ asked' = [asked EXCEPT ![r] = op] /\ count' = count + 1
        /\ c = Group /\ Talk!MayTouch(u, c) /\ ~(u \in admins /\ Talk!IsLastAdmin(u, c))
        /\ UNCHANGED <<Talk!accounts, chat, member, message, objects, tabs, bell, clock, Talk!ghosts>>
    BY <1>3, <2>1 DEF Talk!AskLeave, Talk!Ask, Talk!CanLeave
  <2>3. op \in LeaveOp /\ op.kind = "leave" /\ op.by = u
    BY <2>1, <2>2 DEF LeaveOp
  <2>4. UNCHANGED <<active, admins, chat, member, message, objects, photo, pictures, tabs, bell, clock,
                    seen, blurred, served, stranded>>
    BY <2>2 DEF Talk!accounts, Talk!ghosts
  <2>5. chat[Group] # Nobody
    BY <2>2 DEF Talk!MayTouch, Talk!Live
  <2>6. Talk!Live(Group) /\ ~stranded => Talk!AdminsIn(Group) \ {u} # {}
    <3>1. u \notin admins => Talk!AdminsIn(Group) \ {u} = Talk!AdminsIn(Group)
      BY DEF Talk!AdminsIn
    <3> QED
      BY <2>2, <3>1 DEF TalkInv, Talk!GroupsKeepAnAdmin, Talk!IsLastAdmin
  <2>7. GoesWell(op)'
    BY <2>3, <2>4, <2>5, <2>6 DEF GoesWell, Talk!Live, Talk!AdminsIn, Talk!Members,
      Talk!IsMember
  <2>8. TalkStands(op)'
    BY <2>3, <2>7 DEF TalkStands
  <2>9. \A s \in Requests \ {r} : Apart(asked[s], op) /\ Apart(op, asked[s])
    BY <2>3 DEF Apart
  <2>10. op \in TalkOps
    BY <2>3 DEF TalkOps
  <2>11. count' \in 0..MaxAsked /\ clock' \in Nat /\ clock <= clock'
    BY <1>0, <2>2
  <2> QED
    BY <1>0, <2>2, <2>4, <2>8, <2>9, <2>10, <2>11, TalkGoes
<1>4. ASSUME NEW u \in People, NEW new \in Pictures \cup {Nobody}, Talk!AskPhoto(r, u, new) PROVE TalkInv'
  BY <1>0, <1>4, TalkPictures
<1> QED
  BY <1>1, <1>2, <1>3, <1>4 DEF Talk!Request

(* What a step may leave of a message: it stays, of its thread and time.   *)
TalkKeeps ==
  \A m \in Messages : message[m] # Nobody =>
    /\ message'[m] # Nobody /\ message'[m].conv = message[m].conv /\ message'[m].at = message[m].at
    /\ message'[m].sender = message[m].sender /\ (message'[m].file => message[m].file)

(* A message whose words or file change.                                   *)
LEMMA TalkAmends ==
  ASSUME Talk!ChatsAssumption, TalkInv, NEW r \in Requests,
         Talk!WriteEdit(r) \/ Talk!CommitDelete(r) \/ Talk!RemoveObject(r)
  PROVE  TalkInv'
<1>0. PICK q : q = asked[r]
  OBVIOUS
<1>1. q \in TalkOps /\ TalkStands(q) /\ q.kind \in {"edit", "delete", "remove"}
  BY <1>0 DEF TalkInv, TalkTypes, TalkAsked, Talk!WriteEdit, Talk!CommitDelete,
    Talk!RemoveObject
<1>2. q.msg \in Messages /\ message[q.msg] # Nobody
  BY <1>1, TalkOp DEF AmendOp, RemoveOp, TalkStands
<1>3. PICK old \in Talk!MessageRow : old = message[q.msg]
  BY <1>2 DEF TalkInv, TalkTypes
<1>4. PICK new \in Talk!MessageRow, op \in TalkOps :
        /\ message' = [message EXCEPT ![q.msg] = new] /\ asked' = [asked EXCEPT ![r] = op]
        /\ new.conv = old.conv /\ new.at = old.at /\ new.sender = old.sender /\ (new.file => old.file)
        /\ (q.kind # "edit" => ~new.file) /\ op.kind \in {"idle", "remove"}
        /\ op.kind = "remove" => op.msg = q.msg /\ ~new.file
        /\ objects \ {q.msg} \subseteq objects' /\ objects' \subseteq objects
        /\ (q.kind # "remove" => objects' = objects)
        /\ UNCHANGED <<Talk!accounts, chat, member, tabs, bell, clock, count, Talk!ghosts>>
  <2>1. Talk!NoRequest \in TalkOps /\ Talk!NoRequest.kind = "idle"
    BY DEF TalkOps, Talk!NoRequest
  <2>2. CASE Talk!WriteEdit(r)
    <3>1. PICK new : new = [old EXCEPT !.text = TRUE]
      OBVIOUS
    <3>2. new \in Talk!MessageRow /\ new.conv = old.conv /\ new.at = old.at /\ new.sender = old.sender
          /\ new.file = old.file
      BY <3>1 DEF Talk!MessageRow
    <3>3. message' = [message EXCEPT ![q.msg] = new] /\ asked' = [asked EXCEPT ![r] = Talk!NoRequest]
          /\ UNCHANGED <<Talk!accounts, chat, member, objects, tabs, bell, clock, count, Talk!ghosts>>
          /\ q.kind = "edit"
      BY <1>0, <1>3, <2>2, <3>1 DEF Talk!WriteEdit, Talk!Answer
    <3> QED
      BY <2>1, <3>2, <3>3
  <2>3. CASE Talk!CommitDelete(r)
    <3>1. PICK new : new = [old EXCEPT !.text = FALSE, !.file = FALSE, !.deleted = TRUE]
      OBVIOUS
    <3>2. new \in Talk!MessageRow /\ new.conv = old.conv /\ new.at = old.at /\ new.sender = old.sender
          /\ ~new.file
      BY <3>1 DEF Talk!MessageRow
    <3>3. PICK op : op = [kind |-> "remove", msg |-> q.msg, file |-> q.file]
      OBVIOUS
    <3>4. message' = [message EXCEPT ![q.msg] = new] /\ asked' = [asked EXCEPT ![r] = op]
          /\ UNCHANGED <<Talk!accounts, chat, member, objects, tabs, bell, clock, count, Talk!ghosts>>
          /\ q.kind = "delete"
      BY <1>0, <1>3, <2>3, <3>1, <3>3 DEF Talk!CommitDelete, Talk!Then
    <3>5. q \in AmendOp
      BY <1>1, <3>4, TalkOp
    <3>6. op \in RemoveOp /\ op.kind = "remove" /\ op.msg = q.msg
      BY <1>2, <3>3, <3>5 DEF RemoveOp, AmendOp
    <3> QED
      BY <3>2, <3>4, <3>6 DEF TalkOps
  <2>4. CASE Talk!RemoveObject(r)
    <3>1. message' = message /\ asked' = [asked EXCEPT ![r] = Talk!NoRequest]
          /\ objects' = (IF q.file THEN objects \ {q.msg} ELSE objects)
          /\ UNCHANGED <<Talk!accounts, chat, member, tabs, bell, clock, count, Talk!ghosts>>
          /\ q.kind = "remove"
      BY <1>0, <2>4 DEF Talk!RemoveObject, Talk!Answer
    <3>2. ~old.file
      BY <1>1, <1>3, <3>1 DEF TalkStands
    <3>3. message' = [message EXCEPT ![q.msg] = old]
      BY <1>2, <1>3, <3>1 DEF TalkInv, TalkTypes
    <3> QED
      BY <2>1, <3>1, <3>2, <3>3
  <2> QED
    BY <2>2, <2>3, <2>4
<1>5. UNCHANGED <<active, admins, photo, pictures, chat, member, tabs, bell, clock, count, seen, blurred,
                  served, stranded>>
  BY <1>4 DEF Talk!accounts, Talk!ghosts
<1>6. /\ \A m \in Messages : message'[m] = IF m = q.msg THEN new ELSE message[m]
      /\ \A s \in Requests : asked'[s] = IF s = r THEN op ELSE asked[s]
      /\ new # Nobody
  BY <1>4 DEF TalkInv, TalkTypes, Talk!ChatsAssumption
<1>7. TalkKeeps /\ \A m \in Messages : message'[m] # Nobody => message[m] # Nobody
  BY <1>2, <1>3, <1>4, <1>6 DEF TalkKeeps
<1>9. \A m \in Messages : \A c : Talk!In(c, m)' <=> Talk!In(c, m)
  BY <1>7 DEF Talk!In, TalkKeeps
<1>10. TalkTypes'
  BY <1>4, <1>5 DEF TalkInv, TalkTypes
<1>11. TalkRooms'
  BY <1>5 DEF TalkInv, TalkRooms, Talk!Members, Talk!IsMember
<1>12. TalkReads'
  <2>1. \A c \in Talk!Conversations, u \in People : Talk!IsMember(u, c)' => member'[c][u].read <= clock'
    BY <1>5 DEF TalkInv, TalkReads, Talk!IsMember
  <2>2. \A m \in Messages : message'[m] # Nobody => message'[m].at \in 1..clock'
    BY <1>5, <1>7 DEF TalkInv, TalkReads, TalkKeeps
  <2>3. \A u \in People : \A m \in seen'[u] : message'[m] # Nobody /\ Talk!IsMember(u, message[m].conv)'
    <3> SUFFICES ASSUME NEW u \in People, NEW m \in seen[u]
                 PROVE  message'[m] # Nobody /\ member[message'[m].conv][u] # Nobody
      BY <1>5 DEF Talk!IsMember
    <3>1. m \in Messages /\ message[m] # Nobody /\ member[message[m].conv][u] # Nobody
      BY DEF TalkInv, TalkReads, TalkTypes, Talk!IsMember
    <3> QED
      BY <1>7, <3>1 DEF TalkKeeps
  <2>4. Talk!UnreadIsWhatWasNotSeen'
    <3> SUFFICES ASSUME NEW m \in Messages, NEW u \in People, message'[m] # Nobody,
                        member[message'[m].conv][u] # Nobody, message'[m].sender # u, <<u, m>> \notin blurred
                 PROVE  (message'[m].sender # u /\ message'[m].at > member[message'[m].conv][u].read)
                          <=> m \notin seen[u]
      BY <1>5 DEF Talk!UnreadIsWhatWasNotSeen, Talk!IsMember, Talk!Unread
    <3>1. message[m] # Nobody /\ message'[m].conv = message[m].conv /\ message'[m].at = message[m].at
          /\ message'[m].sender = message[m].sender
      BY <1>7 DEF TalkKeeps
    <3> QED
      BY <3>1 DEF TalkInv, TalkReads, Talk!UnreadIsWhatWasNotSeen, Talk!IsMember,
        Talk!Unread
  <2> QED
    BY <2>1, <2>2, <2>3, <2>4 DEF TalkReads, Talk!IsMember
<1>13. ASSUME NEW s \in Requests, s # r PROVE TalkStands(asked[s])'
  <2>1. PICK y : y = asked[s] /\ y = asked'[s]
    BY <1>6, <1>13
  <2>2. TalkStands(y) /\ y \in TalkOps
    BY <2>1 DEF TalkInv, TalkAsked, TalkTypes
  <2>3. y.kind \in {"send", "writing"} => Sends(y)'
    <3> SUFFICES ASSUME y.kind \in {"send", "writing"} PROVE Sends(y)'
      OBVIOUS
    <3>1. y.msg \in Messages /\ message[y.msg] = Nobody /\ (y.file => y.msg \in objects)
      BY <2>2, TalkOp DEF SendOp, WritingOp, TalkStands, Sends
    <3> QED
      BY <1>2, <1>4, <1>6, <3>1 DEF Sends
  <2>4. y.kind = "writing" => WritesIn(y)'
    <3> SUFFICES ASSUME y.kind = "writing" PROVE WritesIn(y)'
      OBVIOUS
    <3>1. WritesIn(y) /\ y.shown \subseteq Messages
      BY <2>2, TalkOp DEF WritingOp, TalkStands
    <3> QED
      BY <1>5, <1>9, <3>1 DEF WritesIn, Talk!IsMember
  <2>5. y.kind \in {"tell", "ring", "edit", "delete", "remove"} => y.msg \in Messages
    BY <2>2, TalkOp DEF TellOp, RingOp, AmendOp, RemoveOp
  <2>6. Rings(y) => Rings(y)'
    BY <1>5 DEF Rings, Talk!Members, Talk!IsMember
  <2>7. GoesWell(y) => GoesWell(y)'
    BY <1>5 DEF GoesWell, Talk!AdminsIn, Talk!Members, Talk!IsMember, Talk!Live
  <2>8. Pictured(y) => Pictured(y)'
    BY <1>5 DEF Pictured
  <2>9. TalkStands(y)'
    BY <1>7, <2>2, <2>3, <2>4, <2>5, <2>6, <2>7, <2>8 DEF TalkStands, TalkKeeps
  <2> QED
    BY <2>1, <2>9 DEF TalkStands, Sends, WritesIn, Rings, GoesWell, Pictured
<1>14. TalkAsked'
  <2>1. TalkStands(asked[r])'
    <3>1. TalkStands(op)'
      BY <1>2, <1>4, <1>6 DEF TalkStands
    <3>2. asked'[r] = op
      BY <1>6
    <3> QED
      BY <3>1, <3>2 DEF TalkStands, Sends, WritesIn, Rings, GoesWell, Pictured
  <2>2. \A s, t \in Requests : s # t => Apart(asked'[s], asked'[t])
    <3>1. \A y : Apart(y, op) /\ Apart(op, y)
      BY <1>4 DEF Apart
    <3> QED
      BY <1>6, <3>1 DEF TalkInv, TalkAsked
  <2>3. \A s, t \in Requests : s # t => Apart(asked[s], asked[t])'
    BY <2>2 DEF Apart
  <2> QED
    BY <1>13, <2>1, <2>3 DEF TalkAsked
<1>15. TalkFiles'
  BY <1>4, <1>5, <1>6, <1>7, <1>2, <1>3 DEF TalkInv, TalkFiles, Talk!FilesAreThere,
    TalkKeeps
<1>16. Talk!NobodyIsPassedOver'
  <2> SUFFICES ASSUME NEW m \in Messages, message'[m] # Nobody,
                      \A s \in Requests : asked'[s].kind \in {"tell", "ring"} => asked'[s].msg # m
               PROVE  Talk!Members(message[m].conv)' \subseteq served[m]
    BY <1>5 DEF Talk!NobodyIsPassedOver, Talk!Members, Talk!IsMember
  <2>1. \A s \in Requests : asked[s].kind \in {"tell", "ring"} => asked[s].msg # m
    BY <1>0, <1>1, <1>6
  <2>2. message[m] # Nobody /\ message'[m].conv = message[m].conv
    BY <1>7 DEF TalkKeeps
  <2> QED
    BY <1>5, <2>1, <2>2 DEF TalkInv, Talk!NobodyIsPassedOver, Talk!Members,
      Talk!IsMember
<1>17. Talk!GroupsKeepAnAdmin'
  BY <1>5 DEF TalkInv, Talk!GroupsKeepAnAdmin, Talk!AdminsIn, Talk!Members,
    Talk!IsMember, Talk!Live
<1> QED
  BY <1>10, <1>11, <1>12, <1>14, <1>15, <1>16, <1>17 DEF TalkInv

(* Sending goes on: the transaction begins, and at the end nobody is left  *)
(* to ring.                                                                *)
LEMMA TalkSends ==
  ASSUME Talk!ChatsAssumption, TalkInv, NEW r \in Requests, Talk!BeginSend(r) \/ Talk!SendDone(r)
  PROVE  TalkInv'
<1>0. PICK q : q = asked[r]
  OBVIOUS
<1>1. /\ q \in TalkOps /\ TalkStands(q) /\ clock \in Nat /\ objects \subseteq Messages
      /\ count \in 0..MaxAsked
      /\ \A s \in Requests \ {r} : Apart(asked[s], q) /\ Apart(q, asked[s])
  BY <1>0 DEF TalkInv, TalkTypes, TalkAsked
<1>2. CASE Talk!BeginSend(r)
  <2>1. q.kind = "send" /\ q \in SendOp /\ Sends(q)
    BY <1>0, <1>1, <1>2, TalkOp DEF Talk!BeginSend, TalkStands
  <2>2. PICK shown : shown = {m \in Messages : Talk!In(q.conv, m)}
    OBVIOUS
  <2>3. PICK op : op = [kind |-> "writing", by |-> q.by, conv |-> q.conv, msg |-> q.msg,
                        file |-> q.file, at |-> clock + 1, shown |-> shown]
    OBVIOUS
  <2>4. /\ asked' = [asked EXCEPT ![r] = op] /\ clock' = clock + 1
        /\ UNCHANGED <<Talk!accounts, chat, member, message, objects, tabs, bell, count, Talk!ghosts>>
    BY <1>0, <1>2, <2>2, <2>3 DEF Talk!BeginSend, Talk!Then
  <2>5. UNCHANGED <<active, admins, chat, member, message, photo, pictures, tabs, bell, seen,
                    blurred, served, stranded>>
    BY <2>4 DEF Talk!accounts, Talk!ghosts
  <2>6. op \in WritingOp /\ op.kind = "writing" /\ op.msg = q.msg /\ op.conv = q.conv
        /\ op.at = clock + 1 /\ op.shown = shown /\ op.file = q.file
    BY <1>1, <2>1, <2>2, <2>3 DEF SendOp, WritingOp
  <2>7. Sends(op)'
    BY <2>1, <2>4, <2>5, <2>6 DEF Sends
  <2>8. ASSUME NEW u \in People, Talk!IsMember(u, q.conv) PROVE member[q.conv][u].read < clock + 1
    <3>1. q.conv \in Talk!Conversations
      BY <2>1 DEF SendOp
    <3>2. member[q.conv][u] \in Talk!MemberRow /\ member[q.conv][u].read <= clock
      BY <2>8, <3>1 DEF TalkInv, TalkTypes, TalkReads, Talk!IsMember
    <3>3. member[q.conv][u].read \in Nat
      BY <3>2 DEF Talk!MemberRow
    <3> QED
      BY <1>1, <3>2, <3>3
  <2>9. WritesIn(op)'
    <3>1. op.at \in 1..clock'
      BY <1>1, <2>4, <2>6
    <3>2. \A m \in op.shown : Talk!In(op.conv, m)'
      BY <2>2, <2>5, <2>6 DEF Talk!In
    <3>3. ASSUME NEW u \in People, Talk!IsMember(u, op.conv)', op.at <= member'[op.conv][u].read
          PROVE  FALSE
      <4>1. Talk!IsMember(u, q.conv) /\ clock + 1 <= member[q.conv][u].read
        BY <2>5, <2>6, <3>3 DEF Talk!IsMember
      <4>2. q.conv \in Talk!Conversations
        BY <2>1 DEF SendOp
      <4>3. member[q.conv][u] \in Talk!MemberRow
        BY <4>1, <4>2 DEF TalkInv, TalkTypes, Talk!IsMember
      <4> QED
        BY <1>1, <2>8, <4>1, <4>3 DEF Talk!MemberRow
    <3> QED
      BY <3>1, <3>2, <3>3 DEF WritesIn
  <2>10. TalkStands(op)'
    BY <2>6, <2>7, <2>9 DEF TalkStands
  <2>11. \A s \in Requests \ {r} : Apart(asked[s], op) /\ Apart(op, asked[s])
    BY <1>1, <2>1, <2>6 DEF Apart
  <2>12. op \in TalkOps
    BY <2>6 DEF TalkOps
  <2>13. clock' \in Nat /\ clock <= clock' /\ count' \in 0..MaxAsked
    BY <1>1, <2>4
  <2> QED
    BY <1>0, <1>1, <2>1, <2>4, <2>5, <2>10, <2>11, <2>12, <2>13, TalkGoes
<1>3. CASE Talk!SendDone(r)
  <2>1. /\ q.kind = "ring" /\ q.left = {} /\ asked' = [asked EXCEPT ![r] = Talk!NoRequest]
        /\ UNCHANGED <<Talk!accounts, chat, member, message, objects, tabs, bell, clock, count, Talk!ghosts>>
    BY <1>0, <1>3 DEF Talk!SendDone, Talk!Answer
  <2>2. UNCHANGED <<active, admins, chat, member, message, photo, pictures, tabs, bell, seen,
                    blurred, served, stranded>>
    BY <2>1 DEF Talk!accounts, Talk!ghosts
  <2>3. Talk!Members(message[q.msg].conv) \subseteq served[q.msg]
    BY <1>1, <2>1 DEF TalkStands, Rings
  <2>4. Talk!NoRequest \in TalkOps /\ Talk!NoRequest.kind = "idle"
    BY DEF TalkOps, Talk!NoRequest
  <2>5. TalkStands(Talk!NoRequest)'
    BY <2>4 DEF TalkStands
  <2>6. \A s \in Requests \ {r} : Apart(asked[s], Talk!NoRequest) /\ Apart(Talk!NoRequest, asked[s])
    BY <2>4 DEF Apart
  <2>7. clock' \in Nat /\ clock <= clock' /\ count' \in 0..MaxAsked
    BY <1>1, <2>1
  <2> QED
    BY <1>0, <1>1, <2>1, <2>2, <2>3, <2>4, <2>5, <2>6, <2>7, TalkGoes
<1> QED
  BY <1>2, <1>3

(* Somebody is told.                                                       *)
LEMMA TalkTells ==
  ASSUME TalkInv, NEW r \in Requests, NEW op \in RingOp, asked' = [asked EXCEPT ![r] = op],
         asked[r].kind \in {"tell", "ring"}, op.msg = asked[r].msg, op.conv = asked[r].conv,
         UNCHANGED <<active, admins, chat, member, message, objects, photo, pictures, tabs, clock,
                     count, seen, blurred, stranded>>,
         bell' \in [Talk!Conversations -> SUBSET People], served' \in [Messages -> SUBSET People],
         \A m \in Messages : served[m] \subseteq served'[m],
         Rings(op)'
  PROVE  TalkInv'
<1>1. \A s \in Requests : asked'[s] = IF s = r THEN op ELSE asked[s]
  BY DEF TalkInv, TalkTypes
<1>2. op.kind = "ring" /\ op \in TalkOps /\ op.msg \in Messages
  BY DEF RingOp, TalkOps
<1>3. TalkTypes'
  BY <1>2 DEF TalkInv, TalkTypes
<1>4. TalkRooms'
  BY DEF TalkInv, TalkRooms, Talk!Members, Talk!IsMember
<1>5. TalkReads'
  BY DEF TalkInv, TalkReads, Talk!UnreadIsWhatWasNotSeen, Talk!IsMember, Talk!Unread
<1>6. message[op.msg] # Nobody /\ message[op.msg].conv = op.conv
  BY DEF TalkInv, TalkAsked, TalkStands
<1>7. ASSUME NEW q, TalkStands(q), q \in TalkOps PROVE TalkStands(q)'
  <2>1. Sends(q) => Sends(q)'
    BY DEF Sends
  <2>2. WritesIn(q) => WritesIn(q)'
    BY DEF WritesIn, Talk!In, Talk!IsMember
  <2>3. q.kind = "ring" => Rings(q)'
    <3>1. q.kind = "ring" => Rings(q) /\ q.msg \in Messages
      BY <1>7, TalkOp DEF TalkStands, RingOp
    <3> QED
      BY <3>1 DEF Rings, Talk!Members, Talk!IsMember
  <2>4. GoesWell(q) => GoesWell(q)'
    BY DEF GoesWell, Talk!AdminsIn, Talk!Members, Talk!IsMember, Talk!Live
  <2>5. Pictured(q) => Pictured(q)'
    BY DEF Pictured
  <2> QED
    BY <1>7, <2>1, <2>2, <2>3, <2>4, <2>5 DEF TalkStands
<1>8. TalkAsked'
  <2>1. ASSUME NEW s \in Requests PROVE TalkStands(asked[s])'
    <3>1. PICK y : y = asked'[s]
      OBVIOUS
    <3>2. CASE s = r
      <4>1. TalkStands(y)'
        BY <1>1, <1>2, <1>6, <3>1, <3>2 DEF TalkStands
      <4> QED
        BY <3>1, <4>1 DEF TalkStands, Sends, WritesIn, Rings, GoesWell, Pictured
    <3>3. CASE s # r
      <4>1. y = asked[s] /\ TalkStands(y) /\ y \in TalkOps
        BY <1>1, <3>1, <3>3 DEF TalkInv, TalkAsked, TalkTypes
      <4>2. TalkStands(y)'
        BY <1>7, <4>1
      <4> QED
        BY <3>1, <4>2 DEF TalkStands, Sends, WritesIn, Rings, GoesWell, Pictured
    <3> QED
      BY <3>2, <3>3
  <2>2. \A s, t \in Requests : s # t => Apart(asked'[s], asked'[t])
    <3>1. \A y : Apart(y, op) /\ Apart(op, y)
      BY <1>2 DEF Apart
    <3> QED
      BY <1>1, <3>1 DEF TalkInv, TalkAsked
  <2>3. \A s, t \in Requests : s # t => Apart(asked[s], asked[t])'
    BY <2>2 DEF Apart
  <2> QED
    BY <2>1, <2>3 DEF TalkAsked
<1>9. TalkFiles'
  BY DEF TalkInv, TalkFiles, Talk!FilesAreThere
<1>10. Talk!NobodyIsPassedOver'
  <2> SUFFICES ASSUME NEW m \in Messages, message[m] # Nobody,
                      \A s \in Requests : asked'[s].kind \in {"tell", "ring"} => asked'[s].msg # m
               PROVE  Talk!Members(message[m].conv) \subseteq served'[m]
    BY DEF Talk!NobodyIsPassedOver, Talk!Members, Talk!IsMember
  <2>1. \A s \in Requests : asked[s].kind \in {"tell", "ring"} => asked[s].msg # m
    BY <1>1, <1>2
  <2> QED
    BY <2>1 DEF TalkInv, Talk!NobodyIsPassedOver
<1>11. Talk!GroupsKeepAnAdmin'
  BY DEF TalkInv, Talk!GroupsKeepAnAdmin, Talk!AdminsIn, Talk!Members, Talk!IsMember,
    Talk!Live
<1> QED
  BY <1>3, <1>4, <1>5, <1>8, <1>9, <1>10, <1>11 DEF TalkInv

LEMMA TalkRings ==
  ASSUME TalkInv, NEW r \in Requests, Talk!Publish(r) \/ \E u \in People : Talk!Ring(r, u)
  PROVE  TalkInv'
<1>0. PICK q : q = asked[r]
  OBVIOUS
<1>1. q \in TalkOps /\ TalkStands(q) /\ served \in [Messages -> SUBSET People]
      /\ bell \in [Talk!Conversations -> SUBSET People] /\ active \subseteq People
  BY <1>0 DEF TalkInv, TalkTypes, TalkAsked
<1>2. CASE Talk!Publish(r)
  <2>0. q.kind = "tell"
    BY <1>0, <1>2 DEF Talk!Publish
  <2>1. q \in TellOp
    BY <1>1, <2>0, TalkOp
  <2>2. PICK to : to = Talk!Members(q.conv) \cap active
    OBVIOUS
  <2>3. PICK quiet : quiet = {u \in to : member[q.conv][u].muted}
    OBVIOUS
  <2>4. PICK op : op = [kind |-> "ring", by |-> q.by, conv |-> q.conv, msg |-> q.msg,
                        left |-> to \ (quiet \cup {q.by})]
    OBVIOUS
  <2>5. /\ served' = [served EXCEPT ![q.msg] = @ \cup (to \cap tabs) \cup quiet \cup {q.by}
                                               \cup (People \ to)]
        /\ asked' = [asked EXCEPT ![r] = op]
        /\ UNCHANGED <<Talk!accounts, chat, member, message, objects, tabs, bell, clock, count, seen,
                       blurred, stranded>>
    BY <1>0, <1>2, <2>2, <2>3, <2>4 DEF Talk!Publish, Talk!Then
  <2>6. UNCHANGED <<active, admins, chat, member, message, objects, photo, pictures, tabs, clock,
                    count, seen, blurred, stranded, bell>>
    BY <2>5 DEF Talk!accounts
  <2>7. /\ op \in RingOp /\ op.msg = q.msg /\ op.conv = q.conv /\ op.left = to \ (quiet \cup {q.by})
        /\ q.msg \in Messages /\ q.by \in People /\ to \subseteq People /\ quiet \subseteq to
    BY <1>1, <2>1, <2>2, <2>3, <2>4 DEF TellOp, RingOp
  <2>8. /\ served' \in [Messages -> SUBSET People] /\ \A m \in Messages : served[m] \subseteq served'[m]
        /\ (to \cap tabs) \cup quiet \cup {q.by} \cup (People \ to) \subseteq served'[q.msg]
    BY <1>1, <2>5, <2>7
  <2>9. Rings(op)'
    <3>1. Talk!Members(q.conv) \subseteq served'[q.msg] \cup op.left
      BY <2>2, <2>7, <2>8 DEF Talk!Members
    <3>2. \A u \in op.left \cap tabs : u \in served'[q.msg]
      BY <2>7, <2>8
    <3> QED
      BY <2>6, <2>7, <3>1, <3>2 DEF Rings, Talk!Members, Talk!IsMember
  <2> QED
    <3>1. asked[r].kind \in {"tell", "ring"} /\ op.msg = asked[r].msg /\ op.conv = asked[r].conv
      BY <1>0, <2>0, <2>7
    <3>2. bell' \in [Talk!Conversations -> SUBSET People]
      BY <1>1, <2>6
    <3> QED
      BY <2>5, <2>6, <2>7, <2>8, <2>9, <3>1, <3>2, TalkTells
<1>3. ASSUME NEW u \in People, Talk!Ring(r, u) PROVE TalkInv'
  <2>1. q.kind = "ring" /\ u \in q.left
    BY <1>0, <1>3 DEF Talk!Ring
  <2>2. q \in RingOp /\ Rings(q)
    BY <1>1, <2>1, TalkOp DEF TalkStands
  <2>3. PICK op : op = [q EXCEPT !.left = @ \ {u}]
    OBVIOUS
  <2>4. op \in RingOp /\ op.msg = q.msg /\ op.conv = q.conv /\ op.left = q.left \ {u}
        /\ q.msg \in Messages /\ q.conv \in Talk!Conversations
    BY <2>2, <2>3 DEF RingOp
  <2>5. /\ asked' = [asked EXCEPT ![r] = op]
        /\ UNCHANGED <<Talk!accounts, chat, member, message, objects, tabs, clock, count, seen, blurred,
                       stranded>>
        /\ bell' = bell \/ bell' = [bell EXCEPT ![q.conv] = @ \cup {u}]
        /\ IF u \in tabs THEN served' = served
           ELSE served' = [served EXCEPT ![q.msg] = @ \cup {u}]
    BY <1>0, <1>3, <2>3 DEF Talk!Ring, Talk!Then, Talk!IsConnected
  <2>6. UNCHANGED <<active, admins, chat, member, message, objects, photo, pictures, tabs, clock,
                    count, seen, blurred, stranded>>
    BY <2>5 DEF Talk!accounts
  <2>7. /\ served' \in [Messages -> SUBSET People] /\ \A m \in Messages : served[m] \subseteq served'[m]
        /\ bell' \in [Talk!Conversations -> SUBSET People] /\ (u \notin tabs => u \in served'[q.msg])
    BY <1>1, <2>4, <2>5
  <2>8. Rings(op)'
    <3>1. Talk!Members(q.conv) \subseteq served'[q.msg] \cup op.left
      BY <2>1, <2>2, <2>4, <2>7 DEF Rings, Talk!Members
    <3>2. \A v \in op.left \cap tabs : Talk!IsMember(v, q.conv) => v \in served'[q.msg]
      BY <2>2, <2>4, <2>7 DEF Rings
    <3> QED
      BY <2>4, <2>6, <3>1, <3>2 DEF Rings, Talk!Members, Talk!IsMember
  <2> QED
    BY <1>0, <2>1, <2>4, <2>5, <2>6, <2>7, <2>8, TalkTells
<1> QED
  BY <1>2, <1>3

(* Where a step may take the requests: each goes on as it is, stops, or is *)
(* overtaken on its way out of the group.                                  *)
TalkOvertakes ==
  \A s \in Requests :
    \/ asked'[s] = asked[s] \/ asked'[s] = Talk!NoRequest
    \/ asked[s].kind = "leave" /\ asked'[s] = [asked[s] EXCEPT !.alone = FALSE]

(* A read mark never passes a message about to be committed unnoticed.     *)
TalkMarks(q) ==
  \A u \in People :
    Talk!IsMember(u, q.conv) /\ q.at <= member[q.conv][u].read => <<u,
      q.msg>> \in blurred

(* Nothing is unsaid, who joins finds the thread, and whose stream opens   *)
(* before the bell is rung is left out by name.                            *)
TalkLoads ==
  \A m \in Messages : message[m] # Nobody =>
    /\ served[m] \subseteq served'[m]
    /\ \A u \in People : Talk!IsMember(u, message[m].conv)' /\ u \notin served'[m] =>
         Talk!IsMember(u,
           message[m].conv) /\ (u \in tabs' => u \in tabs \/ ~Talk!TooLate(u, m))

(* A change of members, marks, tabs or accounts, which no message notices. *)
LEMMA TalkRoster ==
  ASSUME TalkInv, UNCHANGED <<message, objects, photo, pictures>>, clock' \in Nat, clock <= clock',
         TalkTypes', TalkRooms', TalkReads', TalkOvertakes, TalkLoads, Talk!GroupsKeepAnAdmin',
         \A s \in Requests : asked'[s] = Talk!NoRequest => asked[s].kind \notin {"tell", "ring"},
         \A q \in WritingOp : (\E s \in Requests : asked[s] = q) => TalkMarks(q)',
         chat[Group] # Nobody => chat'[Group] # Nobody,
         \/ \A s \in Requests : asked'[s].kind = "leave" => ~asked'[s].alone
         \/ /\ chat[Group] # Nobody /\ Talk!Live(Group)' => Talk!Live(Group)
            /\ stranded' = stranded /\ Talk!AdminsIn(Group) \subseteq Talk!AdminsIn(Group)'
  PROVE  TalkInv'
<1>0. Talk!NoRequest.kind = "idle"
  BY DEF Talk!NoRequest
<1>1. ASSUME NEW s \in Requests PROVE TalkStands(asked[s])'
  <2>1. PICK q : q = asked[s]
    OBVIOUS
  <2>2. PICK y : y = asked'[s]
    OBVIOUS
  <2>3. q \in TalkOps /\ TalkStands(q)
    BY <2>1 DEF TalkInv, TalkTypes, TalkAsked
  <2>4. CASE y = Talk!NoRequest
    BY <1>0, <2>2, <2>4 DEF TalkStands
  <2>5. CASE y # Talk!NoRequest /\ q.kind = "leave"
    <3>1. y = q \/ y = [q EXCEPT !.alone = FALSE]
      BY <2>1, <2>2, <2>5 DEF TalkOvertakes
    <3>2. q \in LeaveOp /\ GoesWell(q)
      BY <2>3, <2>5, TalkOp DEF TalkStands
    <3>3. y.kind = "leave" /\ y.by = q.by /\ (y.alone => q.alone)
      BY <3>1, <3>2 DEF LeaveOp
    <3>4. GoesWell(y)'
      BY <2>2, <3>2, <3>3 DEF GoesWell
    <3>5. TalkStands(y)'
      BY <3>3, <3>4 DEF TalkStands
    <3> QED
      BY <2>2, <3>5 DEF TalkStands, Sends, WritesIn, Rings, GoesWell, Pictured
  <2>6. CASE y # Talk!NoRequest /\ q.kind # "leave"
    <3>1. y = q
      BY <2>1, <2>2, <2>6 DEF TalkOvertakes
    <3>2. Sends(q) => Sends(q)'
      BY DEF Sends
    <3>3. q.kind = "writing" => WritesIn(q)'
      <4> SUFFICES ASSUME q.kind = "writing" PROVE WritesIn(q)'
        OBVIOUS
      <4>1. q \in WritingOp /\ WritesIn(q)
        BY <2>3, TalkOp DEF TalkStands
      <4>2. TalkMarks(q)'
        BY <2>1, <4>1
      <4>3. q.at \in 1..clock'
        BY <4>1 DEF WritesIn, TalkInv, TalkTypes
      <4> QED
        BY <4>1, <4>2, <4>3 DEF WritesIn, TalkMarks, Talk!In
    <3>4. q.kind = "ring" => Rings(q)'
      <4> SUFFICES ASSUME q.kind = "ring" PROVE Rings(q)'
        OBVIOUS
      <4>1. q \in RingOp /\ Rings(q) /\ message[q.msg] # Nobody /\ message[q.msg].conv = q.conv
        BY <2>3, TalkOp DEF TalkStands
      <4>2. q.msg \in Messages
        BY <4>1 DEF RingOp
      <4>3. \A u \in People : Talk!IsMember(u, q.conv)' /\ u \notin served'[q.msg] =>
              Talk!IsMember(u, q.conv) /\ u \notin served[q.msg]
                /\ (u \in tabs' => u \in tabs \/ ~Talk!TooLate(u, q.msg))
        BY <4>1, <4>2 DEF TalkLoads, Talk!IsMember
      <4>4. q.left \subseteq People
        BY <4>1 DEF RingOp
      <4>5. \A u \in q.left : Talk!TooLate(u, q.msg)
        BY <2>1, <3>4 DEF Talk!TooLate
      <4> QED
        BY <4>1, <4>3, <4>4, <4>5 DEF Rings, Talk!Members
    <3>5. Pictured(q) => Pictured(q)'
      BY DEF Pictured
    <3>6. TalkStands(q)'
      BY <2>3, <2>6, <3>2, <3>3, <3>4, <3>5 DEF TalkStands
    <3> QED
      BY <2>2, <3>1, <3>6 DEF TalkStands, Sends, WritesIn, Rings, GoesWell, Pictured
  <2> QED
    BY <2>4, <2>5, <2>6
<1>2. TalkAsked'
  <2>1. \A s \in Requests :
          asked'[s].kind \in {"send", "writing", "photo"} => asked'[s] = asked[s]
    <3> SUFFICES ASSUME NEW s \in Requests, asked'[s].kind \in {"send", "writing", "photo"},
                        asked'[s] # asked[s]
                 PROVE  FALSE
      OBVIOUS
    <3>1. asked[s].kind = "leave" /\ asked'[s] = [asked[s] EXCEPT !.alone = FALSE]
      BY <1>0 DEF TalkOvertakes
    <3>2. asked[s] \in LeaveOp
      BY <3>1, TalkOp DEF TalkInv, TalkTypes
    <3> QED
      BY <3>1, <3>2 DEF LeaveOp
  <2>2. \A s, t \in Requests : s # t => Apart(asked'[s], asked'[t])
    BY <2>1 DEF TalkInv, TalkAsked, Apart
  <2>3. \A s, t \in Requests : s # t => Apart(asked[s], asked[t])'
    BY <2>2 DEF Apart
  <2> QED
    BY <1>1, <2>3 DEF TalkAsked
<1>3. TalkFiles'
  BY DEF TalkInv, TalkFiles, Talk!FilesAreThere
<1>4. Talk!NobodyIsPassedOver'
  <2> SUFFICES ASSUME NEW m \in Messages, message[m] # Nobody,
                      \A s \in Requests : asked'[s].kind \in {"tell", "ring"} => asked'[s].msg # m,
                      NEW u \in People, Talk!IsMember(u, message[m].conv)', u \notin served'[m]
               PROVE  FALSE
    BY DEF Talk!NobodyIsPassedOver, Talk!Members, Talk!IsMember
  <2>1. \A s \in Requests : asked[s].kind \in {"tell", "ring"} => asked[s].msg # m
    BY DEF TalkOvertakes
  <2>2. Talk!Members(message[m].conv) \subseteq served[m]
    BY <2>1 DEF TalkInv, Talk!NobodyIsPassedOver
  <2> QED
    BY <2>2 DEF TalkLoads, Talk!Members
<1> QED
  BY <1>2, <1>3, <1>4 DEF TalkInv

(* Moving a read mark: of u in c, to `mark`, with what is shown there.     *)
LEMMA TalkMarked ==
  ASSUME Talk!ChatsAssumption, TalkInv, NEW u \in People, NEW c \in Talk!Conversations, Talk!IsMember(u, c),
         NEW mark \in Nat, mark <= clock', clock' \in Nat, clock <= clock',
         NEW shown \in SUBSET Messages, \A m \in shown : Talk!In(c, m),
         member' = [member EXCEPT ![c][u].read = mark],
         seen' = [seen EXCEPT ![u] = @ \cup shown],
         blurred' = (blurred \ ({u} \X {m \in Messages : Talk!In(c, m)})) \cup Talk!Blur(u, c, mark, seen'[u])
  PROVE  /\ member' \in [Talk!Conversations -> [People -> Talk!MemberRow \cup {Nobody}]]
         /\ seen' \in [People -> SUBSET Messages] /\ blurred' \subseteq People \X Messages
         /\ \A d \in Talk!Conversations, v \in People :
              /\ Talk!IsMember(v, d)' <=> Talk!IsMember(v, d)
              /\ Talk!IsMember(v, d)' => member'[d][v].read <= clock'
         /\ \A v \in People : \A m \in seen'[v] : message[m] # Nobody /\ Talk!IsMember(v, message[m].conv)
         /\ \A m \in Messages, v \in People :
              message[m] # Nobody /\ Talk!IsMember(v, message[m].conv) /\ message[m].sender # v
                /\ <<v, m>> \notin blurred'
              => (message[m].at > member'[message[m].conv][v].read <=> m \notin seen'[v])
         /\ \A q \in WritingOp : (\E s \in Requests : asked[s] = q) => TalkMarks(q)'
         /\ \A q \in WritingOp : (\E s \in Requests : asked[s] = q) /\ q.conv = c /\ q.at <= mark
              => <<u, q.msg>> \in blurred'
<1>0. /\ member \in [Talk!Conversations -> [People -> Talk!MemberRow \cup {Nobody}]]
      /\ seen \in [People -> SUBSET Messages] /\ blurred \subseteq People \X Messages
      /\ message \in [Messages -> Talk!MessageRow \cup {Nobody}] /\ clock \in Nat
      /\ Nobody \notin Talk!MemberRow /\ Nobody \notin Talk!MessageRow
      /\ asked \in [Requests -> TalkOps]
  BY DEF TalkInv, TalkTypes, Talk!ChatsAssumption
<1>1. PICK row \in Talk!MemberRow : row = [member[c][u] EXCEPT !.read = mark]
  <2>1. member[c][u] \in Talk!MemberRow
    BY <1>0 DEF Talk!IsMember
  <2> QED
    BY <2>1 DEF Talk!MemberRow
<1>2. row.read = mark /\ row # Nobody
  <2>1. member[c][u] \in Talk!MemberRow
    BY <1>0 DEF Talk!IsMember
  <2> QED
    BY <1>0, <1>1, <2>1 DEF Talk!MemberRow
<1>3. \A d \in Talk!Conversations, v \in People :
        member'[d][v] = IF d = c /\ v = u THEN row ELSE member[d][v]
  BY <1>0, <1>1
<1>4. member' \in [Talk!Conversations -> [People -> Talk!MemberRow \cup {Nobody}]]
  BY <1>0, <1>1
<1>5. \A d \in Talk!Conversations, v \in People : Talk!IsMember(v, d)' <=> Talk!IsMember(v, d)
  BY <1>2, <1>3 DEF Talk!IsMember
<1>6. \A d \in Talk!Conversations, v \in People : Talk!IsMember(v, d)' => member'[d][v].read <= clock'
  <2> SUFFICES ASSUME NEW d \in Talk!Conversations, NEW v \in People, Talk!IsMember(v, d)
               PROVE  member'[d][v].read <= clock'
    BY <1>5
  <2>1. member[d][v] \in Talk!MemberRow /\ member[d][v].read \in Nat /\ member[d][v].read <= clock
    BY <1>0 DEF Talk!IsMember, Talk!MemberRow, TalkInv, TalkReads
  <2> QED
    BY <1>0, <1>2, <1>3, <2>1
<1>7. \A v \in People : seen'[v] = IF v = u THEN seen[u] \cup shown ELSE seen[v]
  BY <1>0
<1>8. seen' \in [People -> SUBSET Messages]
  BY <1>0
<1>9. \A x : x \in Talk!Blur(u, c, mark, seen'[u]) <=>
        \/ \E m \in Messages : x = <<u, m>> /\ Talk!In(c, m) /\ (message[m].at <= mark) # (m \in seen'[u])
        \/ \E s \in Requests : /\ x = <<u, asked[s].msg>> /\ asked[s].kind = "writing"
                               /\ asked[s].conv = c /\ asked[s].at <= mark
  BY DEF Talk!Blur
<1>10. blurred' \subseteq People \X Messages
  <2>1. \A s \in Requests : asked[s].kind = "writing" => asked[s].msg \in Messages
    BY <1>0, TalkOp DEF WritingOp
  <2>2. Talk!Blur(u, c, mark, seen'[u]) \subseteq People \X Messages
    <3> SUFFICES ASSUME NEW x \in Talk!Blur(u, c, mark, seen'[u]) PROVE x \in People \X Messages
      OBVIOUS
    <3>1. PICK m \in Messages : x = <<u, m>>
      BY <1>9, <2>1
    <3> QED
      BY <3>1
  <2> QED
    BY <1>0, <2>2
<1>11. \A v \in People : \A m \in seen'[v] : message[m] # Nobody /\ Talk!IsMember(v, message[m].conv)
  <2> SUFFICES ASSUME NEW v \in People, NEW m \in seen'[v]
               PROVE  message[m] # Nobody /\ Talk!IsMember(v, message[m].conv)
    OBVIOUS
  <2>1. CASE m \in seen[v]
    BY <2>1 DEF TalkInv, TalkReads
  <2>2. CASE v = u /\ m \in shown
    BY <2>2 DEF Talk!In
  <2> QED
    BY <1>7, <2>1, <2>2
<1>12. \A m \in Messages, v \in People :
         message[m] # Nobody /\ Talk!IsMember(v, message[m].conv) /\ message[m].sender # v
           /\ <<v, m>> \notin blurred'
         => (message[m].at > member'[message[m].conv][v].read <=> m \notin seen'[v])
  <2> SUFFICES ASSUME NEW m \in Messages, NEW v \in People, message[m] # Nobody,
                      Talk!IsMember(v, message[m].conv), message[m].sender # v, <<v,
                        m>> \notin blurred'
               PROVE  message[m].at > member'[message[m].conv][v].read <=> m \notin seen'[v]
    OBVIOUS
  <2>1. message[m].at \in Nat /\ message[m].conv \in Talk!Conversations
    BY <1>0 DEF Talk!MessageRow
  <2>2. CASE v = u /\ message[m].conv = c
    <3>1. Talk!In(c, m) /\ <<u, m>> \notin Talk!Blur(u, c, mark, seen'[u])
      BY <2>2 DEF Talk!In
    <3>2. message[m].at <= mark <=> m \in seen'[u]
      BY <1>9, <3>1
    <3>3. member'[message[m].conv][v].read = mark
      BY <1>2, <1>3, <2>2
    <3> QED
      BY <2>1, <2>2, <3>2, <3>3
  <2>3. CASE ~(v = u /\ message[m].conv = c)
    <3>1. <<v, m>> \notin blurred
      BY <2>3 DEF Talk!In
    <3>2. member'[message[m].conv][v] = member[message[m].conv][v]
      BY <1>3, <2>1, <2>3
    <3>3. m \in seen'[v] <=> m \in seen[v]
      BY <1>7, <2>3 DEF Talk!In
    <3> QED
      BY <3>1, <3>2, <3>3 DEF TalkInv, TalkReads, Talk!UnreadIsWhatWasNotSeen,
        Talk!Unread
  <2> QED
    BY <2>2, <2>3
<1>13. \A q \in WritingOp : (\E s \in Requests : asked[s] = q) /\ q.conv = c /\ q.at <= mark
         => <<u, q.msg>> \in blurred'
  BY <1>9 DEF WritingOp
<1>14. ASSUME NEW q \in WritingOp, \E s \in Requests : asked[s] = q PROVE TalkMarks(q)'
  <2>1. q.kind = "writing" /\ q.conv \in Talk!Conversations /\ q.at \in Nat
    BY DEF WritingOp
  <2>2. TalkStands(q)
    BY <1>14 DEF TalkInv, TalkAsked
  <2>3. WritesIn(q) /\ Sends(q)
    BY <2>1, <2>2 DEF TalkStands
  <2>4. ~Talk!In(c, q.msg)
    BY <2>3 DEF Sends, Talk!In
  <2> SUFFICES ASSUME NEW v \in People, Talk!IsMember(v, q.conv), q.at <= member'[q.conv][v].read
               PROVE  <<v, q.msg>> \in blurred'
    BY <1>5, <2>1 DEF TalkMarks
  <2>5. CASE v = u /\ q.conv = c
    <3>1. member'[q.conv][v].read = mark
      BY <1>2, <1>3, <2>1, <2>5
    <3>2. q.at <= mark
      BY <3>1
    <3> QED
      BY <1>13, <1>14, <2>5, <3>2
  <2>6. CASE ~(v = u /\ q.conv = c)
    <3>1. q.at <= member[q.conv][v].read
      BY <1>3, <2>1, <2>6
    <3>2. <<v, q.msg>> \in blurred
      BY <2>3, <3>1 DEF WritesIn
    <3> QED
      BY <2>4, <3>2
  <2> QED
    BY <2>5, <2>6
<1> QED
  BY <1>4, <1>5, <1>6, <1>8, <1>10, <1>11, <1>12, <1>13, <1>14

(* What is said of the messages and their readers, where no message is     *)
(* added.                                                                  *)
LEMMA TalkReadBy ==
  ASSUME TalkInv, UNCHANGED message, clock' \in Nat, clock <= clock',
         \A d \in Talk!Conversations, v \in People : Talk!IsMember(v, d)' => member'[d][v].read <= clock',
         \A v \in People : \A m \in seen'[v] : message[m] # Nobody /\ Talk!IsMember(v, message[m].conv)',
         \A m \in Messages, v \in People :
           message[m] # Nobody /\ Talk!IsMember(v, message[m].conv)' /\ message[m].sender # v
             /\ <<v, m>> \notin blurred'
           => (message[m].at > member'[message[m].conv][v].read <=> m \notin seen'[v])
  PROVE  TalkReads'
<1>1. \A m \in Messages : message'[m] # Nobody => message'[m].at \in 1..clock'
  BY DEF TalkInv, TalkReads, TalkTypes
<1>2. \A v \in People : \A m \in seen'[v] : message'[m] # Nobody /\ Talk!IsMember(v, message[m].conv)'
  BY DEF Talk!IsMember
<1>3. Talk!UnreadIsWhatWasNotSeen'
  BY DEF Talk!UnreadIsWhatWasNotSeen, Talk!Unread, Talk!IsMember
<1> QED
  BY <1>1, <1>2, <1>3 DEF TalkReads

LEMMA TalkMarkRead ==
  ASSUME Talk!ChatsAssumption, TalkInv, NEW u \in People, NEW c \in Talk!Conversations, Talk!MarkRead(u, c)
  PROVE  TalkInv'
<1>1. PICK shown : shown = {m \in Messages : Talk!In(c, m)}
  OBVIOUS
<1>2. /\ Talk!IsMember(u, c) /\ count < MaxAsked /\ count' = count + 1 /\ clock' = clock + 1
      /\ member' = [member EXCEPT ![c][u].read = clock + 1]
      /\ bell' = [bell EXCEPT ![c] = @ \ {u}]
      /\ seen' = [seen EXCEPT ![u] = @ \cup shown]
      /\ blurred' = (blurred \ ({u} \X shown)) \cup Talk!Blur(u, c, clock + 1, seen'[u])
      /\ UNCHANGED <<Talk!accounts, chat, message, objects, tabs, asked, served, stranded>>
  BY <1>1 DEF Talk!MarkRead, Talk!MayTouch, Talk!OneStep
<1>3. UNCHANGED <<active, admins, photo, pictures, chat, message, objects, tabs, asked, served, stranded>>
  BY <1>2 DEF Talk!accounts
<1>4. /\ clock \in Nat /\ clock + 1 \in Nat /\ clock' \in Nat /\ clock <= clock' /\ clock + 1 <= clock'
      /\ count' \in 0..MaxAsked /\ bell' \in [Talk!Conversations -> SUBSET People]
      /\ shown \in SUBSET Messages /\ \A m \in shown : Talk!In(c, m)
  <2>1. clock \in Nat /\ count \in 0..MaxAsked /\ MaxAsked \in Nat
        /\ bell \in [Talk!Conversations -> SUBSET People]
    BY DEF TalkInv, TalkTypes, Talk!ChatsAssumption
  <2>2. bell' \in [Talk!Conversations -> SUBSET People]
    BY <1>2, <2>1
  <2> QED
    BY <1>1, <1>2, <2>1, <2>2
<1>5. blurred' = (blurred \ ({u} \X {m \in Messages : Talk!In(c, m)})) \cup Talk!Blur(u, c, clock + 1, seen'[u])
  BY <1>1, <1>2
<1>6. PICK mark \in Nat : mark = clock + 1
  BY <1>4
<1>7. /\ member' \in [Talk!Conversations -> [People -> Talk!MemberRow \cup {Nobody}]]
      /\ seen' \in [People -> SUBSET Messages] /\ blurred' \subseteq People \X Messages
      /\ \A d \in Talk!Conversations, v \in People :
           /\ Talk!IsMember(v, d)' <=> Talk!IsMember(v, d)
           /\ Talk!IsMember(v, d)' => member'[d][v].read <= clock'
      /\ \A v \in People : \A m \in seen'[v] : message[m] # Nobody /\ Talk!IsMember(v, message[m].conv)
      /\ \A m \in Messages, v \in People :
           message[m] # Nobody /\ Talk!IsMember(v, message[m].conv) /\ message[m].sender # v
             /\ <<v, m>> \notin blurred'
           => (message[m].at > member'[message[m].conv][v].read <=> m \notin seen'[v])
      /\ \A q \in WritingOp : (\E s \in Requests : asked[s] = q) => TalkMarks(q)'
  BY <1>2, <1>4, <1>5, <1>6, TalkMarked
<1>8. TalkTypes'
  BY <1>3, <1>4, <1>7 DEF TalkInv, TalkTypes
<1>9. Group \in Talk!Conversations
  BY DEF Talk!Conversations, Talk!Rooms
<1>10. \A d \in Talk!Conversations : Talk!Members(d)' = Talk!Members(d)
  BY <1>7 DEF Talk!Members
<1>11. TalkRooms'
  BY <1>3, <1>10 DEF TalkInv, TalkRooms
<1>12. \A m \in Messages : message[m] # Nobody =>
         message[m].conv \in Talk!Conversations
         /\ \A v \in People : Talk!IsMember(v, message[m].conv)' <=> Talk!IsMember(v, message[m].conv)
  <2>1. \A m \in Messages : message[m] # Nobody => message[m].conv \in Talk!Conversations
    BY DEF TalkInv, TalkTypes, Talk!MessageRow
  <2> QED
    BY <1>3, <1>7, <2>1 DEF Talk!IsMember
<1>13. TalkReads'
  <2>1. \A v \in People : \A m \in seen'[v] : message[m] # Nobody /\ Talk!IsMember(v, message[m].conv)'
    BY <1>7, <1>12
  <2>2. \A m \in Messages, v \in People :
          message[m] # Nobody /\ Talk!IsMember(v, message[m].conv)' /\ message[m].sender # v
            /\ <<v, m>> \notin blurred'
          => (message[m].at > member'[message[m].conv][v].read <=> m \notin seen'[v])
    BY <1>7, <1>12
  <2> QED
    BY <1>3, <1>4, <1>7, <2>1, <2>2, TalkReadBy
<1>14. TalkOvertakes /\ TalkLoads
  BY <1>3, <1>12 DEF TalkOvertakes, TalkLoads
<1>15. Talk!AdminsIn(Group)' = Talk!AdminsIn(Group) /\ (Talk!Live(Group)' <=> Talk!Live(Group))
  BY <1>3, <1>9, <1>10 DEF Talk!AdminsIn, Talk!Live
<1>16. Talk!GroupsKeepAnAdmin'
  BY <1>3, <1>15 DEF TalkInv, Talk!GroupsKeepAnAdmin
<1>17. \A s \in Requests : asked'[s] = Talk!NoRequest => asked[s].kind \notin {"tell", "ring"}
  BY <1>3 DEF Talk!NoRequest
<1> QED
  BY <1>3, <1>4, <1>7, <1>8, <1>11, <1>13, <1>14, <1>15, <1>16, <1>17, TalkRoster

(* Whoever is still a member keeps the mark, and what was seen of the      *)
(* threads one is in is kept.                                              *)
TalkParts ==
  /\ UNCHANGED <<message, clock, blurred>>
  /\ \A d \in Talk!Conversations, v \in People :
       Talk!IsMember(v, d)' => Talk!IsMember(v,
         d) /\ member'[d][v].read = member[d][v].read
  /\ \A v \in People :
       /\ seen'[v] \subseteq seen[v] /\ \A m \in seen'[v] : Talk!IsMember(v, message[m].conv)'
       /\ \A m \in seen[v] \ seen'[v] : ~Talk!IsMember(v, message[m].conv)'

LEMMA TalkFewer ==
  ASSUME TalkInv, TalkParts
  PROVE  TalkReads' /\ \A q \in WritingOp : (\E s \in Requests : asked[s] = q) => TalkMarks(q)'
<1>0. \A m \in Messages : message[m] # Nobody => message[m].conv \in Talk!Conversations
  BY DEF TalkInv, TalkTypes, Talk!MessageRow
<1>1. \A d \in Talk!Conversations, v \in People : Talk!IsMember(v, d)' => member'[d][v].read <= clock'
  BY DEF TalkInv, TalkReads, TalkParts
<1>2. \A v \in People : \A m \in seen'[v] : message[m] # Nobody /\ Talk!IsMember(v, message[m].conv)'
  BY DEF TalkInv, TalkReads, TalkParts
<1>3. ASSUME NEW m \in Messages, NEW v \in People, message[m] # Nobody,
             Talk!IsMember(v, message[m].conv)', message[m].sender # v, <<v,
               m>> \notin blurred'
      PROVE  message[m].at > member'[message[m].conv][v].read <=> m \notin seen'[v]
  <2>1. PICK c \in Talk!Conversations : c = message[m].conv
    BY <1>0, <1>3
  <2>2. member'[c][v] # Nobody
    BY <1>3, <2>1 DEF Talk!IsMember, TalkParts
  <2>3. Talk!IsMember(v, c) /\ member'[c][v].read = member[c][v].read
    BY <2>2 DEF Talk!IsMember, TalkParts
  <2>4. m \in seen[v] <=> m \in seen'[v]
    BY <1>3 DEF TalkParts
  <2> QED
    BY <1>3, <2>1, <2>3, <2>4 DEF TalkInv, TalkReads, Talk!UnreadIsWhatWasNotSeen,
      Talk!Unread, TalkParts
<1>4. clock' \in Nat /\ clock <= clock'
  BY DEF TalkInv, TalkTypes, TalkParts
<1>5. TalkReads'
  BY <1>1, <1>2, <1>3, <1>4, TalkReadBy DEF TalkParts
<1>6. ASSUME NEW q \in WritingOp, NEW s \in Requests, asked[s] = q PROVE TalkMarks(q)'
  <2>1. q.kind = "writing" /\ q.conv \in Talk!Conversations
    BY DEF WritingOp
  <2>2. WritesIn(q)
    BY <1>6, <2>1 DEF TalkInv, TalkAsked, TalkStands
  <2> QED
    BY <2>1, <2>2 DEF TalkMarks, WritesIn, TalkParts
<1> QED
  BY <1>5, <1>6

LEMMA TalkSame ==
  ASSUME TalkInv, UNCHANGED <<message, clock, blurred, member, seen>> PROVE TalkParts
  BY DEF TalkInv, TalkReads, TalkParts, Talk!IsMember

LEMMA TalkMutes ==
  ASSUME Talk!ChatsAssumption, TalkInv, NEW u \in People, NEW c \in Talk!Conversations, NEW muted \in BOOLEAN,
         Talk!SetMute(u, c, muted)
  PROVE  TalkInv'
<1>1. /\ Talk!IsMember(u, c) /\ count < MaxAsked /\ count' = count + 1
      /\ member' = [member EXCEPT ![c][u].muted = muted]
      /\ UNCHANGED <<Talk!accounts, chat, message, objects, tabs, bell, asked, clock, Talk!ghosts>>
  BY DEF Talk!SetMute, Talk!MayTouch, Talk!OneStep
<1>2. UNCHANGED <<active, admins, photo, pictures, chat, message, objects, tabs, bell, asked, clock,
                  seen, blurred, served, stranded>>
  BY <1>1 DEF Talk!accounts, Talk!ghosts
<1>3. PICK row : row = [member[c][u] EXCEPT !.muted = muted]
  OBVIOUS
<1>4. /\ member \in [Talk!Conversations -> [People -> Talk!MemberRow \cup {Nobody}]] /\ Nobody \notin Talk!MemberRow
      /\ clock \in Nat /\ count \in 0..MaxAsked /\ MaxAsked \in Nat
  BY DEF TalkInv, TalkTypes, Talk!ChatsAssumption
<1>5. row \in Talk!MemberRow /\ row # Nobody /\ row.read = member[c][u].read
  <2>1. member[c][u] \in Talk!MemberRow
    BY <1>1, <1>4 DEF Talk!IsMember
  <2> QED
    BY <1>3, <1>4, <2>1 DEF Talk!MemberRow
<1>6. \A d \in Talk!Conversations, v \in People :
        member'[d][v] = IF d = c /\ v = u THEN row ELSE member[d][v]
  BY <1>1, <1>3, <1>4
<1>7. \A d \in Talk!Conversations, v \in People :
        /\ Talk!IsMember(v, d)' <=> Talk!IsMember(v, d)
        /\ member'[d][v].read = member[d][v].read
  BY <1>1, <1>5, <1>6 DEF Talk!IsMember
<1>8. TalkTypes'
  <2>1. member' \in [Talk!Conversations -> [People -> Talk!MemberRow \cup {Nobody}]]
    BY <1>1, <1>3, <1>4, <1>5
  <2>2. count' \in 0..MaxAsked
    BY <1>1, <1>4
  <2> QED
    BY <1>2, <2>1, <2>2 DEF TalkInv, TalkTypes
<1>9. \A d \in Talk!Conversations : Talk!Members(d)' = Talk!Members(d)
  BY <1>7 DEF Talk!Members
<1>10. TalkRooms'
  BY <1>2, <1>9 DEF TalkInv, TalkRooms
<1>11. \A m \in Messages : message[m] # Nobody => message[m].conv \in Talk!Conversations
         /\ \A v \in People : Talk!IsMember(v, message[m].conv)' <=> Talk!IsMember(v, message[m].conv)
  <2>1. \A m \in Messages : message[m] # Nobody => message[m].conv \in Talk!Conversations
    BY DEF TalkInv, TalkTypes, Talk!MessageRow
  <2> QED
    BY <1>2, <1>7, <2>1 DEF Talk!IsMember
<1>12. TalkParts
  <2>1. \A v \in People : \A m \in seen[v] : Talk!IsMember(v, message[m].conv)'
    BY <1>11 DEF TalkInv, TalkTypes, TalkReads
  <2>2. \A d \in Talk!Conversations, v \in People :
          Talk!IsMember(v, d)' => Talk!IsMember(v,
            d) /\ member'[d][v].read = member[d][v].read
    BY <1>7
  <2> QED
    BY <1>2, <2>1, <2>2 DEF TalkParts
<1>13. TalkOvertakes /\ TalkLoads
  BY <1>2, <1>11 DEF TalkOvertakes, TalkLoads
<1>14. Talk!AdminsIn(Group)' = Talk!AdminsIn(Group) /\ (Talk!Live(Group)' <=> Talk!Live(Group))
  <2>1. Group \in Talk!Conversations
    BY DEF Talk!Conversations, Talk!Rooms
  <2> QED
    BY <1>2, <1>9, <2>1 DEF Talk!AdminsIn, Talk!Live
<1>15. Talk!GroupsKeepAnAdmin'
  BY <1>2, <1>14 DEF TalkInv, Talk!GroupsKeepAnAdmin
<1>16. \A s \in Requests : asked'[s] = Talk!NoRequest => asked[s].kind \notin {"tell", "ring"}
  BY <1>2 DEF Talk!NoRequest
<1> QED
  BY <1>2, <1>4, <1>8, <1>10, <1>12, <1>13, <1>14, <1>15, <1>16, TalkFewer, TalkRoster

(* Whether a group takes posts, and whether it is still there.             *)
LEMMA TalkSettings ==
  ASSUME Talk!ChatsAssumption, TalkInv, NEW u \in People, NEW c \in Talk!Conversations,
         Talk!DeleteGroup(u) \/ \E everyone \in BOOLEAN : Talk!SetPosting(u, c,
           everyone)
  PROVE  TalkInv'
<1>1. /\ count < MaxAsked /\ count' = count + 1
      /\ UNCHANGED <<Talk!accounts, member, message, objects, tabs, bell, asked, clock, Talk!ghosts>>
  BY DEF Talk!DeleteGroup, Talk!SetPosting, Talk!OneStep
<1>2. UNCHANGED <<active, admins, photo, pictures, member, message, objects, tabs, bell, asked, clock,
                  seen, blurred, served, stranded>>
  BY <1>1 DEF Talk!accounts, Talk!ghosts
<1>3. /\ chat \in [Talk!Conversations -> Talk!ChatRow \cup {Nobody}] /\ Nobody \notin Talk!ChatRow
      /\ clock \in Nat /\ count \in 0..MaxAsked /\ MaxAsked \in Nat
      /\ Group \in Talk!Conversations /\ Community \in Talk!Conversations
  BY DEF TalkInv, TalkTypes, Talk!ChatsAssumption, Talk!Conversations, Talk!Rooms
<1>4. PICK d \in Talk!Conversations, row \in Talk!ChatRow :
        /\ chat[d] # Nobody /\ chat' = [chat EXCEPT ![d] = row] /\ (~row.archived => ~chat[d].archived)
  <2>1. CASE Talk!DeleteGroup(u)
    <3>1. PICK row : row = [chat[Group] EXCEPT !.archived = TRUE]
      OBVIOUS
    <3>2. chat[Group] \in Talk!ChatRow
      BY <1>3, <2>1 DEF Talk!DeleteGroup, Talk!MayTouch, Talk!Live
    <3>3. row \in Talk!ChatRow /\ row.archived
      BY <3>1, <3>2 DEF Talk!ChatRow
    <3>4. chat' = [chat EXCEPT ![Group] = row] /\ chat[Group] # Nobody
      BY <1>3, <2>1, <3>1, <3>2 DEF Talk!DeleteGroup
    <3> QED
      BY <1>3, <3>3, <3>4
  <2>2. ASSUME NEW everyone \in BOOLEAN, Talk!SetPosting(u, c, everyone)
        PROVE  \E d \in Talk!Conversations, row \in Talk!ChatRow :
                 /\ chat[d] # Nobody /\ chat' = [chat EXCEPT ![d] = row]
                 /\ (~row.archived => ~chat[d].archived)
    <3>1. PICK row : row = [chat[c] EXCEPT !.everyone = everyone]
      OBVIOUS
    <3>2. chat[c] \in Talk!ChatRow
      BY <1>3, <2>2 DEF Talk!SetPosting, Talk!MayTouch, Talk!Live
    <3>3. row \in Talk!ChatRow /\ row.archived = chat[c].archived
      BY <3>1, <3>2 DEF Talk!ChatRow
    <3>4. chat' = [chat EXCEPT ![c] = row] /\ chat[c] # Nobody
      BY <1>3, <2>2, <3>1, <3>2 DEF Talk!SetPosting
    <3> QED
      BY <3>3, <3>4
  <2> QED
    BY <2>1, <2>2
<1>5. \A e \in Talk!Conversations : chat'[e] = IF e = d THEN row ELSE chat[e]
  BY <1>3, <1>4
<1>6. \A e \in Talk!Conversations : (chat'[e] = Nobody <=> chat[e] = Nobody) /\ (Talk!Live(e)' => Talk!Live(e))
  BY <1>3, <1>4, <1>5 DEF Talk!Live
<1>7. TalkTypes'
  <2>1. chat' \in [Talk!Conversations -> Talk!ChatRow \cup {Nobody}]
    BY <1>3, <1>4
  <2>2. count' \in 0..MaxAsked
    BY <1>1, <1>3
  <2> QED
    BY <1>2, <2>1, <2>2 DEF TalkInv, TalkTypes
<1>8. TalkRooms'
  BY <1>2, <1>3, <1>6 DEF TalkInv, TalkRooms, Talk!Members, Talk!IsMember
<1>9. TalkParts
  BY <1>2, TalkSame
<1>10. TalkOvertakes /\ TalkLoads
  BY <1>2 DEF TalkOvertakes, TalkLoads, Talk!IsMember
<1>11. Talk!AdminsIn(Group)' = Talk!AdminsIn(Group)
  BY <1>2 DEF Talk!AdminsIn, Talk!Members, Talk!IsMember
<1>12. Talk!GroupsKeepAnAdmin'
  BY <1>2, <1>3, <1>6, <1>11 DEF TalkInv, Talk!GroupsKeepAnAdmin
<1>13. \A s \in Requests : asked'[s] = Talk!NoRequest => asked[s].kind \notin {"tell", "ring"}
  BY <1>2 DEF Talk!NoRequest
<1> QED
  BY <1>2, <1>3, <1>6, <1>7, <1>8, <1>9, <1>10, <1>11, <1>12, <1>13, TalkFewer,
    TalkRoster

LEMMA TalkTabs ==
  ASSUME Talk!ChatsAssumption, TalkInv, NEW u \in People, Talk!OpenTab(u) \/ Talk!CloseTab(u)
  PROVE  TalkInv'
<1>1. /\ count < MaxAsked /\ count' = count + 1 /\ tabs' \subseteq People
      /\ UNCHANGED <<active, admins, photo, pictures, chat, member, message, objects, bell, asked,
                     clock, seen, blurred, stranded>>
      /\ served' \in [Messages -> SUBSET People]
      /\ \A m \in Messages : served[m] \subseteq served'[m]
      /\ \A v \in tabs' \ tabs : \A m \in Messages : Talk!TooLate(v, m) => v \in served'[m]
  <2>0. served \in [Messages -> SUBSET People] /\ tabs \subseteq People /\ active \subseteq People
    BY DEF TalkInv, TalkTypes
  <2>1. CASE Talk!OpenTab(u)
    <3>1. /\ served' = [m \in Messages |-> IF Talk!TooLate(u, m) THEN served[m] \cup {u} ELSE served[m]]
          /\ tabs' = tabs \cup {u} /\ u \in active
      BY <2>1 DEF Talk!OpenTab
    <3>2. \A m \in Messages : served'[m] = IF Talk!TooLate(u, m) THEN served[m] \cup {u} ELSE served[m]
      BY <3>1
    <3>3. served' \in [Messages -> SUBSET People]
      BY <2>0, <3>1
    <3> QED
      BY <2>0, <2>1, <3>1, <3>2, <3>3 DEF Talk!OpenTab, Talk!OneStep, Talk!accounts
  <2>2. CASE Talk!CloseTab(u)
    BY <2>0, <2>2 DEF Talk!CloseTab, Talk!OneStep, Talk!accounts, Talk!ghosts
  <2> QED
    BY <2>1, <2>2
<1>2. TalkTypes'
  <2>1. count' \in 0..MaxAsked
    BY <1>1 DEF TalkInv, TalkTypes, Talk!ChatsAssumption
  <2> QED
    BY <1>1, <2>1 DEF TalkInv, TalkTypes
<1>3. TalkRooms'
  BY <1>1 DEF TalkInv, TalkRooms, Talk!Members, Talk!IsMember
<1>4. TalkParts
  BY <1>1, TalkSame
<1>5. TalkOvertakes /\ TalkLoads
  BY <1>1 DEF TalkOvertakes, TalkLoads, Talk!IsMember
<1>6. Talk!AdminsIn(Group)' = Talk!AdminsIn(Group) /\ (Talk!Live(Group)' <=> Talk!Live(Group))
  BY <1>1 DEF Talk!AdminsIn, Talk!Members, Talk!IsMember, Talk!Live
<1>7. Talk!GroupsKeepAnAdmin'
  BY <1>1, <1>6 DEF TalkInv, Talk!GroupsKeepAnAdmin
<1>8. \A s \in Requests : asked'[s] = Talk!NoRequest => asked[s].kind \notin {"tell", "ring"}
  BY <1>1 DEF Talk!NoRequest
<1>9. clock' \in Nat /\ clock <= clock'
  BY <1>1 DEF TalkInv, TalkTypes
<1> QED
  BY <1>1, <1>2, <1>3, <1>4, <1>5, <1>6, <1>7, <1>8, <1>9, TalkFewer, TalkRoster

(* Whoever joins finds the thread as it is, unread.                        *)
LEMMA TalkJoined ==
  ASSUME Talk!ChatsAssumption, TalkInv, NEW us \in SUBSET People, NEW c \in Talk!Conversations, Talk!With(us, c),
         UNCHANGED <<message, clock, seen>>
  PROVE  /\ member' \in [Talk!Conversations -> [People -> Talk!MemberRow \cup {Nobody}]]
         /\ served' \in [Messages -> SUBSET People] /\ blurred' \subseteq People \X Messages
         /\ \A d \in Talk!Conversations, v \in People : Talk!IsMember(v, d)' <=> Talk!IsMember(v, d) \/ (d = c /\ v \in us)
         /\ TalkReads' /\ \A q \in WritingOp : (\E s \in Requests : asked[s] = q) => TalkMarks(q)'
         /\ \A m \in Messages : message[m] # Nobody =>
              /\ served[m] \subseteq served'[m]
              /\ \A v \in People : Talk!IsMember(v, message[m].conv)' /\ v \notin served'[m] =>
                   Talk!IsMember(v, message[m].conv)
<1>0. /\ member \in [Talk!Conversations -> [People -> Talk!MemberRow \cup {Nobody}]]
      /\ served \in [Messages -> SUBSET People] /\ blurred \subseteq People \X Messages
      /\ seen \in [People -> SUBSET Messages] /\ clock \in Nat
      /\ Talk!Row \in Talk!MemberRow /\ Talk!Row # Nobody /\ Talk!Row.read = 0
      /\ \A m \in Messages : message[m] # Nobody =>
           message[m].conv \in Talk!Conversations /\ message[m].at \in Nat /\ message[m].at \in 1..clock
  <2>1. Talk!Row \in Talk!MemberRow /\ Talk!Row.read = 0
    BY DEF Talk!Row, Talk!MemberRow
  <2>2. \A m \in Messages : message[m] # Nobody =>
           message[m].conv \in Talk!Conversations /\ message[m].at \in Nat /\ message[m].at \in 1..clock
    BY DEF TalkInv, TalkTypes, TalkReads, Talk!MessageRow
  <2> QED
    BY <2>1, <2>2 DEF TalkInv, TalkTypes, Talk!ChatsAssumption
<1>1. PICK new \in SUBSET People : new = {u \in us : ~Talk!IsMember(u, c)}
  OBVIOUS
<1>2. /\ member' = [member EXCEPT ![c] = [u \in People |-> IF u \in new THEN Talk!Row ELSE @[u]]]
      /\ served' = [m \in Messages |-> IF Talk!In(c, m) THEN served[m] \cup new ELSE served[m]]
      /\ blurred' = {x \in blurred : ~(x[1] \in new /\ Talk!In(c, x[2]))}
  BY <1>1 DEF Talk!With
<1>3. \A d \in Talk!Conversations, v \in People :
        member'[d][v] = IF d = c /\ v \in new THEN Talk!Row ELSE member[d][v]
  BY <1>0, <1>2
<1>4. member' \in [Talk!Conversations -> [People -> Talk!MemberRow \cup {Nobody}]]
  <2>1. [u \in People |-> IF u \in new THEN Talk!Row ELSE member[c][u]] \in [People -> Talk!MemberRow \cup {Nobody}]
    BY <1>0
  <2> QED
    BY <1>0, <1>2, <2>1
<1>5. \A m \in Messages : served'[m] = IF Talk!In(c, m) THEN served[m] \cup new ELSE served[m]
  BY <1>2
<1>6. served' \in [Messages -> SUBSET People] /\ blurred' \subseteq People \X Messages
  BY <1>0, <1>2
<1>7. \A d \in Talk!Conversations, v \in People : Talk!IsMember(v, d)' <=> Talk!IsMember(v, d) \/ (d = c /\ v \in us)
  BY <1>0, <1>1, <1>3 DEF Talk!IsMember
<1>8. \A d \in Talk!Conversations, v \in People :
        Talk!IsMember(v, d)' =>
          \/ d = c /\ v \in new /\ ~Talk!IsMember(v, d) /\ member'[d][v].read = 0
          \/ ~(d = c /\ v \in new) /\ Talk!IsMember(v, d) /\ member'[d][v] = member[d][v]
  BY <1>0, <1>1, <1>3 DEF Talk!IsMember
<1>9. \A d \in Talk!Conversations, v \in People : Talk!IsMember(v, d)' => member'[d][v].read <= clock'
  BY <1>0, <1>8 DEF TalkInv, TalkReads
<1>10. \A v \in People : \A m \in seen'[v] : message[m] # Nobody /\ Talk!IsMember(v, message[m].conv)'
  <2> SUFFICES ASSUME NEW v \in People, NEW m \in seen[v]
               PROVE  message[m] # Nobody /\ Talk!IsMember(v, message[m].conv)'
    OBVIOUS
  <2>1. m \in Messages /\ message[m] # Nobody /\ Talk!IsMember(v, message[m].conv)
    BY <1>0 DEF TalkInv, TalkReads
  <2>2. PICK d \in Talk!Conversations : d = message[m].conv
    BY <1>0, <2>1
  <2>3. member'[d][v] # Nobody
    BY <1>7, <2>1, <2>2 DEF Talk!IsMember
  <2> QED
    BY <2>1, <2>2, <2>3 DEF Talk!IsMember
<1>11. ASSUME NEW m \in Messages, NEW v \in People, message[m] # Nobody,
              Talk!IsMember(v, message[m].conv)', message[m].sender # v, <<v,
                m>> \notin blurred'
       PROVE  message[m].at > member'[message[m].conv][v].read <=> m \notin seen'[v]
  <2>1. PICK d \in Talk!Conversations : d = message[m].conv
    BY <1>0, <1>11
  <2>2. Talk!IsMember(v, d)'
    BY <1>11, <2>1 DEF Talk!IsMember
  <2>3. CASE d = c /\ v \in new
    <3>1. ~Talk!IsMember(v, d) /\ member'[d][v].read = 0
      BY <1>8, <2>2, <2>3
    <3>2. m \notin seen[v]
      BY <2>1, <3>1 DEF TalkInv, TalkReads
    <3>3. message[m].at \in Nat /\ message[m].at > 0
      BY <1>0, <1>11
    <3> QED
      BY <2>1, <3>1, <3>2, <3>3
  <2>4. CASE ~(d = c /\ v \in new)
    <3>1. Talk!IsMember(v, d) /\ member'[d][v] = member[d][v]
      BY <1>8, <2>2, <2>4
    <3>2. <<v, m>> \notin blurred
      BY <1>2, <1>11, <2>1, <2>4 DEF Talk!In
    <3> QED
      BY <1>11, <2>1, <3>1, <3>2 DEF TalkInv, TalkReads, Talk!UnreadIsWhatWasNotSeen,
        Talk!Unread
  <2> QED
    BY <2>3, <2>4
<1>12. TalkReads'
  <2>1. \A m \in Messages, v \in People :
          message[m] # Nobody /\ Talk!IsMember(v, message[m].conv)' /\ message[m].sender # v
            /\ <<v, m>> \notin blurred'
          => (message[m].at > member'[message[m].conv][v].read <=> m \notin seen'[v])
    BY <1>11
  <2>2. clock' \in Nat /\ clock <= clock'
    BY <1>0
  <2> QED
    BY <1>9, <1>10, <2>1, <2>2, TalkReadBy
<1>13. ASSUME NEW q \in WritingOp, NEW s \in Requests, asked[s] = q PROVE TalkMarks(q)'
  <2>1. q.kind = "writing" /\ q.conv \in Talk!Conversations
    BY DEF WritingOp
  <2>2. TalkStands(q)
    BY <1>13 DEF TalkInv, TalkAsked
  <2>3. WritesIn(q) /\ Sends(q) /\ q.at \in 1..clock
    BY <2>1, <2>2 DEF TalkStands, WritesIn
  <2>4. ~Talk!In(c, q.msg)
    BY <2>3 DEF Sends, Talk!In
  <2> SUFFICES ASSUME NEW v \in People, Talk!IsMember(v, q.conv)', q.at <= member'[q.conv][v].read
               PROVE  <<v, q.msg>> \in blurred'
    BY DEF TalkMarks
  <2>5. Talk!IsMember(v, q.conv) /\ member'[q.conv][v] = member[q.conv][v]
    BY <1>0, <1>8, <2>1, <2>3
  <2>6. <<v, q.msg>> \in blurred
    BY <2>3, <2>5 DEF WritesIn
  <2> QED
    BY <1>2, <2>4, <2>6
<1>14. ASSUME NEW m \in Messages, message[m] # Nobody
       PROVE  /\ served[m] \subseteq served'[m]
              /\ \A v \in People : Talk!IsMember(v, message[m].conv)' /\ v \notin served'[m] =>
                   Talk!IsMember(v, message[m].conv)
  <2>1. PICK d \in Talk!Conversations : d = message[m].conv
    BY <1>0, <1>14
  <2>2. ASSUME NEW v \in People, member'[d][v] # Nobody, v \notin served'[m] PROVE Talk!IsMember(v, d)
    <3>1. Talk!IsMember(v, d)'
      BY <2>2 DEF Talk!IsMember
    <3>2. ~(d = c /\ v \in new)
      BY <1>5, <1>14, <2>1, <2>2 DEF Talk!In
    <3> QED
      BY <1>8, <3>1, <3>2
  <2> QED
    BY <1>5, <2>1, <2>2 DEF Talk!IsMember
<1> QED
  BY <1>4, <1>6, <1>7, <1>12, <1>13, <1>14

(* Conversations that gain members, in the ways the program has.           *)
LEMMA TalkJoins ==
  ASSUME Talk!ChatsAssumption, TalkInv, NEW us \in SUBSET People, NEW c \in Talk!Conversations, Talk!With(us, c),
         UNCHANGED <<photo, pictures, message, objects, bell, clock, seen>>,
         active' \subseteq People, admins' \subseteq People, tabs' \subseteq People, tabs' \subseteq tabs,
         chat' \in [Talk!Conversations -> Talk!ChatRow \cup {Nobody}],
         \A d \in Talk!Conversations : d # c => chat'[d] = chat[d],
         chat'[c] # Nobody, c \notin Talk!Rooms => us = c,
         asked' \in [Requests -> TalkOps], count' \in 0..MaxAsked, stranded' \in BOOLEAN,
         TalkOvertakes, Talk!GroupsKeepAnAdmin',
         \A s \in Requests : asked'[s] = Talk!NoRequest => asked[s].kind \notin {"tell", "ring"},
         \/ \A s \in Requests : asked'[s].kind = "leave" => ~asked'[s].alone
         \/ /\ chat[Group] # Nobody /\ Talk!Live(Group)' => Talk!Live(Group)
            /\ stranded' = stranded /\ UNCHANGED <<active, admins>>
  PROVE  TalkInv'
<1>1. /\ member' \in [Talk!Conversations -> [People -> Talk!MemberRow \cup {Nobody}]]
      /\ served' \in [Messages -> SUBSET People] /\ blurred' \subseteq People \X Messages
      /\ \A d \in Talk!Conversations, v \in People : Talk!IsMember(v, d)' <=> Talk!IsMember(v, d) \/ (d = c /\ v \in us)
      /\ TalkReads' /\ \A q \in WritingOp : (\E s \in Requests : asked[s] = q) => TalkMarks(q)'
      /\ \A m \in Messages : message[m] # Nobody =>
           /\ served[m] \subseteq served'[m]
           /\ \A v \in People : Talk!IsMember(v, message[m].conv)' /\ v \notin served'[m] =>
                Talk!IsMember(v, message[m].conv)
  BY TalkJoined
<1>2. TalkTypes'
  BY <1>1 DEF TalkInv, TalkTypes
<1>3. \A d \in Talk!Conversations : Talk!Members(d)' = IF d = c THEN Talk!Members(d) \cup us ELSE Talk!Members(d)
  BY <1>1 DEF Talk!Members
<1>4. Group \in Talk!Conversations /\ Community \in Talk!Conversations
  BY DEF Talk!Conversations, Talk!Rooms
<1>5. TalkRooms'
  <2>1. chat'[Community] # Nobody
    BY <1>4 DEF TalkInv, TalkRooms
  <2>2. ASSUME NEW d \in Talk!Conversations
        PROVE  /\ chat'[d] = Nobody => Talk!Members(d)' = {}
               /\ d \notin Talk!Rooms => Talk!Members(d)' \in {{}, d}
    <3>1. CASE d = c
      <4>1. d \notin Talk!Rooms => Talk!Members(d)' = d
        <5>1. d \notin Talk!Rooms => Talk!Members(d) \in {{}, d} /\ us = d
          BY <3>1 DEF TalkInv, TalkRooms
        <5> QED
          BY <1>3, <3>1, <5>1
      <4> QED
        BY <3>1, <4>1
    <3>2. CASE d # c
      BY <1>3, <3>2 DEF TalkInv, TalkRooms
    <3> QED
      BY <3>1, <3>2
  <2> QED
    BY <2>1, <2>2 DEF TalkRooms
<1>6. TalkLoads
  BY <1>1 DEF TalkLoads
<1>7. UNCHANGED <<active, admins>> => Talk!AdminsIn(Group) \subseteq Talk!AdminsIn(Group)'
  BY <1>3, <1>4 DEF Talk!AdminsIn
<1>8. clock' \in Nat /\ clock <= clock'
  BY DEF TalkInv, TalkTypes
<1>9. chat[Group] # Nobody => chat'[Group] # Nobody
  BY <1>4
<1>10. \/ \A s \in Requests : asked'[s].kind = "leave" => ~asked'[s].alone
       \/ /\ chat[Group] # Nobody /\ Talk!Live(Group)' => Talk!Live(Group)
          /\ stranded' = stranded /\ Talk!AdminsIn(Group) \subseteq Talk!AdminsIn(Group)'
  BY <1>7
<1> QED
  BY <1>1, <1>2, <1>5, <1>6, <1>8, <1>9, <1>10, TalkRoster

LEMMA TalkOvertaken ==
  ASSUME TalkInv,
         \/ asked' = Talk!Overtaken
         \/ \E r \in Requests : asked[r].kind = "leave" /\ asked' = [Talk!Overtaken EXCEPT ![r] = Talk!NoRequest]
  PROVE  /\ asked' \in [Requests -> TalkOps] /\ TalkOvertakes
         /\ \A s \in Requests : asked'[s].kind = "leave" => ~asked'[s].alone
         /\ \A s \in Requests : asked'[s] = Talk!NoRequest => asked[s].kind \notin {"tell", "ring"}
<1>0. Talk!NoRequest.kind = "idle" /\ Talk!NoRequest \in TalkOps
  BY DEF Talk!NoRequest, TalkOps
<1>1. \A s \in Requests :
        /\ asked[s] \in TalkOps /\ Talk!Overtaken[s] \in TalkOps
        /\ asked[s].kind = "leave" =>
             /\ Talk!Overtaken[s] = [asked[s] EXCEPT !.alone = FALSE]
             /\ Talk!Overtaken[s].kind = "leave" /\ ~Talk!Overtaken[s].alone
        /\ asked[s].kind # "leave" => Talk!Overtaken[s] = asked[s]
  <2> SUFFICES ASSUME NEW s \in Requests
               PROVE  /\ asked[s] \in TalkOps /\ Talk!Overtaken[s] \in TalkOps
                      /\ asked[s].kind = "leave" =>
                           /\ Talk!Overtaken[s] = [asked[s] EXCEPT !.alone = FALSE]
                           /\ Talk!Overtaken[s].kind = "leave" /\ ~Talk!Overtaken[s].alone
                      /\ asked[s].kind # "leave" => Talk!Overtaken[s] = asked[s]
    OBVIOUS
  <2>1. asked[s] \in TalkOps
    BY DEF TalkInv, TalkTypes
  <2>2. CASE asked[s].kind = "leave"
    <3>1. asked[s] \in LeaveOp
      BY <2>1, <2>2, TalkOp
    <3>2. Talk!Overtaken[s] = [asked[s] EXCEPT !.alone = FALSE]
      BY <2>2 DEF Talk!Overtaken
    <3>3. Talk!Overtaken[s] \in LeaveOp /\ ~Talk!Overtaken[s].alone /\ Talk!Overtaken[s].kind = "leave"
      BY <3>1, <3>2 DEF LeaveOp
    <3>4. Talk!Overtaken[s] \in TalkOps
      BY <3>3 DEF TalkOps
    <3> QED
      BY <2>1, <2>2, <3>2, <3>3, <3>4
  <2>3. CASE asked[s].kind # "leave"
    BY <2>1, <2>3 DEF Talk!Overtaken
  <2> QED
    BY <2>2, <2>3
<1>2. \A s \in Requests :
        asked'[s] = Talk!Overtaken[s] \/ (asked'[s] = Talk!NoRequest /\ asked[s].kind = "leave")
  BY DEF Talk!Overtaken
<1>3. asked' \in [Requests -> TalkOps]
  <2>1. \A s \in Requests : asked'[s] \in TalkOps
    BY <1>0, <1>1, <1>2
  <2> QED
    BY <2>1 DEF Talk!Overtaken
<1>4. TalkOvertakes
  BY <1>1, <1>2 DEF TalkOvertakes
<1>5. \A s \in Requests : asked'[s].kind = "leave" => ~asked'[s].alone
  <2> SUFFICES ASSUME NEW s \in Requests, asked'[s].kind = "leave" PROVE ~asked'[s].alone
    OBVIOUS
  <2>1. asked'[s] = Talk!Overtaken[s]
    BY <1>0, <1>2
  <2>2. asked[s].kind = "leave"
    BY <1>1, <2>1
  <2> QED
    BY <1>1, <2>1, <2>2
<1>6. \A s \in Requests : asked'[s] = Talk!NoRequest => asked[s].kind \notin {"tell", "ring"}
  BY <1>0, <1>1, <1>2
<1> QED
  BY <1>3, <1>4, <1>5, <1>6

(* Sets are counted alike in every module.                                 *)
LEMMA TalkCounts ==
  ASSUME NEW S PROVE Talk!Cardinality(S) = Cardinality(S)
BY DEF Talk!Cardinality, Cardinality

LEMMA TalkPair == ASSUME NEW u \in People, NEW v \in People, u # v PROVE {u, v} \in Talk!Directs
<1>1. Cardinality({u}) = 1 /\ IsFiniteSet({u})
  BY FS_Singleton
<1>2. Cardinality({u} \cup {v}) = 2
  BY <1>1, FS_AddElement
<1>3. {u} \cup {v} = {u, v}
  OBVIOUS
<1> QED
  BY <1>2, <1>3, TalkCounts DEF Talk!Directs

LEMMA TalkOpens ==
  ASSUME Talk!ChatsAssumption, TalkInv, NEW u \in People, NEW v \in People, Talk!OpenDirect(u, v)
  PROVE  TalkInv'
<1>0. /\ chat \in [Talk!Conversations -> Talk!ChatRow \cup {Nobody}] /\ Nobody \notin Talk!ChatRow
      /\ count \in 0..MaxAsked /\ MaxAsked \in Nat /\ asked \in [Requests -> TalkOps]
      /\ stranded \in BOOLEAN
  BY DEF TalkInv, TalkTypes, Talk!ChatsAssumption
<1>1. PICK c : c = {u, v}
  OBVIOUS
<1>2. /\ count < MaxAsked /\ count' = count + 1 /\ u # v
      /\ chat' = [chat EXCEPT ![c] = [archived |-> FALSE, everyone |-> TRUE]]
      /\ Talk!With(c, c)
      /\ UNCHANGED <<active, admins, photo, pictures, message, objects, tabs, bell, asked, clock,
                     seen, stranded>>
  BY <1>1 DEF Talk!OpenDirect, Talk!OneStep, Talk!CanOpenDirect, Talk!accounts
<1>3. c \in Talk!Directs
  BY <1>1, <1>2, TalkPair
<1>4. c \in Talk!Conversations /\ c # Group /\ c \in SUBSET People /\ Group \in Talk!Conversations
  BY <1>1, <1>3 DEF Talk!Conversations, Talk!ChatsAssumption, Talk!Rooms
<1>5. PICK row \in Talk!ChatRow : row = [archived |-> FALSE, everyone |-> TRUE]
  BY DEF Talk!ChatRow
<1>6. /\ \A d \in Talk!Conversations : d # c => chat'[d] = chat[d]
      /\ chat'[c] # Nobody /\ chat' \in [Talk!Conversations -> Talk!ChatRow \cup {Nobody}]
  BY <1>0, <1>2, <1>4, <1>5
<1>7. Talk!Live(Group)' <=> Talk!Live(Group)
  BY <1>4, <1>6 DEF Talk!Live
<1>8. \A x \in Talk!Members(Group) : x \in Talk!Members(Group)'
  <2>1. \A d \in Talk!Conversations, x \in People : Talk!IsMember(x, d)' <=> Talk!IsMember(x, d) \/ (d = c /\ x \in c)
    BY <1>2, <1>4, TalkJoined
  <2> QED
    BY <1>4, <2>1 DEF Talk!Members
<1>9. Talk!GroupsKeepAnAdmin'
  <2>1. Talk!AdminsIn(Group) \subseteq Talk!AdminsIn(Group)'
    BY <1>2, <1>8 DEF Talk!AdminsIn
  <2> QED
    BY <1>2, <1>7, <2>1 DEF TalkInv, Talk!GroupsKeepAnAdmin
<1>10. TalkOvertakes /\ count' \in 0..MaxAsked /\ asked' \in [Requests -> TalkOps]
  BY <1>0, <1>2 DEF TalkOvertakes
<1>11. \A s \in Requests : asked'[s] = Talk!NoRequest => asked[s].kind \notin {"tell", "ring"}
  BY <1>2 DEF Talk!NoRequest
<1>12. active' \subseteq People /\ admins' \subseteq People /\ tabs' \subseteq People /\ tabs' \subseteq tabs
  BY <1>2 DEF TalkInv, TalkTypes
<1>13. chat[Group] # Nobody /\ Talk!Live(Group)' => Talk!Live(Group)
  BY <1>7
<1> QED
  BY <1>0, <1>2, <1>4, <1>6, <1>9, <1>10, <1>11, <1>12, <1>13, TalkJoins

(* Whoever is let into a room that is there.                               *)
LEMMA TalkAdds ==
  ASSUME Talk!ChatsAssumption, TalkInv, NEW us \in SUBSET People, NEW c \in Talk!Rooms, Talk!With(us, c),
         chat[c] # Nobody, count < MaxAsked, count' = count + 1,
         UNCHANGED <<active, admins, photo, pictures, chat, message, objects, tabs, bell, asked, clock,
                     seen, stranded>>
  PROVE  TalkInv'
<1>1. c \in Talk!Conversations /\ Group \in Talk!Conversations
  BY DEF Talk!Conversations, Talk!Rooms
<1>2. /\ chat \in [Talk!Conversations -> Talk!ChatRow \cup {Nobody}]
      /\ count \in 0..MaxAsked /\ MaxAsked \in Nat /\ asked \in [Requests -> TalkOps]
      /\ stranded \in BOOLEAN
      /\ active' \subseteq People /\ admins' \subseteq People /\ tabs' \subseteq People /\ tabs' \subseteq tabs
  BY DEF TalkInv, TalkTypes, Talk!ChatsAssumption
<1>3. Talk!Live(Group)' <=> Talk!Live(Group)
  BY DEF Talk!Live
<1>4. \A d \in Talk!Conversations, x \in People : Talk!IsMember(x, d)' <=> Talk!IsMember(x, d) \/ (d = c /\ x \in us)
  BY <1>1, TalkJoined
<1>5. Talk!AdminsIn(Group) \subseteq Talk!AdminsIn(Group)'
  BY <1>1, <1>4 DEF Talk!AdminsIn, Talk!Members
<1>6. Talk!GroupsKeepAnAdmin'
  BY <1>3, <1>5 DEF TalkInv, Talk!GroupsKeepAnAdmin
<1>7. TalkOvertakes /\ count' \in 0..MaxAsked
  BY <1>2 DEF TalkOvertakes
<1>8. \A s \in Requests : asked'[s] = Talk!NoRequest => asked[s].kind \notin {"tell", "ring"}
  BY DEF Talk!NoRequest
<1> QED
  BY <1>1, <1>2, <1>3, <1>6, <1>7, <1>8, TalkJoins

LEMMA TalkLetsIn ==
  ASSUME Talk!ChatsAssumption, TalkInv,
         \/ Talk!EnsureCommunity
         \/ \E u, v \in People, c \in Talk!Conversations : Talk!AddMember(u, c, v)
  PROVE  TalkInv'
<1>1. CASE Talk!EnsureCommunity
  <2>1. Community \in Talk!Rooms /\ chat[Community] # Nobody /\ active \in SUBSET People
    BY DEF Talk!Rooms, TalkInv, TalkRooms, TalkTypes
  <2> QED
    BY <1>1, <2>1, TalkAdds DEF Talk!EnsureCommunity, Talk!OneStep, Talk!accounts
<1>2. ASSUME NEW u \in People, NEW v \in People, NEW c \in Talk!Conversations, Talk!AddMember(u, c, v)
      PROVE  TalkInv'
  <2>1. c \in Talk!Rooms /\ chat[c] # Nobody /\ {v} \in SUBSET People
    BY <1>2 DEF Talk!AddMember, Talk!CanManage, Talk!MayTouch, Talk!Live
  <2> QED
    BY <1>2, <2>1, TalkAdds DEF Talk!AddMember, Talk!OneStep, Talk!accounts
<1> QED
  BY <1>1, <1>2

LEMMA TalkCreates ==
  ASSUME Talk!ChatsAssumption, TalkInv, NEW u \in People, NEW others \in SUBSET People,
         NEW everyone \in BOOLEAN, Talk!CreateGroup(u, others, everyone)
  PROVE  TalkInv'
<1>0. /\ chat \in [Talk!Conversations -> Talk!ChatRow \cup {Nobody}] /\ Nobody \notin Talk!ChatRow
      /\ count \in 0..MaxAsked /\ MaxAsked \in Nat /\ asked \in [Requests -> TalkOps]
      /\ stranded \in BOOLEAN /\ Group \in Talk!Conversations /\ Group \in Talk!Rooms
      /\ \A s \in Requests : TalkStands(asked[s])
  BY DEF TalkInv, TalkTypes, TalkAsked, Talk!ChatsAssumption, Talk!Conversations,
    Talk!Rooms
<1>1. PICK us \in SUBSET People : us = {u} \cup others
  OBVIOUS
<1>2. /\ count < MaxAsked /\ count' = count + 1 /\ u \in admins /\ u \in active /\ chat[Group] = Nobody
      /\ chat' = [chat EXCEPT ![Group] = [archived |-> FALSE, everyone |-> everyone]]
      /\ Talk!With(us, Group)
      /\ UNCHANGED <<active, admins, photo, pictures, message, objects, tabs, bell, asked, clock,
                     seen, stranded>>
  BY <1>1 DEF Talk!CreateGroup, Talk!OneStep, Talk!accounts
<1>3. PICK row \in Talk!ChatRow : row = [archived |-> FALSE, everyone |-> everyone]
  BY DEF Talk!ChatRow
<1>4. /\ \A d \in Talk!Conversations : d # Group => chat'[d] = chat[d]
      /\ chat'[Group] # Nobody /\ chat' \in [Talk!Conversations -> Talk!ChatRow \cup {Nobody}]
  BY <1>0, <1>2, <1>3
<1>5. \A d \in Talk!Conversations, x \in People :
        Talk!IsMember(x, d)' <=> Talk!IsMember(x, d) \/ (d = Group /\ x \in us)
  BY <1>0, <1>2, TalkJoined
<1>6. Talk!GroupsKeepAnAdmin'
  <2>1. u \in Talk!AdminsIn(Group)'
    BY <1>0, <1>1, <1>2, <1>5 DEF Talk!AdminsIn, Talk!Members
  <2> QED
    BY <2>1 DEF Talk!GroupsKeepAnAdmin
<1>7. TalkOvertakes /\ count' \in 0..MaxAsked /\ asked' \in [Requests -> TalkOps]
  BY <1>0, <1>2 DEF TalkOvertakes
<1>8. \A s \in Requests : asked'[s] = Talk!NoRequest => asked[s].kind \notin {"tell", "ring"}
  BY <1>2 DEF Talk!NoRequest
<1>9. active' \subseteq People /\ admins' \subseteq People /\ tabs' \subseteq People /\ tabs' \subseteq tabs
  BY <1>2 DEF TalkInv, TalkTypes
<1>10. \A s \in Requests : asked'[s].kind = "leave" => ~asked'[s].alone
  BY <1>0, <1>2 DEF TalkStands, GoesWell
<1> QED
  BY <1>0, <1>2, <1>4, <1>6, <1>7, <1>8, <1>9, <1>10, TalkJoins

(* Staff changes an account.                                               *)
LEMMA TalkAccounts ==
  ASSUME Talk!ChatsAssumption, TalkInv, NEW u \in People, Talk!Activate(u) \/ Talk!Deactivate(u) \/ Talk!SetAdmin(u)
  PROVE  TalkInv'
<1>1. PICK as \in SUBSET People, adm \in SUBSET People : Talk!Account(as, adm)
  <2>1. active \cup {u} \in SUBSET People /\ active \ {u} \in SUBSET People /\ active \in SUBSET People
        /\ admins \in SUBSET People
        /\ (IF u \in admins THEN admins \ {u} ELSE admins \cup {u}) \in SUBSET People
    BY DEF TalkInv, TalkTypes
  <2> QED
    BY <2>1 DEF Talk!Activate, Talk!Deactivate, Talk!SetAdmin
<1>2. /\ count < MaxAsked /\ count' = count + 1 /\ active' = as /\ admins' = adm
      /\ tabs' = tabs /\ asked' = Talk!Overtaken
      /\ stranded' = (stranded \/ ~\E x \in Talk!Members(Group) : x \in as /\ x \in adm)
      /\ UNCHANGED <<chat, message, objects, photo, pictures, bell, clock>>
  BY <1>1 DEF Talk!Account, Talk!OneStep
<1>3. /\ asked' \in [Requests -> TalkOps] /\ TalkOvertakes
      /\ \A s \in Requests : asked'[s].kind = "leave" => ~asked'[s].alone
      /\ \A s \in Requests : asked'[s] = Talk!NoRequest => asked[s].kind \notin {"tell", "ring"}
  BY <1>2, TalkOvertaken
<1>4. /\ count' \in 0..MaxAsked /\ stranded' \in BOOLEAN /\ tabs' \subseteq People /\ tabs' \subseteq tabs
      /\ active' \subseteq People /\ admins' \subseteq People
      /\ chat' \in [Talk!Conversations -> Talk!ChatRow \cup {Nobody}] /\ clock' \in Nat /\ clock <= clock'
      /\ Group \in Talk!Conversations /\ Community \in Talk!Conversations
      /\ Community \in Talk!Rooms /\ chat[Community] # Nobody
  <2>1. count \in 0..MaxAsked /\ MaxAsked \in Nat /\ stranded \in BOOLEAN /\ clock \in Nat
        /\ chat \in [Talk!Conversations -> Talk!ChatRow \cup {Nobody}] /\ tabs \subseteq People
        /\ chat[Community] # Nobody
    BY DEF TalkInv, TalkTypes, TalkRooms, Talk!ChatsAssumption
  <2>2. Group \in Talk!Conversations /\ Community \in Talk!Conversations /\ Community \in Talk!Rooms
    BY DEF Talk!Conversations, Talk!Rooms
  <2>3. count' \in 0..MaxAsked
    BY <1>2, <2>1
  <2>4. stranded' \in BOOLEAN
    BY <1>2, <2>1
  <2>5. tabs' \subseteq People /\ tabs' \subseteq tabs
    BY <1>2, <2>1
  <2> QED
    <3>1. chat' = chat /\ clock' = clock /\ active' = as /\ admins' = adm
      BY <1>2
    <3>2. clock' \in Nat /\ clock <= clock'
      BY <2>1, <3>1
    <3>3. chat' \in [Talk!Conversations -> Talk!ChatRow \cup {Nobody}] /\ active' \subseteq People /\ admins' \subseteq People
      BY <2>1, <3>1
    <3> QED
      BY <2>1, <2>2, <2>3, <2>4, <2>5, <3>2, <3>3
<1>5. CASE Talk!Activate(u)
  <2>1. Talk!With({u}, Community) /\ seen' = seen /\ {u} \in SUBSET People
    BY <1>5 DEF Talk!Activate
  <2>2. \A d \in Talk!Conversations, x \in People :
          Talk!IsMember(x, d)' <=> Talk!IsMember(x, d) \/ (d = Community /\ x \in {u})
    BY <1>2, <1>4, <2>1, TalkJoined
  <2>3. Talk!Members(Group) \subseteq Talk!Members(Group)'
    BY <1>4, <2>2 DEF Talk!Members
  <2>4. Talk!GroupsKeepAnAdmin'
    BY <1>2, <2>3 DEF Talk!GroupsKeepAnAdmin, Talk!AdminsIn
  <2> QED
    BY <1>2, <1>3, <1>4, <2>1, <2>4, TalkJoins
<1>6. CASE Talk!Deactivate(u) \/ Talk!SetAdmin(u)
  <2>1. UNCHANGED <<member, seen, blurred, served>>
    BY <1>6 DEF Talk!Deactivate, Talk!SetAdmin
  <2>2. TalkTypes'
    BY <1>2, <1>3, <1>4, <2>1 DEF TalkInv, TalkTypes
  <2>3. TalkRooms'
    BY <1>2, <2>1 DEF TalkInv, TalkRooms, Talk!Members, Talk!IsMember
  <2>4. TalkParts
    BY <1>2, <2>1, TalkSame
  <2>5. TalkLoads
    BY <1>2, <1>4, <2>1 DEF TalkLoads, Talk!IsMember
  <2>6. Talk!GroupsKeepAnAdmin'
    <3>1. Talk!Members(Group)' = Talk!Members(Group)
      BY <2>1 DEF Talk!Members, Talk!IsMember
    <3> QED
      BY <1>2, <3>1 DEF Talk!GroupsKeepAnAdmin, Talk!AdminsIn
  <2>7. chat[Group] # Nobody => chat'[Group] # Nobody
    BY <1>2
  <2> QED
    BY <1>2, <1>3, <1>4, <2>1, <2>2, <2>3, <2>4, <2>5, <2>6, <2>7, TalkFewer, TalkRoster
<1> QED
  BY <1>5, <1>6

(* Whoever goes takes along what was seen of the thread, and no more.      *)
LEMMA TalkLeft ==
  ASSUME Talk!ChatsAssumption, TalkInv, NEW u \in People, NEW c \in Talk!Rooms, Talk!Without(u, c),
         UNCHANGED <<active, admins, photo, pictures, chat, message, objects, tabs, bell, clock,
                     blurred, served>>,
         count' \in 0..MaxAsked, stranded' \in BOOLEAN, stranded => stranded',
         c = Group /\ Talk!Live(Group) /\ ~stranded' => Talk!AdminsIn(Group) \ {u} # {},
         asked' \in [Requests -> TalkOps], TalkOvertakes,
         \A s \in Requests : asked'[s].kind = "leave" => ~asked'[s].alone,
         \A s \in Requests : asked'[s] = Talk!NoRequest => asked[s].kind \notin {"tell", "ring"}
  PROVE  TalkInv'
<1>0. /\ member \in [Talk!Conversations -> [People -> Talk!MemberRow \cup {Nobody}]]
      /\ seen \in [People -> SUBSET Messages] /\ clock \in Nat
      /\ c \in Talk!Conversations /\ Group \in Talk!Conversations
      /\ \A m \in Messages : message[m] # Nobody => message[m].conv \in Talk!Conversations
  <2>1. c \in Talk!Conversations /\ Group \in Talk!Conversations
    BY DEF Talk!Conversations, Talk!Rooms
  <2> QED
    BY <2>1 DEF TalkInv, TalkTypes, Talk!MessageRow
<1>1. /\ member' = [member EXCEPT ![c][u] = Nobody]
      /\ seen' = [seen EXCEPT ![u] = {m \in @ : ~Talk!In(c, m)}]
  BY DEF Talk!Without
<1>2. \A d \in Talk!Conversations, v \in People :
        member'[d][v] = IF d = c /\ v = u THEN Nobody ELSE member[d][v]
  BY <1>0, <1>1
<1>3. \A v \in People : seen'[v] = IF v = u THEN {m \in seen[u] : ~Talk!In(c, m)} ELSE seen[v]
  BY <1>0, <1>1
<1>4. TalkTypes'
  <2>1. member' \in [Talk!Conversations -> [People -> Talk!MemberRow \cup {Nobody}]]
    BY <1>0, <1>1
  <2>2. seen' \in [People -> SUBSET Messages]
    BY <1>0, <1>1
  <2> QED
    BY <2>1, <2>2 DEF TalkInv, TalkTypes
<1>5. \A d \in Talk!Conversations : Talk!Members(d)' = IF d = c THEN Talk!Members(d) \ {u} ELSE Talk!Members(d)
  BY <1>2 DEF Talk!Members, Talk!IsMember
<1>6. TalkRooms'
  BY <1>5 DEF TalkInv, TalkRooms
<1>7. TalkParts
  <2>1. \A d \in Talk!Conversations, v \in People :
          Talk!IsMember(v, d)' => Talk!IsMember(v,
            d) /\ member'[d][v].read = member[d][v].read
    BY <1>2 DEF Talk!IsMember
  <2>2. ASSUME NEW v \in People, NEW m \in seen'[v] PROVE Talk!IsMember(v, message[m].conv)'
    <3>1. m \in seen[v] /\ (v = u => ~Talk!In(c, m)) /\ m \in Messages
      BY <1>0, <1>3, <2>2
    <3>2. message[m] # Nobody /\ Talk!IsMember(v, message[m].conv)
      BY <3>1 DEF TalkInv, TalkReads
    <3>3. PICK d \in Talk!Conversations : d = message[m].conv
      BY <1>0, <3>1, <3>2
    <3>4. member'[d][v] # Nobody
      BY <1>2, <3>1, <3>2, <3>3 DEF Talk!In, Talk!IsMember
    <3> QED
      BY <3>3, <3>4 DEF Talk!IsMember
  <2>3. ASSUME NEW v \in People, NEW m \in seen[v] \ seen'[v] PROVE ~Talk!IsMember(v, message[m].conv)'
    <3>1. v = u /\ message[m].conv = c
      BY <1>3, <2>3 DEF Talk!In
    <3>2. member'[c][u] = Nobody
      BY <1>0, <1>2
    <3> QED
      BY <3>1, <3>2 DEF Talk!IsMember
  <2>4. \A v \in People : seen'[v] \subseteq seen[v]
    BY <1>3
  <2> QED
    BY <2>1, <2>2, <2>3, <2>4 DEF TalkParts
<1>8. TalkLoads
  <2>1. ASSUME NEW m \in Messages, message[m] # Nobody, NEW v \in People, Talk!IsMember(v, message[m].conv)'
        PROVE  Talk!IsMember(v, message[m].conv)
    <3>1. PICK d \in Talk!Conversations : d = message[m].conv
      BY <1>0, <2>1
    <3>2. member'[d][v] # Nobody
      BY <2>1, <3>1 DEF Talk!IsMember
    <3> QED
      BY <1>2, <3>1, <3>2 DEF Talk!IsMember
  <2> QED
    BY <2>1 DEF TalkLoads
<1>9. Talk!GroupsKeepAnAdmin'
  <2>1. Talk!AdminsIn(Group)' = IF c = Group THEN Talk!AdminsIn(Group) \ {u} ELSE Talk!AdminsIn(Group)
    BY <1>0, <1>5 DEF Talk!AdminsIn
  <2>2. Talk!Live(Group)' <=> Talk!Live(Group)
    BY DEF Talk!Live
  <2> QED
    BY <2>1, <2>2 DEF TalkInv, Talk!GroupsKeepAnAdmin
<1>10. clock' \in Nat /\ clock <= clock'
  BY <1>0
<1> QED
  BY <1>4, <1>6, <1>7, <1>8, <1>9, <1>10, TalkFewer, TalkRoster

LEMMA TalkParting ==
  ASSUME Talk!ChatsAssumption, TalkInv,
         \/ \E u, v \in People, c \in Talk!Conversations : Talk!RemoveMember(u, c, v)
         \/ \E r \in Requests : Talk!CommitLeave(r)
  PROVE  TalkInv'
<1>0. count \in 0..MaxAsked /\ MaxAsked \in Nat
  BY DEF TalkInv, TalkTypes, Talk!ChatsAssumption
<1>1. ASSUME NEW u \in People, NEW v \in People, NEW c \in Talk!Conversations, Talk!RemoveMember(u, c, v)
      PROVE  TalkInv'
  <2>1. /\ count < MaxAsked /\ count' = count + 1 /\ c \in Talk!Rooms /\ asked' = Talk!Overtaken /\ Talk!Without(v, c)
        /\ stranded' = (stranded \/ Talk!Strands(c, v))
        /\ UNCHANGED <<active, admins, photo, pictures, chat, message, objects, tabs, bell, clock,
                       blurred, served>>
    BY <1>1 DEF Talk!RemoveMember, Talk!OneStep, Talk!CanManage, Talk!accounts
  <2>2. /\ asked' \in [Requests -> TalkOps] /\ TalkOvertakes
        /\ \A s \in Requests : asked'[s].kind = "leave" => ~asked'[s].alone
        /\ \A s \in Requests : asked'[s] = Talk!NoRequest => asked[s].kind \notin {"tell", "ring"}
    BY <2>1, TalkOvertaken
  <2>3. count' \in 0..MaxAsked
    BY <1>0, <2>1
  <2>4. stranded' \in BOOLEAN /\ (stranded => stranded')
    BY <2>1
  <2>5. c = Group /\ Talk!Live(Group) /\ ~stranded' => Talk!AdminsIn(Group) \ {v} # {}
    BY <2>1 DEF Talk!Strands
  <2> QED
    BY <2>1, <2>2, <2>3, <2>4, <2>5, TalkLeft
<1>2. ASSUME NEW r \in Requests, Talk!CommitLeave(r) PROVE TalkInv'
  <2>1. PICK q : q = asked[r]
    OBVIOUS
  <2>2. /\ q.kind = "leave" /\ Talk!Without(q.by, q.conv)
        /\ asked' = [Talk!Overtaken EXCEPT ![r] = Talk!NoRequest]
        /\ stranded' = (stranded \/ (~q.alone /\ Talk!Strands(q.conv, q.by)))
        /\ UNCHANGED <<active, admins, photo, pictures, chat, message, objects, tabs, bell, clock, count,
                       blurred, served>>
    BY <1>2, <2>1 DEF Talk!CommitLeave, Talk!accounts
  <2>3. q \in LeaveOp /\ GoesWell(q)
    <3>1. q \in TalkOps /\ TalkStands(q)
      BY <2>1 DEF TalkInv, TalkTypes, TalkAsked
    <3> QED
      BY <2>2, <3>1, TalkOp DEF TalkStands
  <2>4. q.conv = Group /\ q.by \in People /\ q.alone \in BOOLEAN /\ Group \in Talk!Rooms
    BY <2>3 DEF LeaveOp, Talk!Rooms
  <2>5. /\ asked' \in [Requests -> TalkOps] /\ TalkOvertakes
        /\ \A s \in Requests : asked'[s].kind = "leave" => ~asked'[s].alone
        /\ \A s \in Requests : asked'[s] = Talk!NoRequest => asked[s].kind \notin {"tell", "ring"}
    BY <2>1, <2>2, TalkOvertaken
  <2>6. count' \in 0..MaxAsked
    BY <1>0, <2>2
  <2>7. stranded' \in BOOLEAN /\ (stranded => stranded')
    BY <2>2
  <2>8. Talk!Live(Group) /\ ~stranded' => Talk!AdminsIn(Group) \ {q.by} # {}
    BY <2>2, <2>3, <2>4 DEF GoesWell, Talk!Strands
  <2> QED
    BY <2>2, <2>4, <2>5, <2>6, <2>7, <2>8, TalkLeft
<1> QED
  BY <1>1, <1>2

LEMMA TalkExits == ASSUME Talk!ChatsAssumption, TalkInv, Talk!Exit PROVE TalkInv'
<1>1. /\ \A s \in Requests : asked'[s] = Talk!NoRequest
      /\ asked' = [s \in Requests |-> Talk!NoRequest] /\ tabs' = {}
      /\ served' = [m \in Messages |->
           IF \E r \in Requests : asked[r].kind \in {"tell", "ring"} /\ asked[r].msg = m
             THEN People ELSE served[m]]
      /\ UNCHANGED <<active, admins, photo, pictures, chat, member, message, objects, bell, clock, count,
                     seen, blurred, stranded>>
  BY DEF Talk!Exit, Talk!accounts
<1>2. Talk!NoRequest.kind = "idle" /\ Talk!NoRequest \in TalkOps
  BY DEF Talk!NoRequest, TalkOps
<1>3. TalkTypes'
  <2>1. served' \in [Messages -> SUBSET People]
    BY <1>1 DEF TalkInv, TalkTypes
  <2>2. asked' \in [Requests -> TalkOps]
    BY <1>1, <1>2
  <2> QED
    BY <1>1, <2>1, <2>2 DEF TalkInv, TalkTypes
<1>4. TalkRooms'
  BY <1>1 DEF TalkInv, TalkRooms, Talk!Members, Talk!IsMember
<1>5. TalkReads'
  BY <1>1, TalkSame, TalkFewer
<1>6. TalkAsked'
  <2>1. \A s \in Requests : asked'[s].kind = "idle"
    BY <1>1, <1>2
  <2> QED
    BY <2>1 DEF TalkAsked, TalkStands, Apart
<1>7. TalkFiles'
  BY <1>1 DEF TalkInv, TalkFiles, Talk!FilesAreThere
<1>8. Talk!NobodyIsPassedOver'
  <2> SUFFICES ASSUME NEW m \in Messages, message[m] # Nobody
               PROVE  Talk!Members(message[m].conv) \subseteq served'[m]
    BY <1>1 DEF Talk!NobodyIsPassedOver, Talk!Members, Talk!IsMember
  <2>1. CASE \E r \in Requests : asked[r].kind \in {"tell", "ring"} /\ asked[r].msg = m
    <3>1. served'[m] = People
      BY <1>1, <2>1
    <3> QED
      BY <3>1 DEF Talk!Members
  <2>2. CASE ~\E r \in Requests : asked[r].kind \in {"tell", "ring"} /\ asked[r].msg = m
    <3>1. served'[m] = served[m]
      BY <1>1, <2>2
    <3> QED
      BY <2>2, <3>1 DEF TalkInv, Talk!NobodyIsPassedOver
  <2> QED
    BY <2>1, <2>2
<1>9. Talk!GroupsKeepAnAdmin'
  BY <1>1 DEF TalkInv, Talk!GroupsKeepAnAdmin, Talk!AdminsIn, Talk!Members,
    Talk!IsMember, Talk!Live
<1> QED
  BY <1>3, <1>4, <1>5, <1>6, <1>7, <1>8, <1>9 DEF TalkInv

(* A sending that fails after its commit is over, and takes nobody along.  *)
LEMMA TalkFails ==
  ASSUME Talk!ChatsAssumption, TalkInv, NEW r \in Requests, Talk!TellFails(r) PROVE TalkInv'
<1>1. /\ asked[r].kind = "tell" /\ asked' = [asked EXCEPT ![r] = Talk!NoRequest]
      /\ served' = [served EXCEPT ![asked[r].msg] = People]
      /\ UNCHANGED <<active, admins, photo, pictures, chat, member, message, objects, tabs, bell, clock,
                     count, seen, blurred, stranded>>
  BY DEF Talk!TellFails, Talk!Answer, Talk!accounts
<1>2. /\ Talk!NoRequest.kind = "idle" /\ Talk!NoRequest \in TalkOps
      /\ asked \in [Requests -> TalkOps] /\ served \in [Messages -> SUBSET People]
  BY DEF Talk!NoRequest, TalkOps, TalkInv, TalkTypes
<1>3. \A s \in Requests : asked'[s] = IF s = r THEN Talk!NoRequest ELSE asked[s]
  BY <1>1, <1>2
<1>4. \A m \in Messages : served'[m] = IF m = asked[r].msg THEN People ELSE served[m]
  BY <1>1, <1>2
<1>5. served' \in [Messages -> SUBSET People] /\ \A m \in Messages : served[m] \subseteq served'[m]
  BY <1>1, <1>2, <1>4
<1>6. TalkTypes'
  <2>1. asked' \in [Requests -> TalkOps]
    BY <1>1, <1>2
  <2> QED
    BY <1>1, <1>5, <2>1 DEF TalkInv, TalkTypes
<1>7. TalkRooms'
  BY <1>1 DEF TalkInv, TalkRooms, Talk!Members, Talk!IsMember
<1>8. TalkReads'
  BY <1>1, TalkSame, TalkFewer
<1>9. TalkAsked'
  <2>1. ASSUME NEW s \in Requests PROVE TalkStands(asked[s])'
    <3>1. PICK q : q = asked[s]
      OBVIOUS
    <3>2. PICK y : y = asked'[s]
      OBVIOUS
    <3>3. CASE s = r
      <4>1. TalkStands(y)'
        BY <1>2, <1>3, <3>2, <3>3 DEF TalkStands
      <4> QED
        BY <3>2, <4>1 DEF TalkStands, Sends, WritesIn, Rings, GoesWell, Pictured
    <3>4. CASE s # r
      <4>1. y = q /\ q \in TalkOps /\ TalkStands(q)
        BY <1>2, <1>3, <3>1, <3>2, <3>4 DEF TalkInv, TalkAsked
      <4>2. q.kind = "ring" => Rings(q)'
        <5>1. q.kind = "ring" => Rings(q) /\ q.msg \in Messages
          BY <4>1, TalkOp DEF TalkStands, RingOp
        <5> QED
          BY <1>1, <1>5, <5>1 DEF Rings, Talk!Members, Talk!IsMember
      <4>3. (Sends(q) => Sends(q)') /\ (Pictured(q) => Pictured(q)')
        BY <1>1 DEF Sends, Pictured
      <4>4. WritesIn(q) => WritesIn(q)'
        BY <1>1 DEF WritesIn, Talk!In, Talk!IsMember
      <4>5. GoesWell(q) => GoesWell(q)'
        BY <1>1 DEF GoesWell, Talk!AdminsIn, Talk!Members, Talk!IsMember, Talk!Live
      <4>6. TalkStands(q)'
        BY <1>1, <4>1, <4>2, <4>3, <4>4, <4>5 DEF TalkStands
      <4> QED
        BY <3>2, <4>1, <4>6 DEF TalkStands, Sends, WritesIn, Rings, GoesWell, Pictured
    <3> QED
      BY <3>3, <3>4
  <2>2. \A s, t \in Requests : s # t => Apart(asked'[s], asked'[t])
    BY <1>2, <1>3 DEF TalkInv, TalkAsked, Apart
  <2>3. \A s, t \in Requests : s # t => Apart(asked[s], asked[t])'
    BY <2>2 DEF Apart
  <2> QED
    BY <2>1, <2>3 DEF TalkAsked
<1>10. TalkFiles'
  BY <1>1 DEF TalkInv, TalkFiles, Talk!FilesAreThere
<1>11. Talk!NobodyIsPassedOver'
  <2> SUFFICES ASSUME NEW m \in Messages, message[m] # Nobody,
                      \A s \in Requests : asked'[s].kind \in {"tell", "ring"} => asked'[s].msg # m
               PROVE  Talk!Members(message[m].conv) \subseteq served'[m]
    BY <1>1 DEF Talk!NobodyIsPassedOver, Talk!Members, Talk!IsMember
  <2>1. CASE m = asked[r].msg
    BY <1>4, <2>1 DEF Talk!Members
  <2>2. CASE m # asked[r].msg
    <3>1. \A s \in Requests : asked[s].kind \in {"tell", "ring"} => asked[s].msg # m
      BY <1>3, <2>2
    <3> QED
      BY <1>5, <3>1 DEF TalkInv, Talk!NobodyIsPassedOver
  <2> QED
    BY <2>1, <2>2
<1>12. Talk!GroupsKeepAnAdmin'
  BY <1>1 DEF TalkInv, Talk!GroupsKeepAnAdmin, Talk!AdminsIn, Talk!Members,
    Talk!IsMember, Talk!Live
<1> QED
  BY <1>6, <1>7, <1>8, <1>9, <1>10, <1>11, <1>12 DEF TalkInv

LEMMA TalkCommits ==
  ASSUME Talk!ChatsAssumption, TalkInv, NEW r \in Requests, Talk!CommitSend(r) PROVE TalkInv'
<1>0. PICK q : q = asked[r]
  OBVIOUS
<1>1. q.kind = "writing"
  BY <1>0 DEF Talk!CommitSend
<1>2. q \in WritingOp /\ WritesIn(q) /\ Sends(q)
  <2>1. q \in TalkOps /\ TalkStands(q)
    BY <1>0 DEF TalkInv, TalkTypes, TalkAsked
  <2> QED
    BY <1>1, <2>1, TalkOp DEF TalkStands
<1>3. /\ q.by \in People /\ q.conv \in Talk!Conversations /\ q.msg \in Messages /\ q.file \in BOOLEAN
      /\ q.at \in Nat /\ q.shown \in SUBSET Messages /\ \A m \in q.shown : Talk!In(q.conv, m)
      /\ message[q.msg] = Nobody /\ q.at \in 1..clock /\ clock \in Nat /\ q.at <= clock
      /\ (q.file => q.msg \in objects)
  BY <1>2 DEF WritingOp, WritesIn, Sends, TalkInv, TalkTypes
<1>4. PICK new \in Talk!MessageRow :
        /\ message' = [message EXCEPT ![q.msg] = new]
        /\ new.conv = q.conv /\ new.sender = q.by /\ new.at = q.at /\ new.file = q.file
  <2>1. PICK new : new = [conv |-> q.conv, sender |-> q.by, at |-> q.at, text |-> TRUE,
                          file |-> q.file, deleted |-> FALSE]
    OBVIOUS
  <2>2. new \in Talk!MessageRow
    BY <1>3, <2>1 DEF Talk!MessageRow
  <2>3. message' = [message EXCEPT ![q.msg] = new]
    BY <1>0, <2>1 DEF Talk!CommitSend
  <2> QED
    BY <2>1, <2>2, <2>3
<1>5. PICK op \in TellOp : op.kind = "tell" /\ op.msg = q.msg /\ op.conv = q.conv
                           /\ asked' = [asked EXCEPT ![r] = op]
  <2>1. PICK op : op = [kind |-> "tell", by |-> q.by, conv |-> q.conv, msg |-> q.msg]
    OBVIOUS
  <2>2. asked' = [asked EXCEPT ![r] = op]
    BY <1>0, <2>1 DEF Talk!CommitSend, Talk!Then
  <2> QED
    BY <1>3, <2>1, <2>2 DEF TellOp
<1>6. UNCHANGED <<active, admins, photo, pictures, chat, objects, tabs, bell, clock, count, served, stranded>>
  BY DEF Talk!CommitSend, Talk!accounts
<1>7. /\ \A m \in Messages : message'[m] = IF m = q.msg THEN new ELSE message[m]
      /\ \A s \in Requests : asked'[s] = IF s = r THEN op ELSE asked[s]
      /\ new # Nobody /\ Nobody \notin Talk!MessageRow
      /\ \A m \in Messages : message[m] # Nobody => message[m] \in Talk!MessageRow
  BY <1>4, <1>5 DEF TalkInv, TalkTypes, Talk!ChatsAssumption
<1>8. /\ member' \in [Talk!Conversations -> [People -> Talk!MemberRow \cup {Nobody}]]
      /\ seen' \in [People -> SUBSET Messages] /\ blurred' \subseteq People \X Messages
      /\ \A d \in Talk!Conversations, v \in People :
           /\ Talk!IsMember(v, d)' <=> Talk!IsMember(v, d)
           /\ Talk!IsMember(v, d)' => member'[d][v].read <= clock'
      /\ \A v \in People : \A m \in seen'[v] : message[m] # Nobody /\ Talk!IsMember(v, message[m].conv)
      /\ \A m \in Messages, v \in People :
           message[m] # Nobody /\ Talk!IsMember(v, message[m].conv) /\ message[m].sender # v
             /\ <<v, m>> \notin blurred'
           => (message[m].at > member'[message[m].conv][v].read <=> m \notin seen'[v])
      /\ \A p \in WritingOp : (\E s \in Requests : asked[s] = p) => TalkMarks(p)'
  <2>1. CASE Talk!IsMember(q.by, q.conv)
    <3>1. /\ member' = [member EXCEPT ![q.conv][q.by].read = q.at]
          /\ seen' = [seen EXCEPT ![q.by] = @ \cup q.shown]
          /\ blurred' = (blurred \ ({q.by} \X {m \in Messages : Talk!In(q.conv, m)}))
                        \cup Talk!Blur(q.by, q.conv, q.at, seen'[q.by])
      BY <1>0, <2>1 DEF Talk!CommitSend, Talk!MarkOfSender
    <3>2. clock' \in Nat /\ clock <= clock' /\ q.at <= clock'
      BY <1>3, <1>6
    <3> QED
      BY <1>3, <2>1, <3>1, <3>2, TalkMarked
  <2>2. CASE ~Talk!IsMember(q.by, q.conv)
    <3>1. UNCHANGED <<member, seen, blurred>>
      BY <1>0, <2>2 DEF Talk!CommitSend
    <3>2. \A d \in Talk!Conversations, v \in People :
           /\ Talk!IsMember(v, d)' <=> Talk!IsMember(v, d)
           /\ Talk!IsMember(v, d)' => member'[d][v].read <= clock'
      BY <1>6, <3>1 DEF TalkInv, TalkReads, Talk!IsMember
    <3>3. /\ member' \in [Talk!Conversations -> [People -> Talk!MemberRow \cup {Nobody}]]
          /\ seen' \in [People -> SUBSET Messages] /\ blurred' \subseteq People \X Messages
      BY <3>1 DEF TalkInv, TalkTypes
    <3>4. \A v \in People : \A m \in seen'[v] : message[m] # Nobody /\ Talk!IsMember(v, message[m].conv)
      BY <3>1 DEF TalkInv, TalkReads
    <3>5. \A m \in Messages, v \in People :
           message[m] # Nobody /\ Talk!IsMember(v, message[m].conv) /\ message[m].sender # v
             /\ <<v, m>> \notin blurred'
           => (message[m].at > member'[message[m].conv][v].read <=> m \notin seen'[v])
      BY <3>1 DEF TalkInv, TalkReads, Talk!UnreadIsWhatWasNotSeen, Talk!Unread
    <3>6. ASSUME NEW p \in WritingOp, NEW s \in Requests, asked[s] = p PROVE TalkMarks(p)'
      <4>1. p.kind = "writing"
        BY DEF WritingOp
      <4>2. WritesIn(p)
        BY <3>6, <4>1 DEF TalkInv, TalkAsked, TalkStands
      <4> QED
        BY <3>1, <4>2 DEF WritesIn, TalkMarks, Talk!IsMember
    <3> QED
      BY <3>2, <3>3, <3>4, <3>5, <3>6
  <2> QED
    BY <2>1, <2>2
<1>9. \A d \in Talk!Conversations : Talk!Members(d)' = Talk!Members(d)
  BY <1>8 DEF Talk!Members
<1>10. TalkTypes'
  <2>1. asked' \in [Requests -> TalkOps]
    BY <1>5 DEF TalkInv, TalkTypes, TalkOps
  <2>2. message' \in [Messages -> Talk!MessageRow \cup {Nobody}]
    BY <1>4 DEF TalkInv, TalkTypes
  <2> QED
    BY <1>6, <1>8, <2>1, <2>2 DEF TalkInv, TalkTypes
<1>11. TalkRooms'
  BY <1>6, <1>9 DEF TalkInv, TalkRooms
<1>12. TalkReads'
  <2>1. ASSUME NEW m \in Messages, message'[m] # Nobody PROVE message'[m].at \in 1..clock'
    BY <1>3, <1>4, <1>6, <1>7, <2>1 DEF TalkInv, TalkReads
  <2>2. ASSUME NEW v \in People, NEW m \in seen'[v]
        PROVE  message'[m] # Nobody /\ Talk!IsMember(v, message[m].conv)'
    <3>1. m \in Messages /\ message[m] # Nobody /\ Talk!IsMember(v, message[m].conv) /\ m # q.msg
      BY <1>3, <1>8, <2>2
    <3>2. PICK d \in Talk!Conversations : d = message[m].conv
      BY <1>7, <3>1 DEF Talk!MessageRow
    <3>3. message'[m] = message[m] /\ member'[d][v] # Nobody
      BY <1>7, <1>8, <3>1, <3>2 DEF Talk!IsMember
    <3> QED
      BY <3>1, <3>2, <3>3 DEF Talk!IsMember
  <2>3. Talk!UnreadIsWhatWasNotSeen'
    <3> SUFFICES ASSUME NEW m \in Messages, NEW v \in People, message'[m] # Nobody,
                        Talk!IsMember(v, message[m].conv)', message'[m].sender # v,
                          <<v, m>> \notin blurred'
                 PROVE  message'[m].at > member'[message'[m].conv][v].read <=> m \notin seen'[v]
      BY DEF Talk!UnreadIsWhatWasNotSeen, Talk!Unread, Talk!IsMember
    <3>1. PICK d \in Talk!Conversations : d = message'[m].conv
      BY <1>4, <1>7 DEF Talk!MessageRow
    <3>2. Talk!IsMember(v, d) /\ member'[d][v] # Nobody
      BY <1>8, <3>1 DEF Talk!IsMember
    <3>3. CASE m = q.msg
      <4>1. d = q.conv /\ message'[m].at = q.at
        BY <1>4, <1>7, <3>1, <3>3
      <4>2. TalkMarks(q)'
        BY <1>0, <1>2, <1>8
      <4>3. ~(q.at <= member'[d][v].read)
        BY <3>2, <3>3, <4>1, <4>2 DEF TalkMarks, Talk!IsMember
      <4>4. member'[d][v] \in Talk!MemberRow
        BY <1>8, <3>2
      <4>5. member'[d][v].read \in Nat
        BY <4>4 DEF Talk!MemberRow
      <4>6. m \notin seen'[v]
        BY <1>3, <1>8, <3>3
      <4> QED
        BY <1>3, <3>1, <4>1, <4>3, <4>5, <4>6
    <3>4. CASE m # q.msg
      BY <1>7, <1>8, <3>1, <3>2, <3>4
    <3> QED
      BY <3>3, <3>4
  <2> QED
    BY <1>8, <2>1, <2>2, <2>3 DEF TalkReads
<1>13. ASSUME NEW s \in Requests, s # r PROVE TalkStands(asked[s])'
  <2>1. PICK p : p = asked[s] /\ p = asked'[s]
    BY <1>7, <1>13
  <2>2. TalkStands(p) /\ p \in TalkOps /\ Apart(p, q)
    BY <1>0, <1>13, <2>1 DEF TalkInv, TalkAsked, TalkTypes
  <2>3. p.kind \in {"send", "writing"} => Sends(p)'
    <3> SUFFICES ASSUME p.kind \in {"send", "writing"} PROVE Sends(p)'
      OBVIOUS
    <3>1. p.msg \in Messages /\ message[p.msg] = Nobody /\ (p.file => p.msg \in objects)
      BY <2>2, TalkOp DEF SendOp, WritingOp, TalkStands, Sends
    <3>2. p.msg # q.msg
      BY <1>1, <2>2 DEF Apart
    <3> QED
      BY <1>6, <1>7, <3>1, <3>2 DEF Sends
  <2>4. p.kind = "writing" => WritesIn(p)'
    <3> SUFFICES ASSUME p.kind = "writing" PROVE WritesIn(p)'
      OBVIOUS
    <3>1. p \in WritingOp /\ WritesIn(p) /\ p.shown \subseteq Messages
      BY <2>2, TalkOp DEF WritingOp, TalkStands
    <3>2. TalkMarks(p)'
      BY <1>8, <2>1, <3>1
    <3>3. \A m \in p.shown : Talk!In(p.conv, m)'
      BY <1>3, <1>7, <3>1 DEF WritesIn, Talk!In
    <3> QED
      BY <1>6, <3>1, <3>2, <3>3 DEF WritesIn, TalkMarks
  <2>5. p.kind \in {"tell", "ring", "edit", "delete", "remove"} =>
          p.msg \in Messages /\ message[p.msg] # Nobody /\ message'[p.msg] = message[p.msg]
    <3>1. p.kind \in {"tell", "ring", "edit", "delete", "remove"} => p.msg \in Messages
      BY <2>2, TalkOp DEF TellOp, RingOp, AmendOp, RemoveOp
    <3>2. p.kind \in {"tell", "ring", "edit", "delete", "remove"} => message[p.msg] # Nobody
      BY <2>2 DEF TalkStands
    <3> QED
      BY <1>3, <1>7, <3>1, <3>2
  <2>6. p.kind = "ring" => Rings(p)'
    <3> SUFFICES ASSUME p.kind = "ring" PROVE Rings(p)'
      OBVIOUS
    <3>1. p \in RingOp /\ Rings(p)
      BY <2>2, TalkOp DEF TalkStands
    <3>2. p.conv \in Talk!Conversations /\ p.left \subseteq People
      BY <3>1 DEF RingOp
    <3>3. Talk!Members(p.conv)' = Talk!Members(p.conv) /\ \A v \in People : Talk!IsMember(v, p.conv)' <=> Talk!IsMember(v, p.conv)
      BY <1>8, <1>9, <3>2
    <3> QED
      BY <1>6, <3>1, <3>2, <3>3 DEF Rings
  <2>7. GoesWell(p) => GoesWell(p)'
    <3>1. Group \in Talk!Conversations
      BY DEF Talk!Conversations, Talk!Rooms
    <3>2. Talk!AdminsIn(Group)' = Talk!AdminsIn(Group) /\ (Talk!Live(Group)' <=> Talk!Live(Group))
      BY <1>6, <1>9, <3>1 DEF Talk!AdminsIn, Talk!Live
    <3> QED
      BY <1>6, <3>2 DEF GoesWell
  <2>8. Pictured(p) => Pictured(p)'
    BY <1>6 DEF Pictured
  <2>9. TalkStands(p)'
    BY <2>2, <2>3, <2>4, <2>5, <2>6, <2>7, <2>8 DEF TalkStands
  <2> QED
    BY <2>1, <2>9 DEF TalkStands, Sends, WritesIn, Rings, GoesWell, Pictured
<1>14. TalkAsked'
  <2>1. TalkStands(asked[r])'
    <3>1. TalkStands(op)'
      BY <1>3, <1>4, <1>5, <1>7 DEF TalkStands
    <3>2. asked'[r] = op
      BY <1>7
    <3> QED
      BY <3>1, <3>2 DEF TalkStands, Sends, WritesIn, Rings, GoesWell, Pictured
  <2>2. \A s, t \in Requests : s # t => Apart(asked'[s], asked'[t])
    <3>1. \A y : Apart(y, op) /\ Apart(op, y)
      BY <1>5 DEF Apart
    <3> QED
      BY <1>7, <3>1 DEF TalkInv, TalkAsked
  <2>3. \A s, t \in Requests : s # t => Apart(asked[s], asked[t])'
    BY <2>2 DEF Apart
  <2> QED
    BY <1>13, <2>1, <2>3 DEF TalkAsked
<1>15. TalkFiles'
  BY <1>3, <1>4, <1>6, <1>7 DEF TalkInv, TalkFiles, Talk!FilesAreThere
<1>16. Talk!NobodyIsPassedOver'
  <2> SUFFICES ASSUME NEW m \in Messages, message'[m] # Nobody,
                      \A s \in Requests : asked'[s].kind \in {"tell", "ring"} => asked'[s].msg # m
               PROVE  Talk!Members(message[m].conv)' \subseteq served[m]
    BY <1>6 DEF Talk!NobodyIsPassedOver
  <2>1. m # q.msg
    BY <1>5, <1>7
  <2>2. message'[m] = message[m] /\ message[m] # Nobody
    BY <1>7, <2>1
  <2>3. \A s \in Requests : asked[s].kind \in {"tell", "ring"} => asked[s].msg # m
    BY <1>0, <1>1, <1>7
  <2>4. PICK d \in Talk!Conversations : d = message[m].conv /\ d = message'[m].conv
    BY <1>7, <2>2 DEF Talk!MessageRow
  <2>5. Talk!Members(d) \subseteq served[m]
    BY <2>2, <2>3, <2>4 DEF TalkInv, Talk!NobodyIsPassedOver
  <2>6. Talk!Members(d)' \subseteq served[m]
    BY <1>9, <2>5
  <2> QED
    BY <2>4, <2>6 DEF Talk!Members, Talk!IsMember
<1>17. Talk!GroupsKeepAnAdmin'
  <2>1. Group \in Talk!Conversations
    BY DEF Talk!Conversations, Talk!Rooms
  <2>2. Talk!AdminsIn(Group)' = Talk!AdminsIn(Group) /\ (Talk!Live(Group)' <=> Talk!Live(Group))
    BY <1>6, <1>9, <2>1 DEF Talk!AdminsIn, Talk!Live
  <2> QED
    BY <1>6, <2>2 DEF TalkInv, Talk!GroupsKeepAnAdmin
<1> QED
  BY <1>10, <1>11, <1>12, <1>14, <1>15, <1>16, <1>17 DEF TalkInv

LEMMA TalkStep == ASSUME Talk!ChatsAssumption, TalkInv, [Talk!Next]_(Talk!chatVars) PROVE TalkInv'
<1>1. CASE Talk!Next
  <2>1. ASSUME NEW r \in Requests,
               \/ Talk!Request(r) \/ Talk!BeginSend(r) \/ Talk!CommitSend(r) \/ Talk!Publish(r)
               \/ Talk!TellFails(r) \/ Talk!SendDone(r)
               \/ \E u \in People : Talk!Ring(r, u)
               \/ Talk!WriteEdit(r) \/ Talk!CommitDelete(r) \/ Talk!RemoveObject(r) \/ Talk!CommitLeave(r) \/ Talk!WritePhoto(r)
        PROVE  TalkInv'
    BY <2>1, TalkRequest, TalkSends, TalkCommits, TalkRings, TalkFails, TalkAmends,
      TalkParting, TalkPictures
  <2>2. CASE Talk!AtOnce
    <3>1. ASSUME NEW u \in People, NEW c \in Talk!Conversations, Talk!MarkRead(u, c) PROVE TalkInv'
      BY <3>1, TalkMarkRead
    <3>2. ASSUME NEW u \in People, NEW c \in Talk!Conversations, NEW b \in BOOLEAN,
                 Talk!SetMute(u, c, b) \/ Talk!SetPosting(u, c, b)
          PROVE  TalkInv'
      BY <3>2, TalkMutes, TalkSettings
    <3>3. ASSUME NEW u \in People, NEW c \in Talk!Conversations, NEW v \in People,
                 Talk!AddMember(u, c, v) \/ Talk!RemoveMember(u, c, v)
          PROVE  TalkInv'
      BY <3>3, TalkLetsIn, TalkParting
    <3>4. ASSUME NEW u \in People, NEW v \in People, Talk!OpenDirect(u, v) PROVE TalkInv'
      BY <3>4, TalkOpens
    <3>5. ASSUME NEW u \in People, NEW others \in SUBSET People, NEW b \in BOOLEAN,
                 Talk!CreateGroup(u, others, b)
          PROVE  TalkInv'
      BY <3>5, TalkCreates
    <3>6. ASSUME NEW u \in People, Talk!DeleteGroup(u) PROVE TalkInv'
      <4>1. Community \in Talk!Conversations
        BY DEF Talk!Conversations, Talk!Rooms
      <4> QED
        BY <3>6, <4>1, TalkSettings
    <3>7. ASSUME NEW u \in People, Talk!Activate(u) \/ Talk!Deactivate(u) \/ Talk!SetAdmin(u) PROVE TalkInv'
      BY <3>7, TalkAccounts
    <3> QED
      BY <2>2, <3>1, <3>2, <3>3, <3>4, <3>5, <3>6, <3>7 DEF Talk!AtOnce
  <2>3. CASE Talk!EnsureCommunity \/ Talk!Exit
    BY <2>3, TalkLetsIn, TalkExits
  <2>4. ASSUME NEW u \in People, Talk!OpenTab(u) \/ Talk!CloseTab(u) PROVE TalkInv'
    BY <2>4, TalkTabs
  <2> QED
    BY <1>1, <2>1, <2>2, <2>3, <2>4 DEF Talk!Next
<1>2. CASE UNCHANGED Talk!chatVars
  <2>1. UNCHANGED <<active, admins, chat, member, message, objects, photo, pictures, tabs, bell, asked,
                    clock, count, seen, blurred, served, stranded>>
    BY <1>2 DEF Talk!chatVars
  <2>2. TalkTypes' /\ TalkRooms' /\ TalkFiles' /\ Talk!NobodyIsPassedOver' /\ Talk!GroupsKeepAnAdmin'
    BY <2>1 DEF TalkInv, TalkTypes, TalkRooms, TalkFiles, Talk!FilesAreThere,
      Talk!NobodyIsPassedOver,
                Talk!GroupsKeepAnAdmin, Talk!AdminsIn, Talk!Members, Talk!IsMember,
                  Talk!Live
  <2>3. TalkReads'
    BY <2>1, TalkSame, TalkFewer
  <2>4. TalkOvertakes /\ TalkLoads
    BY <2>1 DEF TalkOvertakes, TalkLoads, Talk!IsMember
  <2>5. \A s \in Requests : asked'[s] = Talk!NoRequest => asked[s].kind \notin {"tell", "ring"}
    BY <2>1 DEF Talk!NoRequest
  <2>6. Talk!AdminsIn(Group)' = Talk!AdminsIn(Group) /\ (Talk!Live(Group)' <=> Talk!Live(Group))
    BY <2>1 DEF Talk!AdminsIn, Talk!Members, Talk!IsMember, Talk!Live
  <2>7. clock' \in Nat /\ clock <= clock' /\ TalkParts
    BY <2>1, TalkSame DEF TalkInv, TalkTypes
  <2> QED
    BY <2>1, <2>2, <2>3, <2>4, <2>5, <2>6, <2>7, TalkFewer, TalkRoster
<1> QED
  BY <1>1, <1>2

(* What the inductive invariant says of the properties the runs check.     *)
LEMMA TalkHonest ==
  ASSUME TalkInv
  PROVE  /\ Talk!TypeOK /\ Talk!UnreadIsWhatWasNotSeen /\ Talk!NobodyIsPassedOver /\ Talk!GroupsKeepAnAdmin
         /\ Talk!FilesAreThere
  BY DEF TalkInv, TalkTypes, TalkRooms, TalkReads, TalkFiles, Talk!TypeOK


-----------------------------------------------------------------------------
(* The stories together: the one that is told keeps its invariant, and the *)
(* other stands still.                                                     *)
DeskInv == (story = "tasks" => TaskInv) /\ (story = "chats" => TalkInv)

LEMMA DeskInit == ASSUME MCInit PROVE DeskInv
  BY DeskAssumption, TaskAtInit, TalkAtInit DEF MCInit, DeskInv

LEMMA DeskNext ==
  ASSUME DeskInv, [MCNext]_<<story, taskVars, chatVars>> PROVE DeskInv'
<1>1. story' = story
  BY DEF MCNext
<1>2. story = "tasks" => [Next]_taskVars
  BY DEF MCNext
<1>3. story = "chats" => [Talk!Next]_(Talk!chatVars)
  BY DEF MCNext, Talk!chatVars, chatVars
<1> QED
  BY <1>1, <1>2, <1>3, DeskAssumption, TaskStep, TalkStep DEF DeskInv

(* A reminder is told once per setting and none that is due is lost, and   *)
(* the file shows the earliest of its open tasks, in whatever order        *)
(* requests, ticks and mirrors of Tasks read and write.                    *)
THEOREM TasksStayKept == MCSpec => []TasksAreKept
<1>1. MCInit => DeskInv
  BY DeskInit
<1>2. DeskInv /\ [MCNext]_<<story, taskVars, chatVars>> => DeskInv'
  BY DeskNext
<1>3. DeskInv => TasksAreKept
  BY TaskKept DEF DeskInv, TasksAreKept
<1> QED
  BY <1>1, <1>2, <1>3, PTL DEF MCSpec

(* What is counted as unread is what was not seen, but for the messages    *)
(* that were committed behind a read mark.                                 *)
THEOREM UnreadIsTrue == MCSpec => []UnreadIsWhatWasNotSeen
<1>1. MCInit => DeskInv
  BY DeskInit
<1>2. DeskInv /\ [MCNext]_<<story, taskVars, chatVars>> => DeskInv'
  BY DeskNext
<1>3. DeskInv => UnreadIsWhatWasNotSeen
  BY TalkHonest DEF DeskInv, UnreadIsWhatWasNotSeen
<1> QED
  BY <1>1, <1>2, <1>3, PTL DEF MCSpec

(* A message whose sending is over passed no member over, nobody leaves    *)
(* a group without an admin by asking to leave, and the files and pictures *)
(* that rows name are in storage.                                          *)
THEOREM ChatsStayFaithful == MCSpec => []ChatsKeepFaith
<1>1. MCInit => DeskInv
  BY DeskInit
<1>2. DeskInv /\ [MCNext]_<<story, taskVars, chatVars>> => DeskInv'
  BY DeskNext
<1>3. DeskInv => ChatsKeepFaith
  BY TalkHonest DEF DeskInv, ChatsKeepFaith
<1> QED
  BY <1>1, <1>2, <1>3, PTL DEF MCSpec
=============================================================================
