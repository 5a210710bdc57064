--------------------------- MODULE Appointments ---------------------------
(***************************************************************************)
(* A client's meetings, their copies in the hosts' Google calendars and    *)
(* the file they belong to: src/services/appointments.ts,                  *)
(* src/services/google-calendar.ts, src/domain/appointments.ts and the     *)
(* jobs google.sync, google.push and appointments.tick.                    *)
(*                                                                         *)
(* A request reads the meeting, commits its change, and then, with no      *)
(* transaction, moves the file, tells Google and notes what it answered:   *)
(* each of these is a step, and so are those of a sync.                    *)
(***************************************************************************)
EXTENDS Integers, FiniteSets, FiniteSetsExt, Functions, TLC

CONSTANTS
  Appts, Hosts,
  Workers,     \* bound: requests and jobs running at the same time
  Events,      \* bound: events Google makes
  MaxTime,     \* bound: the clock; a meeting starts at one of 1 .. MaxTime
  MaxSteps,    \* bound: requests of staff, changes in Google, connections
  PushAttempts, \* maxAttempts of a google.push job, 6 in the source
  MaxFails,    \* bound: calls Google does not answer
  MaxExits,    \* bound: exits of the process
  None

Times == 1 .. MaxTime
Status == {"none", "booked", "confirmed", "cancelled", "completed", "no_show"}

(* Stages of one pipeline by position: booked 2, attended 3, missed 4 are  *)
(* the ones its settings name, 5 is won.                                   *)
Places == 1 .. 5
BookedAt == 2
PlaceOf == [attended |-> 3, missed |-> 4]
Settled(p) == p = 5

VARIABLES
  appt,       \* appt[a]: its row
  events,     \* events[e]: Google's event, or None; dirty, whether a sync is still to apply
              \* it: "new", "listed" by a sync, or "no" (external)
  connected,  \* hosts with a row of google_calendar_accounts
  jobs,       \* meetings with a live google.push job
  tries,      \* the attempts of that job, 0 for none
  next,       \* applications.next_appointment_at of the file, 0 for none
  place,      \* the file's stage
  work,       \* work[w]: the request or job at work
  clock, steps, fails, exits,
  old,        \* ghost: workers who hold a row of a meeting that was changed since they read it
  stale,      \* ghost: meetings written, or pushed, by such a worker
  cut,        \* ghost: meetings whose request ended with the process, or whose host left Google
  spent       \* ghost: meetings whose job ran out of attempts, or which were tried by hand in
              \* vain, and for which no job was planted since

\* An event in Google's calendars.
Event == [of : Appts, owner : Hosts, time : Times, live : BOOLEAN,
          dirty : {"new", "listed", "no"}]

\* Time goes on from 0, and None is no host and no event.
AppointmentsAssumption ==
  MaxTime \in Nat \ {0} /\ PushAttempts \in Nat \ {0} /\ None \notin Hosts \cup Events \cup Event

vars == <<appt, events, connected, jobs, tries, next, place, work, clock, steps, fails, exits,
          old, stale, cut, spent>>
bounds == <<clock, steps, fails, exits>>
google == <<events, connected>>
queue == <<jobs, tries, spent>>
ghosts == <<old, stale, cut>>

Idle == [kind |-> "idle"]
NoMeeting == [status |-> "none", time |-> 1, host |-> None, event |-> None, owner |-> None,
              setAt |-> 0, reminded |-> FALSE, error |-> FALSE]

Init ==
  /\ appt = [a \in Appts |-> NoMeeting] /\ events = [e \in Events |-> None]
  /\ connected = Hosts /\ jobs = {} /\ tries = [a \in Appts |-> 0] /\ next = 0 /\ place = 1
  /\ work = [w \in Workers |-> Idle]
  /\ clock = 0 /\ steps = 0 /\ fails = 0 /\ exits = 0 /\ old = {} /\ stale = {}
  /\ cut = {} /\ spent = {}

Open(a) == appt[a].status \in {"booked", "confirmed"}
Upcoming == {appt[a].time : a \in {b \in Appts : Open(b) /\ appt[b].time > clock}}
FirstUpcoming == IF Upcoming = {} THEN 0 ELSE Min(Upcoming)

(* checkClashes within the CRM; a busy calendar may be overridden.         *)
Clash(a, host, time) == \E b \in Appts \ {a} : Open(b) /\ appt[b].host = host /\ appt[b].time = time

-----------------------------------------------------------------------------
(* Somebody who writes a row, or tells Google what it says, goes by the    *)
(* row read before; whoever else holds one holds an older one from now on. *)
Reads(w, a) ==
  work[w].kind # "idle" /\ "saw" \in DOMAIN work[w] /\ work[w].at # "refresh"
    /\ work[w].appt = a

Noted(w, a) == stale' = IF w \in old THEN stale \cup {a} ELSE stale

Overtakes(w, a) ==
  old' = IF appt'[a] = appt[a] THEN old \ {w}
         ELSE (old \cup {v \in Workers : Reads(v, a)}) \ {w}

-----------------------------------------------------------------------------
(* A request of staff: read and check ...                                  *)

Ask(w, op) ==
  /\ work[w] = Idle /\ steps < MaxSteps
  /\ work' = [work EXCEPT ![w] = op]
  /\ steps' = steps + 1
  /\ UNCHANGED <<appt, google, queue, next, place, clock, fails, exits, ghosts>>

Request(kind, a, row) == [kind |-> kind, at |-> "commit", appt |-> a, saw |-> appt[a], row |-> row]

Set(a, host, time) == [appt[a] EXCEPT !.status = "booked", !.host = host, !.time = time]

AskBook(w, a, host, time) ==
  /\ appt[a].status = "none" /\ time >= clock /\ ~Clash(a, host, time)
  /\ Ask(w, Request("booked", a, Set(a, host, time)))

AskReschedule(w, a, time) ==
  /\ Open(a) /\ time # appt[a].time /\ time >= clock /\ ~Clash(a, appt[a].host, time)
  /\ Ask(w, Request("edit", a, Set(a, appt[a].host, time)))

AskChangeHost(w, a, host) ==
  /\ Open(a) /\ host # appt[a].host /\ ~Clash(a, host, appt[a].time)
  /\ Ask(w, Request("edit", a, [appt[a] EXCEPT !.host = host]))

AskCancel(w, a) == Open(a) /\ Ask(w, Request("cancel", a, [appt[a] EXCEPT !.status = "cancelled"]))

AskConfirm(w, a) ==
  appt[a].status = "booked" /\ Ask(w, Request("confirm", a,
      [appt[a] EXCEPT !.status = "confirmed"]))

AskOutcome(w, a, outcome) ==
  LET status == IF outcome = "attended" THEN "completed" ELSE "no_show" IN
  /\ Open(a) \/ appt[a].status \in {"completed", "no_show"} \ {status}
  /\ appt[a].time <= clock
  /\ Ask(w, Request(outcome, a, [appt[a] EXCEPT !.status = status]))

(* ... and commit: one UPDATE, whatever the row has become.  An edit       *)
(* writes host and time, as read where they do not change; a new time      *)
(* opens the meeting again.                                                *)
Written(op, row) ==
  IF op.kind = "booked" \/ (op.kind = "edit" /\ op.row.time # op.saw.time)
    THEN [row EXCEPT !.host = op.row.host, !.time = op.row.time, !.status = "booked",
                     !.setAt = clock, !.reminded = FALSE]
  ELSE IF op.kind = "edit" THEN [row EXCEPT !.host = op.row.host, !.time = op.row.time]
  ELSE [row EXCEPT !.status = op.row.status]

Commit(w) ==
  LET op == work[w]  a == op.appt IN
  /\ op.kind # "idle" /\ op.at = "commit"
  /\ appt' = [appt EXCEPT ![a] = Written(op, @)]
  /\ Noted(w, a) /\ Overtakes(w, a)
  /\ work' = [work EXCEPT ![w] = IF op.kind = "confirm" THEN Idle
       ELSE [kind |-> op.kind, appt |-> a, at |->
               IF op.kind \in {"booked", "attended", "missed"} THEN "decide" ELSE "push"]]
  /\ UNCHANGED <<google, queue, next, place, bounds, cut>>

-----------------------------------------------------------------------------
(* moveForAppointment.                                                     *)

(* Fault: a file that is won or lost is moved too.                         *)
WantedAnywhere(kind, p) ==
  IF kind = "booked" THEN IF p <= BookedAt \/ p = PlaceOf.missed THEN BookedAt ELSE p
  ELSE PlaceOf[kind]

(* bookingMove and outcomeMove: never backwards, never out of a stage that *)
(* settles the file; a file that missed a meeting comes back into play.    *)
Wanted(kind, p) ==
  CASE Settled(p) -> p
    [] kind = "booked" -> IF p <= BookedAt \/ p = PlaceOf.missed THEN BookedAt ELSE p
    [] kind \in DOMAIN PlaceOf -> IF p > BookedAt THEN p ELSE PlaceOf[kind]

DecideMove(w) ==
  /\ work[w].kind \in {"booked", "attended", "missed"} /\ work[w].at = "decide"
  /\ LET to == Wanted(work[w].kind, place) IN
       work' = [work EXCEPT ![w] = [kind |-> @.kind, appt |-> @.appt, row |-> appt[@.appt],
           from |-> place, to |-> to,
                                    at |-> IF to = place THEN "push" ELSE "move"]]
  /\ UNCHANGED <<appt, google, queue, next, place, bounds, ghosts>>

MoveFile(w) ==
  /\ work[w].kind # "idle" /\ work[w].at = "move"
  /\ place' = work[w].to
  /\ work' = [work EXCEPT ![w].at = "push", ![w].from = 0, ![w].to = 0]
  /\ UNCHANGED <<appt, google, queue, next, bounds, ghosts>>

(* Somebody drags the file on the board.                                   *)
StaffMoves(p) ==
  /\ steps < MaxSteps /\ p > place /\ Settled(p)
  /\ steps' = steps + 1 /\ place' = p
  /\ UNCHANGED <<appt, google, queue, next, work, clock, fails, exits, ghosts>>

-----------------------------------------------------------------------------
(* pushAppointment.                                                        *)

(* Fault: an event is left in the calendar of a host who is not the host.  *)
NeverTakeOut(row) == row.event # None /\ row.status \notin {"booked", "confirmed"}

(* The event is in the wrong calendar, or should be in none.               *)
MustTakeOut(row) ==
  /\ row.event # None
  /\ \/ row.status \notin {"booked", "confirmed"}
     \/ row.host \notin connected \/ row.owner # row.host

MustPutIn(row) == row.status \in {"booked", "confirmed"} /\ row.host \in connected

After(op) ==
  IF op.kind \in {"retry", "hand"} THEN Idle
  ELSE [kind |-> op.kind, appt |-> op.appt, at |-> "refresh"]

(* The row of the job leaves: it succeeded, or it is dead.                 *)
EndJob(a) == jobs' = jobs \ {a} /\ tries' = [tries EXCEPT ![a] = 0]

(* Nothing to do, or done: a retry's job is finished too.                  *)
Leave(w) ==
  /\ work' = [work EXCEPT ![w] = After(work[w])]
  /\ IF work[w].kind = "retry" THEN EndJob(work[w].appt) ELSE UNCHANGED <<jobs, tries>>
  /\ UNCHANGED spent

Pushing(w, at) == work[w].kind \notin {"idle", "sync"} /\ work[w].at = at

(* The time and the words of the event are those of the row loaded before  *)
(* the file was moved, where it was.                                       *)
ReadTarget(w) ==
  LET now == appt[work[w].appt]
      row == IF "row" \in DOMAIN work[w] THEN [now EXCEPT !.time = work[w].row.time] ELSE now IN
  /\ Pushing(w, "push")
  /\ IF MustTakeOut(row) \/ MustPutIn(row)
       THEN /\ work' = [work EXCEPT ![w] = [kind |-> @.kind, appt |-> @.appt, saw |-> row,
                          at |-> IF MustTakeOut(row) THEN "take out" ELSE "put in"]]
            /\ old' = IF row = now THEN old ELSE old \cup {w}
            /\ UNCHANGED queue
       ELSE Leave(w) /\ UNCHANGED old
  /\ UNCHANGED <<appt, google, next, place, bounds, stale, cut>>

(* Google takes the event out; of a host who has left it nothing is asked. *)
TakeOut(w) ==
  LET op == work[w] IN
  /\ Pushing(w, "take out")
  /\ events' = IF op.saw.owner \in connected
                 THEN [events EXCEPT ![op.saw.event].live = FALSE, ![op.saw.event].dirty = "new"]
                 ELSE events
  /\ work' = [work EXCEPT ![w].at = "taken out"]
  /\ UNCHANGED <<appt, connected, queue, next, place, bounds, ghosts>>

RecordOut(w) ==
  LET op == work[w]  a == op.appt  open == op.saw.status \in {"booked", "confirmed"} IN
  /\ Pushing(w, "taken out")
  /\ appt' = [appt EXCEPT ![a].error = FALSE, ![a].event = IF open THEN None ELSE @,
                          ![a].owner = IF open THEN None ELSE @]
  /\ Noted(w, a) /\ Overtakes(w, a)
  /\ IF MustPutIn(op.saw)
       THEN /\ work' = [work EXCEPT ![w].at = "put in", ![w].saw = [op.saw EXCEPT
                          !.event = None, !.owner = None, !.error = FALSE]]
            /\ UNCHANGED queue
       ELSE Leave(w)
  /\ UNCHANGED <<google, next, place, bounds, cut>>

(* An event that is gone is booked again.                                  *)
PutIn(w) ==
  LET op == work[w]
      kept == op.saw.event # None /\ events[op.saw.event] # None /\ events[op.saw.event].live
      e == IF kept THEN op.saw.event ELSE CHOOSE x \in Events : events[x] = None IN
  /\ Pushing(w, "put in")
  /\ kept \/ \E x \in Events : events[x] = None
  /\ events' = [events EXCEPT ![e] = [of |-> op.appt, owner |-> op.saw.host, time |-> op.saw.time,
                                      live |-> TRUE, dirty |-> "new"]]
  /\ Noted(w, op.appt) /\ UNCHANGED old
  /\ work' = [work EXCEPT ![w] = [kind |-> op.kind, appt |-> op.appt, saw |-> op.saw,
         at |-> "put", event |-> e]]
  /\ UNCHANGED <<appt, connected, queue, next, place, bounds, cut>>

RecordIn(w) ==
  LET op == work[w]  a == op.appt IN
  /\ Pushing(w, "put")
  /\ appt' = [appt EXCEPT ![a].event = op.event, ![a].owner = op.saw.host, ![a].error = FALSE]
  /\ Noted(w, a) /\ Overtakes(w, a)
  /\ Leave(w)
  /\ UNCHANGED <<google, next, place, bounds, cut>>

(* Fault: a failed push is noted, and not tried again.                     *)
Forget(a) == UNCHANGED queue

(* One job for the meeting, unless there is one already, running or not.   *)
TryAgain(a) ==
  /\ jobs' = jobs \cup {a} /\ spent' = spent \ {a}
  /\ UNCHANGED tries

(* The run of the job throws: it is tried later, until its attempts are    *)
(* used up, and then it is dead.                                           *)
JobThrows(a) ==
  IF tries[a] < PushAttempts THEN UNCHANGED queue
  ELSE EndJob(a) /\ spent' = spent \cup {a}

(* By hand the person is told, and nothing is planted.                     *)
Report(a) == spent' = spent \cup {a} /\ UNCHANGED <<jobs, tries>>

(* Google does not answer: the row says so.  A request's enqueue finds the *)
(* key taken while the job is running, whatever that run has read.         *)
GoogleFails(w) ==
  LET op == work[w]  a == op.appt IN
  /\ Pushing(w, "take out") \/ Pushing(w, "put in")
  /\ fails < MaxFails /\ fails' = fails + 1
  /\ appt' = [appt EXCEPT ![a].error = TRUE]
  /\ Overtakes(w, a)
  /\ CASE op.kind = "retry" -> JobThrows(a)
       [] op.kind = "hand"  -> Report(a)
       [] OTHER             -> TryAgain(a)
  /\ work' = [work EXCEPT ![w] = After(op)]
  /\ UNCHANGED <<google, next, place, clock, steps, exits, stale, cut>>

RunPushJob(w, a) ==
  /\ work[w] = Idle /\ a \in jobs
  /\ ~\E v \in Workers : work[v].kind = "retry" /\ work[v].appt = a
  /\ tries' = [tries EXCEPT ![a] = @ + 1]
  /\ work' = [work EXCEPT ![w] = [kind |-> "retry", appt |-> a, at |-> "push"]]
  /\ UNCHANGED <<appt, google, jobs, next, place, bounds, ghosts, spent>>

(* retryGoogle: the "Retry" button, whatever the meeting and its job are.  *)
AskRetry(w, a) ==
  /\ appt[a].status # "none"
  /\ Ask(w, [kind |-> "hand", appt |-> a, at |-> "push"])

(* Fault: the next meeting is looked for before the change is committed.   *)
KeepNext == UNCHANGED next

RefreshNext == next' = FirstUpcoming

Refresh(w) ==
  /\ work[w].kind # "idle" /\ work[w].at = "refresh"
  /\ RefreshNext
  /\ work' = [work EXCEPT ![w] = IF @.kind = "sync"
       THEN [kind |-> "sync", at |-> "list", host |-> @.host, todo |-> @.todo,
           listed |-> @.listed] ELSE Idle]
  /\ UNCHANGED <<appt, google, queue, place, bounds, ghosts>>

-----------------------------------------------------------------------------
(* syncOne: what changed in a host's calendar is applied, event by event.  *)

SyncList(w, h) ==
  /\ work[w] = Idle /\ h \in connected
  /\ ~\E v \in Workers : work[v].kind = "sync"
  /\ LET seen == {e \in Events : events[e] # None /\ events[e].owner = h
             /\ events[e].dirty # "no"} IN
       /\ seen # {}
       /\ events' = [e \in Events |-> IF e \in seen THEN [events[e] EXCEPT !.dirty = "listed"]
              ELSE events[e]]
       /\ work' = [work EXCEPT ![w] = [kind |-> "sync", at |-> "list", host |-> h, todo |-> seen,
                                       listed |-> [e \in seen |-> events[e]]]]
  /\ UNCHANGED <<appt, connected, queue, next, place, bounds, ghosts>>

(* The window of the next sync overlaps this one's by two minutes: an      *)
(* event that a push is about to record is listed again.                   *)
Finding(a, op, e) == Open(a) /\ appt[a].event = e /\ appt[a].owner = op.host

SyncFind(w, e) ==
  LET op == work[w] IN
  /\ op.kind = "sync" /\ op.at = "list" /\ e \in op.todo
  /\ IF \E a \in Appts : Finding(a, op, e) /\ (~op.listed[e].live
            \/ op.listed[e].time # appt[a].time)
       THEN \E a \in Appts : /\ Finding(a, op, e)
                             /\ work' = [work EXCEPT ![w] = [kind |-> "sync", at |-> "apply",
                                    host |-> op.host, todo |-> op.todo \ {e},
                                    listed |-> op.listed, appt |-> a, event |-> e,
                                    saw |-> appt[a]]]
       ELSE work' = [work EXCEPT ![w].todo = @ \ {e}, ![w].listed =
                       IF \E v \in Workers : Pushing(v, "put") /\ work[v].event = e
                         THEN Restrict(@, DOMAIN @ \ {e}) ELSE @]
  /\ UNCHANGED <<appt, google, queue, next, place, bounds, ghosts>>

SyncApply(w) ==
  LET op == work[w]  a == op.appt  listed == op.listed[op.event] IN
  /\ op.kind = "sync" /\ op.at = "apply"
  /\ appt' = [appt EXCEPT ![a] = IF listed.live
       THEN [@ EXCEPT !.time = listed.time, !.setAt = clock, !.reminded = FALSE,
           !.status = "booked"]
       ELSE [@ EXCEPT !.status = "cancelled"]]
  /\ Noted(w, a) /\ Overtakes(w, a)
  /\ work' = [work EXCEPT ![w].at = "refresh"]
  /\ UNCHANGED <<google, queue, next, place, bounds, cut>>

(* last_synced_at: what changes after the listing is listed again.         *)
SyncCommit(w) ==
  LET op == work[w] IN
  /\ op.kind = "sync" /\ op.at = "list" /\ op.todo = {}
  /\ events' = [e \in Events |-> IF e \in DOMAIN op.listed /\ events[e].dirty = "listed"
                                   THEN [events[e] EXCEPT !.dirty = "no"] ELSE events[e]]
  /\ work' = [work EXCEPT ![w] = Idle]
  /\ UNCHANGED <<appt, connected, queue, next, place, bounds, ghosts>>

-----------------------------------------------------------------------------
(* Google's own screen, the connection, the clock and the end of the       *)
(* process.                                                                *)

Touch(e, live, time) ==
  /\ steps < MaxSteps /\ events[e] # None /\ events[e].live
  /\ live => time > clock /\ time # events[e].time
  /\ events' = [events EXCEPT ![e].live = live, ![e].time = IF live THEN time ELSE @,
         ![e].dirty = "new"]
  /\ steps' = steps + 1
  /\ UNCHANGED <<appt, connected, queue, next, place, work, clock, fails, exits, ghosts>>

Disconnect(h) ==
  /\ steps < MaxSteps /\ h \in connected
  /\ connected' = connected \ {h}
  /\ cut' = cut \cup {a \in Appts : appt[a].owner = h \/ \E w \in Workers :
                        work[w].kind # "idle" /\ "appt" \in DOMAIN work[w] /\ work[w].appt = a}
  /\ steps' = steps + 1
  /\ UNCHANGED <<appt, events, queue, next, place, work, clock, fails, exits, old, stale>>

(* The appointments.tick job, every minute: reminders that are due are     *)
(* claimed, and a next meeting that has begun is replaced.                 *)
Due(a) ==
  /\ Open(a) /\ ~appt[a].reminded
  /\ clock < appt[a].time /\ appt[a].time <= clock + 1 /\ appt[a].setAt <= appt[a].time - 1

AppointmentTick ==
  /\ (\E a \in Appts : Due(a)) \/ (next # 0 /\ next <= clock)
  /\ appt' = [a \in Appts |-> IF Due(a) THEN [appt[a] EXCEPT !.reminded = TRUE] ELSE appt[a]]
  /\ next' = IF next # 0 /\ next <= clock THEN FirstUpcoming ELSE next
  /\ old' = old \cup {w \in Workers : \E a \in Appts : Due(a) /\ Reads(w, a)}
  /\ UNCHANGED <<google, queue, place, work, bounds, stale, cut>>

(* A unit of the clock is the 15 minutes of the reminder: the job runs in  *)
(* each, and no request takes as long.                                     *)
Clock ==
  /\ clock < MaxTime /\ (\A w \in Workers : work[w] = Idle) /\ ~\E a \in Appts : Due(a)
  /\ ~(next # 0 /\ next <= clock)
  /\ clock' = clock + 1
  /\ UNCHANGED <<appt, google, queue, next, place, work, steps, fails, exits, ghosts>>

Exit ==
  /\ exits < MaxExits /\ exits' = exits + 1
  /\ \E w \in Workers : work[w] # Idle
  /\ cut' = cut \cup {work[w].appt : w \in {v \in Workers : work[v].kind # "idle"
         /\ "appt" \in DOMAIN work[v]}}
  /\ work' = [w \in Workers |-> Idle] /\ old' = {}
  /\ UNCHANGED <<appt, google, queue, next, place, clock, steps, fails, stale>>

-----------------------------------------------------------------------------
StaffAsks(w, a) ==
  \/ \E h \in Hosts, t \in Times : AskBook(w, a, h, t)
  \/ \E t \in Times : AskReschedule(w, a, t)
  \/ \E h \in Hosts : AskChangeHost(w, a, h)
  \/ AskCancel(w, a) \/ AskConfirm(w, a) \/ AskRetry(w, a)
  \/ \E outcome \in DOMAIN PlaceOf : AskOutcome(w, a, outcome)

WorkerStep(w) ==
  \/ Commit(w) \/ DecideMove(w) \/ MoveFile(w)
  \/ ReadTarget(w) \/ TakeOut(w) \/ RecordOut(w) \/ PutIn(w) \/ RecordIn(w) \/ GoogleFails(w)
  \/ Refresh(w)
  \/ \E h \in Hosts : SyncList(w, h)
  \/ \E e \in Events : SyncFind(w, e)
  \/ SyncApply(w) \/ SyncCommit(w)
  \/ \E a \in Appts : RunPushJob(w, a)

Next ==
  \/ steps < MaxSteps /\ \E w \in Workers, a \in Appts : StaffAsks(w, a)
  \/ \E w \in Workers : WorkerStep(w)
  \/ \E e \in Events, t \in Times, live \in BOOLEAN : Touch(e, live, t)
  \/ \E h \in Hosts : Disconnect(h)
  \/ \E p \in Places : StaffMoves(p)
  \/ AppointmentTick \/ Clock \/ Exit

Spec == Init /\ [][Next]_vars

-----------------------------------------------------------------------------
(* Properties.                                                             *)

TypeOK ==
  /\ \A a \in Appts : /\ appt[a].status \in Status /\ appt[a].time \in Times
                      /\ appt[a].event \in Events \cup {None} /\ appt[a].host \in Hosts \cup {None}
                      /\ appt[a].event # None => events[appt[a].event] # None
  /\ connected \subseteq Hosts /\ jobs \subseteq Appts /\ place \in Places /\ next \in 0 .. MaxTime
  /\ clock \in 0 .. MaxTime /\ spent \subseteq Appts
  /\ \A w \in old : \E a \in Appts : Reads(w, a)
  /\ tries \in [Appts -> Nat] /\ \A a \in Appts : tries[a] # 0 => a \in jobs

Touched(a) == \E w \in Workers : work[w].kind = "sync"
    \/ (work[w].kind # "idle" /\ work[w].appt = a)

(* No calendar is wrong in silence: when nobody is at work on a meeting,   *)
(* no job of it is left and its row shows no error, an open meeting of a   *)
(* host with a calendar is there once, at its time, in its host's, and a   *)
(* closed one is in none; and where the row does show an error, a job will *)
(* try again, unless the last one ran out of attempts or somebody tried by *)
(* hand.  After every order of changes here and in Google, failures and    *)
(* retries, except where somebody wrote what an older row said or the      *)
(* process or the connection ended in between.                             *)
CalendarsAgree ==
  \A a \in Appts \ (stale \cup cut) : ~Touched(a) =>
    /\ appt[a].error /\ (MustTakeOut(appt[a]) \/ MustPutIn(appt[a])) => a \in jobs \cup spent
    /\ a \notin jobs /\ ~appt[a].error =>
         /\ \A e \in Events : events[e] # None /\ events[e].live /\ events[e].of = a =>
              Open(a) /\ appt[a].event = e
         /\ MustPutIn(appt[a]) => appt[a].event # None
         /\ Open(a) /\ appt[a].event # None => LET e == events[appt[a].event] IN
              e.dirty = "no" => e.live /\ e.time = appt[a].time /\ e.owner = appt[a].host

(* However requests, syncs and the clock interleave, once they are done    *)
(* the file's next meeting is the first open one to come, and no meeting   *)
(* began unannounced that had been set in time; again where no older row   *)
(* was written over a newer.                                               *)
ClockIsKept ==
  /\ (\A w \in Workers : work[w].kind = "idle") /\ stale \cup cut = {}
         /\ ~(next # 0 /\ next <= clock) =>
       next = FirstUpcoming
  /\ \A a \in Appts \ stale :
       Open(a) /\ appt[a].time <= clock /\ appt[a].setAt < appt[a].time => appt[a].reminded

(* A file goes back, or leaves Funded, because of a meeting only from the  *)
(* stage of those who missed one, or if it was moved between the decision  *)
(* and the move.                                                           *)
FileMovesOn ==
  [][(place' < place \/ Settled(place)) /\ place' # place =>
       \/ ~Settled(place) /\ place = PlaceOf.missed
       \/ \E w \in Workers : work[w].kind # "idle" /\ work[w].at = "move"
              /\ work[w].from # place]_vars

-----------------------------------------------------------------------------
(* What the comments say and the code does not do.                         *)

(* src/domain/appointments.ts:209 "never backwards past it, and never out  *)
(* of Funded or Lost": the stage is read before the move, which asks only  *)
(* what its target asks.                                                   *)
NeverOutOfFunded == [][Settled(place) => Settled(place')]_vars

(* src/services/appointments.ts:711 "Retried in the background": for an    *)
(* outage that outlasts six attempts, nobody tries again.                  *)
FailedPushIsRetried ==
  \A a \in Appts \ (stale \cup cut) :
    ~Touched(a) /\ appt[a].error /\ MustPutIn(appt[a]) => a \in jobs

(* src/services/appointments.ts:912 "a mistake can be corrected by         *)
(* recording the other outcome, which moves the file again": a file that   *)
(* attending moved past the booked stage is not moved by having missed it. *)
CorrectionMoves ==
  [][\A w \in Workers, a \in Appts : work[w].kind = "missed" /\ work[w].at = "decide" /\
       place = PlaceOf.attended /\ work'[w] # work[w] /\ exits' = exits
           => work'[w].at = "move"]_vars
=============================================================================
