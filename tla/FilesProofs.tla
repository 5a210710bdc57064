----------------------------- MODULE FilesProofs -----------------------------
(***************************************************************************)
(* Proofs about what moves a file along its pipeline: the meetings and the *)
(* calendars that show them, and the stages that people change under it.   *)
(* For any appointments, hosts, events, workers, pipelines, stages, files  *)
(* and bounds.                                                             *)
(***************************************************************************)
EXTENDS MCFiles, FiniteSetTheorems, TLAPS

-----------------------------------------------------------------------------
(* What the rows, the events and the operations at work look like.         *)

Moving == {"booked", "attended", "missed"}
Edits == Moving \cup {"edit", "cancel"}
Pushers == Edits \cup {"retry", "hand"}

Row == [status : Status, time : Times, host : Hosts \cup {None}, event : Events \cup {None},
        owner : Hosts \cup {None}, setAt : 0 .. MaxTime, reminded : BOOLEAN, error : BOOLEAN]
Lists == UNION {[D -> Event] : D \in SUBSET Events}

Committing ==
  [kind : Edits \cup {"confirm"}, at : {"commit"}, appt : Appts, saw : Row, row : Row]
Deciding == [kind : Moving, at : {"decide"}, appt : Appts]
Starting == [kind : Pushers, at : {"push"}, appt : Appts]
Decided ==
  [kind : Moving, at : {"push", "move"}, appt : Appts, row : Row, from : 0 .. 5, to : 0 .. 5]
Sending == [kind : Pushers, at : {"take out", "taken out", "put in"}, appt : Appts, saw : Row]
Putting == [kind : Pushers, at : {"put"}, appt : Appts, saw : Row, event : Events]
Refreshing == [kind : Edits, at : {"refresh"}, appt : Appts]
Listing ==
  [kind : {"sync"}, at : {"list"}, host : Hosts, todo : SUBSET Events, listed : Lists]
Applying ==
  [kind : {"sync"}, at : {"apply", "refresh"}, host : Hosts, todo : SUBSET Events,
   listed : Lists, appt : Appts, event : Events, saw : Row]
Work ==
  {Idle} \cup Committing \cup Deciding \cup Starting \cup Decided \cup Sending \cup Putting
    \cup Refreshing \cup Listing \cup Applying

MeetingsTyped ==
  /\ appt \in [Appts -> Row] /\ events \in [Events -> Event \cup {None}]
  /\ connected \subseteq Hosts /\ jobs \subseteq Appts /\ next \in 0 .. MaxTime /\ place \in Places
  /\ work \in [Workers -> Work]
  /\ clock \in 0 .. MaxTime
  /\ spent \subseteq Appts

(* Whoever works on a meeting, and whoever syncs.                          *)
Acts(w) == work[w].kind \notin {"idle", "sync"}
On(w, a) == Acts(w) /\ work[w].appt = a
Syncs(w) == work[w].kind = "sync"

Fine(a) == a \notin stale \cup cut
Known(e, a) == events[e] # None /\ events[e].of = a
Live(e) == events[e] # None /\ events[e].live

LEMMA Shapes ==
  ASSUME NEW op \in Work
  PROVE  /\ op.kind = "idle" => op = Idle
         /\ op.kind = "sync" => op \in Listing \cup Applying
         /\ op.kind = "sync" /\ op.at = "list" => op \in Listing
         /\ op.kind = "sync" /\ op.at # "list" => op \in Applying
         /\ op.kind \notin {"idle", "sync"} => op.appt \in Appts
         /\ op.kind \notin {"idle", "sync"} /\ op.at = "commit" => op \in Committing
         /\ op.kind \notin {"idle", "sync"} /\ op.at = "decide" => op \in Deciding
         /\ op.kind \notin {"idle", "sync"} /\ op.at = "push" => op \in Starting \cup Decided
         /\ op.kind \notin {"idle", "sync"} /\ op.at = "move" => op \in Decided
         /\ op.kind \notin {"idle", "sync"} /\ op.at \in {"take out", "taken out", "put in"} =>
              op \in Sending
         /\ op.kind \notin {"idle", "sync"} /\ op.at = "put" => op \in Putting
         /\ op.kind \notin {"idle", "sync"} /\ op.at = "refresh" => op \in Refreshing
         /\ op.kind # "idle" => op.at \in {"commit", "decide", "push", "move", "take out",
              "taken out", "put in", "put", "refresh", "list", "apply"}
         /\ op.kind \notin {"idle", "sync"} => op.at \notin {"list", "apply"}
         /\ op.kind = "retry" => op.at \in {"push", "take out", "taken out", "put in", "put"}
<1>0. CASE op = Idle
  BY <1>0 DEF Idle
<1>1. CASE op \in Committing
  BY <1>1 DEF Committing, Moving, Edits, Pushers
<1>2. CASE op \in Deciding
  BY <1>2 DEF Deciding, Moving, Edits, Pushers
<1>3. CASE op \in Starting
  BY <1>3 DEF Starting, Moving, Edits, Pushers
<1>4. CASE op \in Decided
  BY <1>4 DEF Decided, Moving, Edits, Pushers
<1>5. CASE op \in Sending
  BY <1>5 DEF Sending, Moving, Edits, Pushers
<1>6. CASE op \in Putting
  BY <1>6 DEF Putting, Moving, Edits, Pushers
<1>7. CASE op \in Refreshing
  BY <1>7 DEF Refreshing, Moving, Edits, Pushers
<1>8. CASE op \in Listing
  BY <1>8 DEF Listing, Moving, Edits, Pushers
<1>9. CASE op \in Applying
  BY <1>9 DEF Applying, Moving, Edits, Pushers
<1> QED
  BY <1>0, <1>1, <1>2, <1>3, <1>4, <1>5, <1>6, <1>7, <1>8, <1>9 DEF Work

LEMMA WorkOf ==
  ASSUME MeetingsTyped, NEW w \in Workers
  PROVE  work[w] \in Work
BY DEF MeetingsTyped

LEMMA WorkBecomes ==
  ASSUME MeetingsTyped, NEW w \in Workers, NEW x \in Work, work' = [work EXCEPT ![w] = x]
  PROVE  /\ work' \in [Workers -> Work] /\ work'[w] = x
         /\ \A v \in Workers \ {w} : work'[v] = work[v]
BY DEF MeetingsTyped

LEMMA ListsAre ==
  ASSUME NEW f \in Lists
  PROVE  /\ DOMAIN f \subseteq Events /\ \A e \in DOMAIN f : f[e] \in Event
         /\ \A D \in SUBSET DOMAIN f : Restrict(f, D) \in Lists /\ DOMAIN Restrict(f, D) = D
              /\ \A e \in D : Restrict(f, D)[e] = f[e]
<1>1. PICK D \in SUBSET Events : f \in [D -> Event]
  BY DEF Lists
<1>2. \A E \in SUBSET DOMAIN f : Restrict(f, E) \in [E -> Event]
  BY <1>1 DEF Restrict
<1> QED
  BY <1>1, <1>2 DEF Lists, Restrict

-----------------------------------------------------------------------------
(* What an operation in hand goes by.                                      *)

OpenStates == {"booked", "confirmed"}

CommitSound(w) ==
  Acts(w) /\ work[w].at = "commit" =>
    LET op == work[w] IN
    /\ op.kind = "confirm" => op.saw.status = "booked" /\ op.row.status = "confirmed"
    /\ op.kind = "edit" => op.saw.status \in OpenStates
    /\ op.kind = "booked" \/ (op.kind = "edit" /\ op.row.time # op.saw.time) =>
         op.row.time >= clock
    /\ op.kind = "cancel" => op.row.status = "cancelled"
    /\ op.kind = "attended" => op.row.status = "completed"
    /\ op.kind = "missed" => op.row.status = "no_show"

MoveSound(w) ==
  Acts(w) /\ work[w].at = "move" =>
    work[w].from \in Places /\ work[w].to = Wanted(work[w].kind, work[w].from)

(* The row a push was begun with: its event is one of the meeting's, in    *)
(* the calendar that the row says.                                         *)
Saw(w) == Acts(w) /\ work[w].at \in {"take out", "taken out", "put in", "put"}
PushSound(w) ==
  Saw(w) =>
    LET op == work[w]  saw == op.saw IN
    /\ op.at \in {"take out", "taken out"} => saw.event # None
    /\ op.at \in {"put in", "put"} => saw.status \in OpenStates /\ saw.host \in Hosts
    /\ op.at = "put in" => (saw.event # None => saw.owner = saw.host)
    /\ saw.event # None => Known(saw.event, op.appt)
    /\ Fine(op.appt) =>
         /\ saw.event # None => events[saw.event].owner = saw.owner /\ saw.owner \in connected
         /\ op.at \in {"put in", "put"} => saw.host \in connected
         /\ op.at = "taken out" => ~Live(saw.event)

(* The event that was put in is the one the row names, or a new one in the *)
(* place of one that is gone.                                              *)
Puts(w) == Acts(w) /\ work[w].at = "put"
PutSound(w) ==
  Puts(w) =>
    LET op == work[w] IN
    /\ Known(op.event, op.appt)
    /\ op.event # op.saw.event /\ op.saw.event # None => ~Live(op.saw.event)
    /\ Fine(op.appt) => events[op.event].owner = op.saw.host

(* A new event is nobody else's yet, and no sync is through with it.       *)
New(w) == Puts(w) /\ work[w].event # work[w].saw.event
NewAlone(w) ==
  New(w) =>
    LET e == work[w].event IN
    /\ \A a \in Appts : appt[a].event # e
    /\ \A v \in Workers \ {w} : /\ Saw(v) => work[v].saw.event # e
                                /\ Puts(v) => work[v].event # e
    /\ events[e].dirty # "no"
    /\ \A v \in Workers : Syncs(v) /\ e \in DOMAIN work[v].listed /\ events[e].dirty = "listed" =>
         e \in work[v].todo

(* A list is of events that were there and are still to be applied.        *)
SyncSound(w) ==
  Syncs(w) =>
    LET op == work[w] IN
    /\ op.todo \subseteq DOMAIN op.listed
    /\ \A e \in DOMAIN op.listed :
         /\ events[e] # None /\ events[e].dirty # "no" /\ op.listed[e].owner = op.host
         /\ ~op.listed[e].live => ~Live(e)
         /\ events[e].dirty = "listed" =>
              /\ events[e].live = op.listed[e].live /\ events[e].time = op.listed[e].time
              /\ events[e].owner = op.listed[e].owner
    /\ op.at # "list" => op.event \in DOMAIN op.listed \ op.todo
    /\ op.at = "apply" => op.saw.event = op.event /\ op.saw.status \in OpenStates

HandSound(w) ==
  CommitSound(w) /\ MoveSound(w) /\ PushSound(w) /\ PutSound(w) /\ SyncSound(w)

OneSync == \A v, w \in Workers : Syncs(v) /\ Syncs(w) => v = w

-----------------------------------------------------------------------------
(* What is so of a meeting that nobody wrote with an older row.            *)

(* A push of meeting a is owed: its job is there, or somebody is at it;    *)
(* or nobody tries again, because the last job died or it was by hand.     *)
Pushes(w, a) ==
  On(w, a) /\ work[w].at \in {"decide", "move", "push", "take out", "taken out", "put in", "put"}
Owed(a) == a \in jobs \/ \E w \in Workers : Pushes(w, a)
Tried(a) == Owed(a) \/ a \in spent

(* What is wrong of it is owed or shown; and not by somebody who has put   *)
(* event e in and goes by the row as it is, which sets it right.           *)
PutsIt(w, e) == work[w].at = "put" /\ work[w].event = e
Excused(a) == Owed(a) \/ appt[a].error
Coming(a, e) == Excused(a) /\ \A w \in Workers : On(w, a) /\ PutsIt(w, e) => w \in old

(* A sync has compared event e with the meetings, or is applying it.       *)
Told(e) ==
  \/ events[e].dirty = "no"
  \/ /\ events[e].dirty = "listed"
     /\ \E w \in Workers : Syncs(w) /\ e \in DOMAIN work[w].listed \ work[w].todo
Applies(w, a, e) == Syncs(w) /\ work[w].at = "apply" /\ work[w].appt = a /\ work[w].event = e

EventKnown(a) == appt[a].event # None => Known(appt[a].event, a)

OwnerKept(a) ==
  appt[a].event # None =>
    events[appt[a].event].owner = appt[a].owner /\ appt[a].owner \in connected
OneLive(a) ==
  \A e \in Events : Live(e) /\ events[e].of = a =>
    e = appt[a].event \/ \E w \in Workers : On(w, a) /\ PutsIt(w, e)
ErrorOwed(a) == appt[a].error /\ (MustTakeOut(appt[a]) \/ MustPutIn(appt[a])) => Tried(a)
LiveOpen(a) == appt[a].event # None /\ Live(appt[a].event) => Open(a) \/ Excused(a)
HostOwns(a) ==
  Open(a) =>
    Excused(a) \/ IF appt[a].event # None THEN appt[a].owner = appt[a].host
                  ELSE appt[a].host \notin connected
TimeAgrees(a) ==
  Open(a) /\ appt[a].event # None /\ Told(appt[a].event) =>
    LET e == appt[a].event IN
      \/ events[e].live /\ events[e].time = appt[a].time
      \/ (\E w \in Workers : Applies(w, a, e))
      \/ Coming(a, e)
CalendarSound(a) ==
  OwnerKept(a) /\ OneLive(a) /\ ErrorOwed(a) /\ LiveOpen(a) /\ HostOwns(a) /\ TimeAgrees(a)

MeetingSound(a) == EventKnown(a) /\ (Fine(a) => CalendarSound(a))

-----------------------------------------------------------------------------
(* The clock.                                                              *)

Refreshes(w) ==
  work[w].kind \notin {"idle", "retry", "hand"} /\ work[w].at \notin {"commit", "list"}
NextKept ==
  stale \cup cut = {} =>
    next = FirstUpcoming \/ (next # 0 /\ next <= clock) \/ \E w \in Workers : Refreshes(w)
Announced ==
  \A a \in Appts \ stale :
    Open(a) /\ appt[a].time <= clock /\ appt[a].setAt < appt[a].time => appt[a].reminded

(* Who holds a row that nobody changed since holds the row as it is.       *)
Newest ==
  \A w \in Workers, a \in Appts \ stale : Reads(w, a) /\ w \notin old => work[w].saw = appt[a]

(* A job that runs is there, and one meeting's runs once at a time.        *)
JobsHeld ==
  /\ tries \in [Appts -> Nat] /\ \A a \in Appts : tries[a] # 0 => a \in jobs
  /\ \A w \in Workers : work[w].kind = "retry" => work[w].appt \in jobs
  /\ \A v, w \in Workers :
       work[v].kind = "retry" /\ work[w].kind = "retry" /\ work[v].appt = work[w].appt => v = w

(* Who holds an older row holds a row.                                     *)
OldRead == old \subseteq Workers /\ \A w \in old : \E a \in Appts : Reads(w, a)

MeetingsInv ==
  /\ MeetingsTyped /\ OneSync /\ NextKept /\ Announced
  /\ \A w \in Workers : HandSound(w) /\ NewAlone(w)
  /\ \A a \in Appts : MeetingSound(a)

-----------------------------------------------------------------------------
(* What a step leaves alone.                                               *)

(* Events stay whose they are, gone once they are gone, and those that     *)
(* change are to be listed again.                                          *)
EventsLast ==
  \A e \in Events : events[e] # None =>
    /\ events'[e] # None /\ events'[e].of = events[e].of
    /\ events'[e].live => events[e].live
    /\ Fine(events[e].of)' => events'[e].owner = events[e].owner
Relisted ==
  \A e \in Events : events[e] # None => events'[e] = events[e] \/ events'[e].dirty = "new"
EventsKeep == EventsLast /\ Relisted

LEMMA HandStays ==
  ASSUME MeetingsTyped, NEW v \in Workers, work'[v] = work[v], HandSound(v),
         stale \subseteq stale', cut \subseteq cut', clock' = clock, connected' = connected,
         EventsLast, Syncs(v) => Relisted
  PROVE  HandSound(v)'
<1> DEFINE op == work[v]
<1>1. op \in Work /\ work'[v] = op
  BY WorkOf
<1>2. CommitSound(v)'
  BY DEF HandSound, CommitSound, Acts
<1>3. MoveSound(v)'
  BY DEF HandSound, MoveSound, Acts, Wanted
<1>4. \A a : Fine(a)' => Fine(a)
  BY DEF Fine
<1>5. PushSound(v)'
  <2> SUFFICES ASSUME Saw(v) PROVE PushSound(v)'
    BY DEF PushSound, Saw, Acts
  <2>1. op.saw \in Row
    BY <1>1, Shapes DEF Saw, Acts, Sending, Putting
  <2>2. op.saw.event # None =>
          /\ op.saw.event \in Events /\ Known(op.saw.event, op.appt)
          /\ Known(op.saw.event, op.appt)' /\ (Live(op.saw.event)' => Live(op.saw.event))
          /\ Fine(op.appt)' => events'[op.saw.event].owner = events[op.saw.event].owner
    BY <2>1 DEF HandSound, PushSound, Row, EventsKeep, EventsLast, Relisted, Known, Live
  <2>3. op.at = "taken out" => op.saw.event # None
    BY DEF HandSound, PushSound
  <2> QED
    BY <1>4, <2>2, <2>3 DEF HandSound, PushSound, Saw, Acts
<1>6. PutSound(v)'
  <2> SUFFICES ASSUME Puts(v) PROVE PutSound(v)'
    BY DEF PutSound, Puts, Acts
  <2>1. op.saw \in Row /\ op.event \in Events
    BY <1>1, Shapes DEF Puts, Acts, Putting
  <2>2. op.saw.event # None => op.saw.event \in Events /\ Known(op.saw.event, op.appt)
    BY <2>1 DEF HandSound, PushSound, Puts, Saw, Row
  <2>3. /\ Known(op.event, op.appt) /\ Known(op.event, op.appt)'
        /\ Fine(op.appt)' => events'[op.event].owner = events[op.event].owner
        /\ op.saw.event # None => (Live(op.saw.event)' => Live(op.saw.event))
    BY <2>1, <2>2 DEF HandSound, PutSound, EventsKeep, EventsLast, Relisted, Known, Live
  <2> QED
    BY <1>4, <2>3 DEF HandSound, PutSound, Puts, Acts
<1>7. SyncSound(v)'
  <2> SUFFICES ASSUME Syncs(v) PROVE SyncSound(v)'
    BY DEF SyncSound, Syncs
  <2>1. DOMAIN op.listed \subseteq Events
    BY <1>1, Shapes, ListsAre DEF Syncs, Listing, Applying
  <2>2. ASSUME NEW e \in DOMAIN op.listed
        PROVE  /\ events'[e] # None /\ events'[e].dirty # "no"
               /\ Live(e)' => Live(e)
               /\ events'[e].dirty = "listed" => events'[e] = events[e]
    BY <2>1 DEF HandSound, SyncSound, EventsKeep, EventsLast, Relisted, Live
  <2> QED
    BY <2>1, <2>2 DEF HandSound, SyncSound, Syncs
<1> QED
  BY <1>2, <1>3, <1>5, <1>6, <1>7 DEF HandSound

(* Those who worked on meeting a still do, as far as they are looked at.   *)
WorkHolds(a) ==
  /\ \A v \in Workers, e \in Events : On(v, a) /\ PutsIt(v, e) => On(v, a)' /\ PutsIt(v, e)'
  /\ Owed(a) => Owed(a)'
  /\ Excused(a) => Excused(a)'
  /\ Tried(a) => Tried(a)'
  /\ \A e \in Events : Coming(a, e) => Coming(a, e)'
  /\ \A v \in Workers, e \in Events : Applies(v, a, e) => \E u \in Workers : Applies(u, a, e)'

(* What is owed of a is not forgotten, and who went by an older row still  *)
(* does, unless it is w.                                                   *)
NothingForgiven(w, a) ==
  /\ a \in jobs => a \in jobs'
  /\ a \in spent => a \in spent' \cup jobs'
  /\ appt[a].error => appt'[a].error
  /\ old \ {w} \subseteq old'

LEMMA NothingIsForgiven ==
  ASSUME NEW w \in Workers, NEW a \in Appts, appt'[a] = appt[a], UNCHANGED <<jobs, spent>>,
         old \ {w} \subseteq old'
  PROVE  NothingForgiven(w, a)
BY DEF NothingForgiven

LEMMA HoldsForOthers ==
  ASSUME NEW w \in Workers, NEW a \in Appts, \A v \in Workers \ {w} : work'[v] = work[v],
         ~Pushes(w, a), work'[w].kind = "idle" \/ work'[w].at # "put", NothingForgiven(w, a),
         \A e \in Events : ~Applies(w, a, e)
  PROVE  WorkHolds(a)
<1>1. \A v \in Workers, e \in Events : On(v, a) /\ PutsIt(v, e) => v # w
  BY DEF Pushes, PutsIt
<1>2. \A v \in Workers \ {w}, e \in Events :
        On(v, a) /\ PutsIt(v, e) => On(v, a)' /\ PutsIt(v, e)'
  BY DEF On, Acts, PutsIt
<1>3. \A v \in Workers : Pushes(v, a) => v # w /\ Pushes(v, a)'
  BY DEF Pushes, On, Acts
<1>4. (Owed(a) => Owed(a)') /\ (Excused(a) => Excused(a)') /\ (Tried(a) => Tried(a)')
  BY <1>3 DEF Owed, Excused, Tried, NothingForgiven
<1>5. ASSUME NEW e \in Events, Coming(a, e) PROVE Coming(a, e)'
  <2> SUFFICES ASSUME NEW v \in Workers, On(v, a)', PutsIt(v, e)' PROVE v \in old'
    BY <1>4, <1>5 DEF Coming
  <2>1. v # w /\ On(v, a) /\ PutsIt(v, e)
    BY DEF On, Acts, PutsIt
  <2> QED
    BY <1>5, <2>1 DEF Coming, NothingForgiven
<1>6. \A v \in Workers, e \in Events : Applies(v, a, e) => Applies(v, a, e)'
  BY DEF Applies, Syncs
<1> QED
  BY <1>1, <1>2, <1>4, <1>5, <1>6 DEF WorkHolds

LEMMA HoldsForPusher ==
  ASSUME NEW w \in Workers, NEW a \in Appts, \A v \in Workers \ {w} : work'[v] = work[v],
         Pushes(w, a)', work'[w].at # "put", ~Puts(w), NothingForgiven(w, a),
         \A e \in Events : ~Applies(w, a, e)
  PROVE  WorkHolds(a)
<1>1. \A v \in Workers, e \in Events : On(v, a) /\ PutsIt(v, e) => v # w
  BY DEF Puts, On, PutsIt
<1>2. \A v \in Workers \ {w}, e \in Events :
        On(v, a) /\ PutsIt(v, e) => On(v, a)' /\ PutsIt(v, e)'
  BY DEF On, Acts, PutsIt
<1>3. Owed(a)' /\ Excused(a)' /\ Tried(a)'
  BY DEF Owed, Excused, Tried
<1>4. ASSUME NEW e \in Events, Coming(a, e) PROVE Coming(a, e)'
  <2> SUFFICES ASSUME NEW v \in Workers, On(v, a)', PutsIt(v, e)' PROVE v \in old'
    BY <1>3 DEF Coming
  <2>1. v # w /\ On(v, a) /\ PutsIt(v, e)
    BY DEF On, Acts, PutsIt
  <2> QED
    BY <1>4, <2>1 DEF Coming, NothingForgiven
<1>5. \A v \in Workers, e \in Events : Applies(v, a, e) => Applies(v, a, e)'
  BY DEF Applies, Syncs
<1> QED
  BY <1>1, <1>2, <1>3, <1>4, <1>5 DEF WorkHolds

LEMMA HoldsForStrangers ==
  ASSUME NEW w \in Workers, NEW a \in Appts, \A v \in Workers \ {w} : work'[v] = work[v],
         ~Pushes(w, a), ~On(w, a)', appt'[a] = appt[a], UNCHANGED <<jobs, spent>>,
         old \ {w} \subseteq old',
         \A e \in Events : ~Applies(w, a, e)
  PROVE  WorkHolds(a)
<1>1. NothingForgiven(w, a)
  BY NothingIsForgiven
<1>2. \A v \in Workers, e \in Events : On(v, a) /\ PutsIt(v, e) => v # w
  BY DEF Pushes, PutsIt
<1>3. \A v \in Workers \ {w}, e \in Events :
        On(v, a) /\ PutsIt(v, e) => On(v, a)' /\ PutsIt(v, e)'
  BY DEF On, Acts, PutsIt
<1>4. \A v \in Workers : Pushes(v, a) => v # w /\ Pushes(v, a)'
  BY DEF Pushes, On, Acts
<1>5. (Owed(a) => Owed(a)') /\ (Excused(a) => Excused(a)') /\ (Tried(a) => Tried(a)')
  BY <1>4 DEF Owed, Excused, Tried
<1>6. ASSUME NEW e \in Events, Coming(a, e) PROVE Coming(a, e)'
  <2> SUFFICES ASSUME NEW v \in Workers, On(v, a)', PutsIt(v, e)' PROVE v \in old'
    BY <1>5, <1>6 DEF Coming
  <2>1. v # w /\ On(v, a) /\ PutsIt(v, e)
    BY DEF On, Acts, PutsIt
  <2> QED
    BY <1>6, <2>1 DEF Coming
<1>7. \A v \in Workers, e \in Events : Applies(v, a, e) => Applies(v, a, e)'
  BY DEF Applies, Syncs
<1> QED
  BY <1>2, <1>3, <1>5, <1>6, <1>7 DEF WorkHolds

(* A meeting stays as it is but for whether its reminder is sent, and for  *)
(* being confirmed.                                                        *)
SameMeeting(a) ==
  /\ Open(a)' <=> Open(a)
  /\ appt'[a].time = appt[a].time /\ appt'[a].host = appt[a].host
  /\ appt'[a].event = appt[a].event /\ appt'[a].owner = appt[a].owner
  /\ appt'[a].error = appt[a].error

ToldAlready(e) ==
  Told(e) /\ events'[e].live = events[e].live /\ events'[e].time = events[e].time

LEMMA MeetingStays ==
  ASSUME MeetingsTyped, NEW a \in Appts, MeetingSound(a), Fine(a)' => Fine(a), SameMeeting(a),
         connected' = connected, EventsLast, WorkHolds(a),
         \A e \in Events : Live(e)' /\ events'[e].of = a => Live(e),
         TimeAgrees(a)' \/ \A e \in Events : e = appt[a].event /\ Told(e)' => ToldAlready(e)
  PROVE  MeetingSound(a)'
<1>e. PICK e \in Events \cup {None} : e = appt[a].event
  BY DEF MeetingsTyped, Row
<1>0. appt[a].event = e /\ appt'[a].event = e
  BY <1>e DEF SameMeeting
<1>1. e # None =>
        /\ e \in Events /\ Known(e, a) /\ Known(e, a)' /\ (Live(e)' => Live(e))
        /\ Fine(a)' => events'[e].owner = events[e].owner
  BY <1>0 DEF MeetingSound, EventKnown, Known, Live, EventsLast
<1>2. EventKnown(a)'
  BY <1>0, <1>1 DEF EventKnown
<1>3. ASSUME Fine(a)' PROVE CalendarSound(a)'
  <2>0. /\ OwnerKept(a) /\ OneLive(a) /\ ErrorOwed(a) /\ LiveOpen(a) /\ HostOwns(a) /\ TimeAgrees(a)
        /\ Fine(a)
    BY <1>3 DEF MeetingSound, CalendarSound
  <2>1. OwnerKept(a)'
    BY <1>0, <1>1, <1>3, <2>0 DEF OwnerKept, SameMeeting
  <2>2. OneLive(a)'
    <3> SUFFICES ASSUME NEW x \in Events, Live(x)', events'[x].of = a
                 PROVE  x = appt'[a].event \/ \E w \in Workers : On(w, a)' /\ PutsIt(w, x)'
      BY DEF OneLive
    <3>1. Live(x) /\ events[x].of = a
      BY DEF EventsKeep, EventsLast, Relisted, Live
    <3> QED
      BY <2>0, <3>1 DEF OneLive, SameMeeting, WorkHolds
  <2>3. ErrorOwed(a)'
    <3>1. MustTakeOut(appt[a])' => MustTakeOut(appt[a])
      BY <1>0, <1>1 DEF MustTakeOut, SameMeeting, Open
    <3>2. MustPutIn(appt[a])' => MustPutIn(appt[a])
      BY DEF MustPutIn, SameMeeting, Open
    <3> QED
      BY <2>0, <3>1, <3>2 DEF ErrorOwed, SameMeeting, WorkHolds
  <2>4. LiveOpen(a)' /\ HostOwns(a)'
    BY <1>0, <1>1, <2>0 DEF LiveOpen, HostOwns, SameMeeting, WorkHolds
  <2>5. TimeAgrees(a)'
    <3> SUFFICES ASSUME Open(a)', e # None, Told(e)', ~TimeAgrees(a)'
                 PROVE  \/ events'[e].live /\ events'[e].time = appt'[a].time
                        \/ \E w \in Workers : Applies(w, a, e)'
                        \/ Coming(a, e)'
      BY <1>0 DEF TimeAgrees
    <3>1. ToldAlready(e)
      BY <1>0, <1>1
    <3>2. Told(e) /\ Open(a) /\ e \in Events
      BY <1>0, <1>1, <3>1 DEF SameMeeting, ToldAlready
    <3> QED
      BY <1>0, <2>0, <3>1, <3>2 DEF TimeAgrees, WorkHolds, SameMeeting, ToldAlready
  <2> QED
    BY <2>1, <2>2, <2>3, <2>4, <2>5 DEF CalendarSound
<1> QED
  BY <1>2, <1>3 DEF MeetingSound

LEMMA FirstStays ==
  ASSUME \A a \in Appts : (Open(a)' <=> Open(a)) /\ appt'[a].time = appt[a].time, clock' = clock
  PROVE  FirstUpcoming' = FirstUpcoming
<1>1. Upcoming' = Upcoming
  BY DEF Upcoming
<1> QED
  BY <1>1 DEF FirstUpcoming

LEMMA NextStays ==
  ASSUME NextKept, NEW w \in Workers, \A v \in Workers \ {w} : work'[v] = work[v],
         UNCHANGED <<next, clock>>, FirstUpcoming' = FirstUpcoming,
         stale \subseteq stale', cut \subseteq cut', Refreshes(w) => Refreshes(w)'
  PROVE  NextKept'
<1>1. \A v \in Workers : Refreshes(v) => Refreshes(v)'
  BY DEF Refreshes
<1>2. stale' \cup cut' = {} => stale \cup cut = {}
  OBVIOUS
<1> QED
  BY <1>1, <1>2 DEF NextKept

LEMMA AnnouncedStays ==
  ASSUME Announced, UNCHANGED <<appt, clock>>, stale \subseteq stale'
  PROVE  Announced'
BY DEF Announced, Open

LEMMA InvParts ==
  ASSUME MeetingsInv
  PROVE  /\ MeetingsTyped /\ OneSync /\ NextKept /\ Announced
         /\ \A w \in Workers : HandSound(w) /\ NewAlone(w)
         /\ \A a \in Appts : MeetingSound(a)
BY DEF MeetingsInv

(* One operation goes on, and writes neither meetings nor events.          *)
LEMMA QuietKeeps ==
  ASSUME MeetingsInv, NEW w \in Workers, NEW x \in Work, work' = [work EXCEPT ![w] = x],
         UNCHANGED <<appt, events, connected, clock, stale, cut>>,
         jobs' \subseteq Appts, spent' \subseteq Appts, next' \in 0 .. MaxTime, place' \in Places,
         HandSound(w)', ~Puts(w)',
         Saw(w)' => \E a \in Appts : x.saw.event = appt[a].event,
         Syncs(w)' => Syncs(w) /\ x.listed = work[w].listed /\ x.todo = work[w].todo,
         \A a \in Appts : WorkHolds(a) \/ MeetingSound(a)',
         NextKept'
  PROVE  MeetingsInv'
<1>0. MeetingsTyped /\ OneSync /\ Announced
  BY InvParts
<1>1. work' \in [Workers -> Work] /\ work'[w] = x /\ \A v \in Workers \ {w} : work'[v] = work[v]
  BY <1>0, WorkBecomes
<1>2. MeetingsTyped'
  BY <1>0, <1>1 DEF MeetingsTyped
<1>3. EventsKeep
  BY DEF EventsKeep, EventsLast, Relisted
<1>4. \A v \in Workers : HandSound(v)'
  BY <1>0, <1>1, <1>3, HandStays, InvParts DEF EventsKeep
<1>5. \A v \in Workers : Syncs(v)' => Syncs(v) /\ work'[v].listed = work[v].listed
                                      /\ work'[v].todo = work[v].todo
  BY <1>1 DEF Syncs
<1>6. OneSync'
  BY <1>0, <1>5 DEF OneSync
<1>7. ASSUME NEW v \in Workers PROVE NewAlone(v)'
  <2> SUFFICES ASSUME New(v)' PROVE NewAlone(v)'
    BY DEF NewAlone
  <2>1. v # w /\ work'[v] = work[v] /\ New(v)
    BY <1>1 DEF New, Puts, Acts
  <2>e. PICK e : e = work[v].event
    OBVIOUS
  <2>2. /\ \A a \in Appts : appt[a].event # e
        /\ \A u \in Workers \ {v} : (Saw(u) => work[u].saw.event # e) /\ (Puts(u) => work[u].event # e)
        /\ events[e].dirty # "no"
        /\ \A u \in Workers : Syncs(u) /\ e \in DOMAIN work[u].listed /\ events[e].dirty = "listed" =>
             e \in work[u].todo
    BY <2>1, <2>e, InvParts DEF NewAlone
  <2>3. \A u \in Workers \ {v} : (Saw(u)' => work'[u].saw.event # e) /\ (Puts(u)' => work'[u].event # e)
    BY <1>1, <2>2 DEF Saw, Puts, Acts
  <2>4. \A u \in Workers :
          Syncs(u)' /\ e \in DOMAIN work'[u].listed /\ events[e].dirty = "listed" => e \in work'[u].todo
    BY <1>5, <2>2
  <2>5. work'[v].event = e
    BY <2>1, <2>e
  <2> QED
    BY <2>2, <2>3, <2>4, <2>5 DEF NewAlone
<1>8. ASSUME NEW a \in Appts, WorkHolds(a) PROVE MeetingSound(a)'
  <2>1. SameMeeting(a) /\ (Fine(a)' => Fine(a))
    BY DEF SameMeeting, Open, Fine
  <2>2. \A e \in Events : Live(e)' => Live(e)
    BY DEF Live
  <2>3. \A e \in Events : Told(e)' => ToldAlready(e)
    BY <1>5 DEF Told, ToldAlready
  <2> QED
    BY <1>0, <1>3, <1>8, <2>1, <2>2, <2>3, MeetingStays, InvParts DEF EventsKeep
<1>9. Announced'
  BY <1>0, AnnouncedStays
<1> QED
  BY <1>2, <1>4, <1>6, <1>7, <1>8, <1>9 DEF MeetingsInv

-----------------------------------------------------------------------------
(* Requests of staff.                                                      *)

LEMMA AskKeeps ==
  ASSUME MeetingsInv, NEW w \in Workers, NEW op \in Committing, Ask(w, op),
         op.kind = "confirm" => op.saw.status = "booked" /\ op.row.status = "confirmed",
         op.kind = "edit" => op.saw.status \in OpenStates,
         op.kind = "booked" \/ (op.kind = "edit" /\ op.row.time # op.saw.time) =>
           op.row.time >= clock,
         op.kind = "cancel" => op.row.status = "cancelled",
         op.kind = "attended" => op.row.status = "completed",
         op.kind = "missed" => op.row.status = "no_show"
  PROVE  MeetingsInv'
<1>0. MeetingsTyped /\ NextKept
  BY InvParts
<1>1. /\ work[w] = Idle /\ work' = [work EXCEPT ![w] = op]
      /\ UNCHANGED <<appt, events, connected, jobs, spent, next, place, clock, old, stale, cut>>
  BY DEF Ask, google, queue, ghosts
<1>2. op \in Work /\ op.kind \notin {"idle", "sync", "retry"} /\ op.at = "commit"
  BY DEF Work, Committing, Edits, Moving
<1>3. work'[w] = op /\ \A v \in Workers \ {w} : work'[v] = work[v]
  BY <1>0, <1>1, <1>2, WorkBecomes
<1>4. HandSound(w)'
  BY <1>1, <1>2, <1>3 DEF HandSound, CommitSound, MoveSound, PushSound, PutSound,
    SyncSound, Saw,
    Puts, Syncs, Acts
<1>5. ~Puts(w)' /\ ~Saw(w)' /\ ~Syncs(w)'
  BY <1>2, <1>3 DEF Puts, Saw, Syncs
<1>6. ASSUME NEW a \in Appts PROVE WorkHolds(a)
  <2>1. ~Pushes(w, a) /\ work'[w].at # "put" /\ \A e \in Events : ~Applies(w, a, e)
    BY <1>1, <1>2, <1>3 DEF Pushes, On, Acts, Applies, Syncs, Idle
  <2>2. NothingForgiven(w, a)
    BY <1>1, NothingIsForgiven
  <2> QED
    BY <1>1, <1>3, <2>1, <2>2, HoldsForOthers
<1>7. NextKept'
  <2>1. ~Refreshes(w)
    BY <1>1 DEF Refreshes, Idle
  <2>2. FirstUpcoming' = FirstUpcoming
    BY <1>1, FirstStays DEF Open
  <2> QED
    BY <1>0, <1>1, <1>3, <2>1, <2>2, NextStays
<1>8. /\ jobs' \subseteq Appts /\ spent' \subseteq Appts
      /\ next' \in 0 .. MaxTime /\ place' \in Places
  BY <1>0, <1>1 DEF MeetingsTyped
<1> QED
  BY <1>1, <1>2, <1>4, <1>5, <1>6, <1>7, <1>8, QuietKeeps

LEMMA RequestKeeps ==
  ASSUME MeetingsInv, NEW w \in Workers, NEW a \in Appts, NEW kind \in Edits \cup {"confirm"},
         NEW row \in Row, Ask(w, Request(kind, a, row)),
         kind = "confirm" => appt[a].status = "booked" /\ row.status = "confirmed",
         kind = "edit" => appt[a].status \in OpenStates,
         kind = "booked" \/ (kind = "edit" /\ row.time # appt[a].time) => row.time >= clock,
         kind = "cancel" => row.status = "cancelled",
         kind = "attended" => row.status = "completed",
         kind = "missed" => row.status = "no_show"
  PROVE  MeetingsInv'
<1>1. PICK op : op = Request(kind, a, row)
  OBVIOUS
<1>2. appt[a] \in Row
  BY InvParts DEF MeetingsTyped
<1>3. op \in Committing /\ op.kind = kind /\ op.saw = appt[a] /\ op.row = row
  BY <1>1, <1>2 DEF Request, Committing
<1>4. Ask(w, op)
  BY <1>1
<1> QED
  BY <1>3, <1>4, AskKeeps

-----------------------------------------------------------------------------
(* What is decided of the file, and what is still to be pushed.            *)

LEMMA PusherHolds ==
  ASSUME NEW w \in Workers, NEW a \in Appts, \A v \in Workers \ {w} : work'[v] = work[v],
         Pushes(w, a)', work'[w].at # "put", ~Puts(w), ~Syncs(w), Acts(w) => work[w].appt = a,
         UNCHANGED <<appt, jobs, spent>>, old \ {w} \subseteq old'
  PROVE  \A b \in Appts : WorkHolds(b)
<1>0. \A b \in Appts, e \in Events : ~Applies(w, b, e)
  BY DEF Applies
<1>1. \A b \in Appts : NothingForgiven(w, b)
  BY NothingIsForgiven
<1>2. WorkHolds(a)
  BY <1>0, <1>1, HoldsForPusher
<1>3. ASSUME NEW b \in Appts, b # a PROVE WorkHolds(b)
  <2>1. ~Pushes(w, b)
    BY <1>3 DEF Pushes, On
  <2> QED
    BY <1>0, <1>1, <2>1, HoldsForOthers
<1> QED
  BY <1>2, <1>3

LEMMA WantedIsAPlace ==
  ASSUME NEW kind \in Moving, NEW p \in Places
  PROVE  Wanted(kind, p) \in Places
BY DEF Wanted, Moving, Places, PlaceOf, Settled, BookedAt

LEMMA DecideMoveKeeps ==
  ASSUME MeetingsInv, NEW w \in Workers, DecideMove(w)
  PROVE  MeetingsInv'
<1>0. MeetingsTyped /\ NextKept
  BY InvParts
<1> DEFINE op == work[w]
           to == Wanted(op.kind, place)
           x == [kind |-> op.kind, appt |-> op.appt, row |-> appt[op.appt], from |-> place,
                 to |-> to, at |-> IF to = place THEN "push" ELSE "move"]
<1>1. /\ op.kind \in Moving /\ op.at = "decide" /\ work' = [work EXCEPT ![w] = x]
      /\ UNCHANGED <<appt, events, connected, jobs, spent, next, place, clock, old, stale, cut>>
  BY DEF DecideMove, Moving, google, bounds, queue, ghosts
<1>2. op \in Deciding /\ Acts(w) /\ op.kind # "retry"
  BY <1>0, <1>1, WorkOf, Shapes DEF Moving, Acts
<1>3. place \in Places /\ to \in Places /\ op.appt \in Appts /\ appt[op.appt] \in Row
  BY <1>0, <1>1, <1>2, WantedIsAPlace DEF MeetingsTyped, Deciding
<1>4. /\ x \in Decided /\ x.kind = op.kind /\ x.appt = op.appt /\ x.from = place /\ x.to = to
      /\ x.at \in {"push", "move"}
  BY <1>1, <1>3 DEF Decided, Places
<1> HIDE DEF x, to
<1>5. x \in Work
  BY <1>4 DEF Work
<1>6. work'[w] = x /\ \A v \in Workers \ {w} : work'[v] = work[v]
  BY <1>0, <1>1, <1>5, WorkBecomes
<1>7. Acts(w)' /\ ~Puts(w)' /\ ~Saw(w)' /\ ~Syncs(w)' /\ Pushes(w, op.appt)' /\ ~Puts(w) /\ ~Syncs(w)
  BY <1>1, <1>2, <1>4, <1>6 DEF Acts, Puts, Saw, Syncs, Pushes, On, Moving
<1>8. HandSound(w)'
  BY <1>3, <1>4, <1>6, <1>7 DEF HandSound, CommitSound, MoveSound, PushSound, PutSound,
     SyncSound, to, Wanted
<1>9. \A b \in Appts : WorkHolds(b)
  <2>1. PICK a \in Appts : a = op.appt
    BY <1>3
  <2>2. Pushes(w, a)'
    BY <1>4, <1>6, <1>7, <2>1 DEF Pushes, On
  <2> QED
    BY <1>1, <1>4, <1>6, <1>7, <2>1, <2>2, PusherHolds
<1>10. NextKept'
  <2>1. Refreshes(w)'
    BY <1>1, <1>4, <1>6 DEF Refreshes, Moving
  <2>2. FirstUpcoming' = FirstUpcoming
    BY <1>1, FirstStays DEF Open
  <2> QED
    BY <1>0, <1>1, <1>6, <2>1, <2>2, NextStays
<1>11. /\ jobs' \subseteq Appts /\ spent' \subseteq Appts
       /\ next' \in 0 .. MaxTime /\ place' \in Places
  BY <1>0, <1>1 DEF MeetingsTyped
<1> QED
  BY <1>1, <1>5, <1>7, <1>8, <1>9, <1>10, <1>11, QuietKeeps

(* Somebody goes on with the push of a meeting, or begins with it.         *)
LEMMA PusherGoesOn ==
  ASSUME MeetingsInv, NEW w \in Workers, NEW a \in Appts, NEW x \in Work,
         work' = [work EXCEPT ![w] = x],
         UNCHANGED <<appt, events, connected, jobs, spent, next, clock, stale, cut>>,
         old \ {w} \subseteq old', place' \in Places, x.kind \in Pushers, x.appt = a,
         x.at \in {"decide", "move", "push", "take out", "taken out", "put in"},
         ~Puts(w), ~Syncs(w), Acts(w) => work[w].appt = a,
         HandSound(w)', Saw(w)' => x.saw.event = appt[a].event, Refreshes(w) => Refreshes(w)'
  PROVE  MeetingsInv'
<1>0. MeetingsTyped /\ NextKept
  BY InvParts
<1>1. work'[w] = x /\ \A v \in Workers \ {w} : work'[v] = work[v]
  BY <1>0, WorkBecomes
<1>2. Pushes(w, a)' /\ ~Puts(w)' /\ ~Syncs(w)'
  BY <1>1 DEF Pushes, On, Acts, Puts, Syncs, Pushers, Edits, Moving
<1>3. \A b \in Appts : WorkHolds(b)
  BY <1>1, <1>2, PusherHolds
<1>4. FirstUpcoming' = FirstUpcoming
  BY FirstStays DEF Open
<1>5. NextKept'
  BY <1>0, <1>1, <1>4, NextStays
<1>6. jobs' \subseteq Appts /\ spent' \subseteq Appts /\ next' \in 0 .. MaxTime
  BY <1>0 DEF MeetingsTyped
<1> QED
  BY <1>2, <1>3, <1>5, <1>6, QuietKeeps

LEMMA MoveFileKeeps ==
  ASSUME MeetingsInv, NEW w \in Workers, MoveFile(w)
  PROVE  MeetingsInv'
<1>0. MeetingsTyped
  BY InvParts
<1>1. PICK op \in Work : op = work[w]
  BY <1>0, WorkOf
<1>2. /\ op.kind # "idle" /\ op.at = "move" /\ place' = op.to
      /\ work' = [work EXCEPT ![w] = [op EXCEPT !.at = "push", !.from = 0, !.to = 0]]
      /\ UNCHANGED <<appt, events, connected, jobs, spent, next, clock, old, stale, cut>>
  BY <1>0, <1>1 DEF MoveFile, google, bounds, queue, ghosts, MeetingsTyped
<1>3. op.kind # "sync"
  BY <1>2, Shapes DEF Listing, Applying
<1>4. op \in Decided /\ op.at # "put" /\ op.kind \in Moving
  BY <1>2, <1>3, Shapes DEF Decided
<1>5. PICK x : x = [op EXCEPT !.at = "push", !.from = 0, !.to = 0]
  OBVIOUS
<1>6. x \in Decided /\ x.kind = op.kind /\ x.appt = op.appt /\ x.at = "push"
  <2>1. /\ op.kind \in Moving /\ op.appt \in Appts /\ op.row \in Row
        /\ op = [kind |-> op.kind, at |-> op.at, appt |-> op.appt, row |-> op.row,
                 from |-> op.from, to |-> op.to]
    BY <1>4 DEF Decided
  <2>2. x = [kind |-> op.kind, at |-> "push", appt |-> op.appt, row |-> op.row,
             from |-> 0, to |-> 0]
    BY <1>5, <2>1
  <2> QED
    BY <2>1, <2>2 DEF Decided
<1>7. x \in Work /\ op.appt \in Appts /\ x.kind \in Pushers
  BY <1>4, <1>6 DEF Work, Decided, Pushers, Edits
<1>8. work' = [work EXCEPT ![w] = x]
  BY <1>2, <1>5
<1>9. work'[w] = x
  BY <1>0, <1>7, <1>8, WorkBecomes
<1>10. HandSound(w)' /\ ~Saw(w)'
  BY <1>6, <1>7, <1>9 DEF HandSound, CommitSound, MoveSound, PushSound, PutSound,
    SyncSound, Saw,
    Puts, Syncs, Acts, Pushers, Edits, Moving
<1>11. place' \in Places
  <2>1. MoveSound(w)
    BY InvParts DEF HandSound
  <2> QED
    BY <1>1, <1>2, <1>3, <1>4, <2>1, WantedIsAPlace DEF MoveSound, Acts
<1>12. ~Puts(w) /\ ~Syncs(w) /\ work[w].appt = op.appt /\ Refreshes(w)'
  BY <1>1, <1>2, <1>3, <1>4, <1>6, <1>9 DEF Puts, Syncs, Refreshes, Moving
<1> QED
  BY <1>2, <1>6, <1>7, <1>8, <1>10, <1>11, <1>12, PusherGoesOn

LEMMA RunPushJobKeeps ==
  ASSUME MeetingsInv, NEW w \in Workers, NEW a \in Appts, RunPushJob(w, a) \/ AskRetry(w, a)
  PROVE  MeetingsInv'
<1>0. MeetingsTyped
  BY InvParts
<1>1. PICK kind \in {"retry", "hand"} :
        /\ work[w] = Idle
        /\ work' = [work EXCEPT ![w] = [kind |-> kind, appt |-> a, at |-> "push"]]
        /\ UNCHANGED <<appt, events, connected, jobs, spent, next, place, clock, old, stale, cut>>
  BY DEF RunPushJob, AskRetry, Ask, google, bounds, queue, ghosts
<1>9. PICK x : x = [kind |-> kind, appt |-> a, at |-> "push"]
  OBVIOUS
<1>2. x \in Work /\ x.kind = kind /\ x.appt = a /\ x.at = "push"
  BY <1>9 DEF Work, Starting, Pushers
<1>3. work[w] = Idle /\ work' = [work EXCEPT ![w] = x]
  BY <1>1, <1>9
<1>4. work'[w] = x
  BY <1>0, <1>2, <1>3, WorkBecomes
<1>5. HandSound(w)' /\ ~Saw(w)'
  BY <1>2, <1>4 DEF HandSound, CommitSound, MoveSound, PushSound, PutSound, SyncSound,
    Saw,
    Puts, Syncs, Acts
<1>6. ~Puts(w) /\ ~Syncs(w) /\ ~Acts(w) /\ ~Refreshes(w)
  BY <1>3 DEF Puts, Syncs, Acts, Refreshes, Idle
<1>7. place' \in Places
  BY <1>0, <1>1 DEF MeetingsTyped
<1> QED
  BY <1>1, <1>2, <1>3, <1>5, <1>6, <1>7, PusherGoesOn DEF Pushers

LEMMA StaffAsksKeeps ==
  ASSUME MeetingsInv, AppointmentsAssumption, NEW w \in Workers, NEW a \in Appts, StaffAsks(w, a)
  PROVE  MeetingsInv'
<1>0. appt[a] \in Row
  BY InvParts DEF MeetingsTyped
<1>1. ASSUME NEW h \in Hosts \cup {None}, NEW t \in Times, NEW kind \in {"booked", "edit"},
             Ask(w, Request(kind, a, Set(a, h, t))), t >= clock,
             kind = "edit" => appt[a].status \in OpenStates
      PROVE  MeetingsInv'
  <2>1. PICK row : row = Set(a, h, t)
    OBVIOUS
  <2>2. row \in Row /\ row.time = t
    BY <1>0, <2>1 DEF Set, Row, Status
  <2>3. Ask(w, Request(kind, a, row)) /\ kind \in Edits \cup {"confirm"}
    BY <1>1, <2>1 DEF Edits, Moving
  <2> QED
    BY <1>1, <2>2, <2>3, RequestKeeps
<1>2. ASSUME NEW status \in Status, NEW kind \in Edits \cup {"confirm"},
             Ask(w, Request(kind, a, [appt[a] EXCEPT !.status = status])),
             kind \notin {"booked", "edit"},
             kind = "confirm" => appt[a].status = "booked" /\ status = "confirmed",
             kind = "cancel" => status = "cancelled",
             kind = "attended" => status = "completed", kind = "missed" => status = "no_show"
      PROVE  MeetingsInv'
  <2>1. PICK row : row = [appt[a] EXCEPT !.status = status]
    OBVIOUS
  <2>2. row \in Row /\ row.status = status
    BY <1>0, <2>1 DEF Row
  <2>3. Ask(w, Request(kind, a, row))
    BY <1>2, <2>1
  <2> QED
    BY <1>2, <2>2, <2>3, RequestKeeps
<1>3. ASSUME NEW h \in Hosts, NEW t \in Times, AskBook(w, a, h, t) PROVE MeetingsInv'
  BY <1>1, <1>3 DEF AskBook
<1>4. ASSUME NEW t \in Times, AskReschedule(w, a, t) PROVE MeetingsInv'
  <2>1. appt[a].host \in Hosts \cup {None}
    BY <1>0 DEF Row
  <2> QED
    BY <1>1, <1>4, <2>1 DEF AskReschedule, Open, OpenStates
<1>5. ASSUME NEW h \in Hosts, AskChangeHost(w, a, h) PROVE MeetingsInv'
  <2>1. PICK row : row = [appt[a] EXCEPT !.host = h]
    OBVIOUS
  <2>2. row \in Row /\ row.time = appt[a].time
    BY <1>0, <2>1 DEF Row
  <2>3. Ask(w, Request("edit", a, row)) /\ appt[a].status \in OpenStates
    BY <1>5, <2>1 DEF AskChangeHost, Open, OpenStates
  <2>4. "edit" \in Edits
    BY DEF Edits
  <2> QED
    BY <2>2, <2>3, <2>4, RequestKeeps
<1>6. CASE AskCancel(w, a)
  BY <1>2, <1>6 DEF AskCancel, Status, Edits
<1>7. CASE AskConfirm(w, a)
  BY <1>2, <1>7 DEF AskConfirm, Status
<1>8. ASSUME NEW outcome \in DOMAIN PlaceOf, AskOutcome(w, a, outcome) PROVE MeetingsInv'
  <2>1. outcome \in {"attended", "missed"}
    BY DEF PlaceOf
  <2>2. CASE outcome = "attended"
    <3>1. Ask(w, Request("attended", a, [appt[a] EXCEPT !.status = "completed"]))
      BY <1>8, <2>2 DEF AskOutcome
    <3> QED
      BY <1>2, <3>1 DEF Status, Edits, Moving
  <2>3. CASE outcome = "missed"
    <3>1. Ask(w, Request("missed", a, [appt[a] EXCEPT !.status = "no_show"]))
      BY <1>8, <2>3 DEF AskOutcome
    <3> QED
      BY <1>2, <3>1 DEF Status, Edits, Moving
  <2> QED
    BY <2>1, <2>2, <2>3
<1>9. CASE AskRetry(w, a)
  BY <1>9, RunPushJobKeeps
<1> QED
  BY <1>3, <1>4, <1>5, <1>6, <1>7, <1>8, <1>9 DEF StaffAsks

-----------------------------------------------------------------------------
(* The next meeting.                                                       *)

LEMMA MinIsLeast ==
  ASSUME NEW S \in SUBSET Nat, IsFiniteSet(S), S # {}
  PROVE  Min(S) \in S /\ \A s \in S : Min(S) <= s
<1> DEFINE T == {{s \in S : s <= x} : x \in S}
<1>1. IsWellFoundedOn(StrictSubsetOrdering(S), SUBSET S)
  BY FS_StrictSubsetOrderingWellFounded, FS_FiniteSubsetsOfFinite, Zenon
<1>2. T \subseteq SUBSET S /\ T # {}
  OBVIOUS
<1>3. PICK B \in T : \A C \in T : <<C, B>> \notin StrictSubsetOrdering(S)
  <2> HIDE DEF T
  <2> QED
  BY <1>1, <1>2, WFMin, Zenon
<1>4. \A C \in T : ~(C \subseteq B /\ C # B)
  BY <1>2, <1>3 DEF StrictSubsetOrdering
<1>5. PICK m \in S : B = {s \in S : s <= m}
  OBVIOUS
<1>6. ASSUME NEW s \in S, ~(m <= s) PROVE FALSE
  <2>0. S \subseteq Nat /\ s < m
    BY <1>6
  <2>1. {r \in S : r <= s} \in T
    OBVIOUS
  <2>2. ASSUME NEW r \in S, r <= s PROVE r \in B
    <3>1. r \in Nat /\ s \in Nat /\ m \in Nat
      BY <2>0
    <3> QED
      BY <1>5, <2>0, <2>2, <3>1
  <2>3. m \in B /\ m \notin {r \in S : r <= s}
    BY <1>5, <2>0
  <2> QED
    BY <1>4, <2>1, <2>2, <2>3
<1>7. m \in S /\ \A s \in S : m <= s
  BY <1>6
<1> QED
  BY <1>7 DEF Min

LEMMA FirstIsATime ==
  ASSUME MeetingsTyped, AppointmentsAssumption
  PROVE  FirstUpcoming \in 0 .. MaxTime
<1>1. Upcoming \subseteq Times /\ Times \subseteq Nat /\ MaxTime \in Nat
  BY DEF MeetingsTyped, Upcoming, Row, Times, AppointmentsAssumption
<1>2. IsFiniteSet(Upcoming)
  <2>1. 1 \in Int /\ MaxTime \in Int
    BY <1>1
  <2>2. IsFiniteSet(Times)
    BY <2>1, FS_Interval DEF Times
  <2> QED
    BY <1>1, <2>2, FS_Subset
<1>3. CASE Upcoming = {}
  BY <1>1, <1>3 DEF FirstUpcoming
<1>4. CASE Upcoming # {}
  <2>1. Min(Upcoming) \in Upcoming
    BY <1>1, <1>2, <1>4, MinIsLeast
  <2>2. FirstUpcoming \in Times
    BY <1>1, <1>4, <2>1 DEF FirstUpcoming
  <2> QED
    BY <1>1, <2>2 DEF Times
<1> QED
  BY <1>3, <1>4

LEMMA RefreshKeeps ==
  ASSUME MeetingsInv, AppointmentsAssumption, NEW w \in Workers, Refresh(w)
  PROVE  MeetingsInv'
<1>0. MeetingsTyped
  BY InvParts
<1>1. PICK op \in Work : op = work[w]
  BY <1>0, WorkOf
<1>2. PICK x : x = IF op.kind = "sync" THEN [kind |-> "sync", at |-> "list", host |-> op.host,
                                            todo |-> op.todo, listed |-> op.listed] ELSE Idle
  OBVIOUS
<1>3. /\ op.kind # "idle" /\ op.at = "refresh" /\ next' = FirstUpcoming
      /\ work' = [work EXCEPT ![w] = x]
      /\ UNCHANGED <<appt, events, connected, jobs, spent, place, clock, old, stale, cut>>
  BY <1>0, <1>1, <1>2 DEF Refresh, RefreshNext, google, bounds, queue, ghosts, MeetingsTyped
<1>4. op.kind = "sync" => op \in Applying /\ x \in Listing
  <2> SUFFICES ASSUME op.kind = "sync" PROVE op \in Applying /\ x \in Listing
    OBVIOUS
  <2>1. op \in Applying
    BY <1>3, Shapes
  <2> QED
    BY <1>2, <2>1 DEF Applying, Listing
<1>5. x \in Work /\ x.kind \in {"sync", "idle"}
  BY <1>2, <1>4 DEF Work, Idle
<1>6. work'[w] = x /\ \A v \in Workers \ {w} : work'[v] = work[v]
  BY <1>0, <1>3, <1>5, WorkBecomes
<1>7. ~Acts(w)' /\ ~Puts(w)' /\ ~Saw(w)'
  BY <1>5, <1>6 DEF Acts, Puts, Saw
<1>8. Syncs(w)' => Syncs(w) /\ x.listed = work[w].listed /\ x.todo = work[w].todo
                   /\ x.host = op.host /\ x.at = "list"
  BY <1>1, <1>2, <1>6 DEF Syncs, Idle
<1>9. HandSound(w)'
  <2>1. SyncSound(w)
    BY InvParts DEF HandSound
  <2>2. SyncSound(w)'
    BY <1>1, <1>3, <1>6, <1>8, <2>1 DEF SyncSound, Live
  <2> QED
    BY <1>7, <2>2 DEF HandSound, CommitSound, MoveSound, PushSound, PutSound
<1>10. ASSUME NEW a \in Appts PROVE WorkHolds(a)
  <2>1. ~Pushes(w, a) /\ \A e \in Events : ~Applies(w, a, e)
    BY <1>1, <1>3 DEF Pushes, Applies
  <2>2. work'[w].kind = "idle" \/ work'[w].at # "put"
    BY <1>2, <1>6 DEF Idle
  <2>3. NothingForgiven(w, a)
    BY <1>3, NothingIsForgiven
  <2> QED
    BY <1>3, <1>6, <2>1, <2>2, <2>3, HoldsForOthers
<1>11. NextKept'
  <2>1. FirstUpcoming' = FirstUpcoming
    BY <1>3, FirstStays DEF Open
  <2> QED
    BY <1>3, <2>1 DEF NextKept
<1>12. /\ jobs' \subseteq Appts /\ spent' \subseteq Appts
       /\ next' \in 0 .. MaxTime /\ place' \in Places
  BY <1>0, <1>3, FirstIsATime DEF MeetingsTyped
<1> QED
  BY <1>3, <1>5, <1>7, <1>8, <1>9, <1>10, <1>11, <1>12, QuietKeeps

-----------------------------------------------------------------------------
(* A push.                                                                 *)

LEMMA AtWork ==
  ASSUME MeetingsTyped, NEW w \in Workers, NEW at,
         at \in {"push", "take out", "taken out", "put in", "put"}, Pushing(w, at)
  PROVE  /\ work[w] \in Work /\ Acts(w) /\ work[w].at = at /\ work[w].kind \in Pushers
         /\ work[w].appt \in Appts /\ ~Syncs(w) /\ Pushes(w, work[w].appt)
         /\ at = "push" => work[w] \in Starting \cup Decided
         /\ at \in {"take out", "taken out", "put in"} => work[w] \in Sending
         /\ at = "put" => work[w] \in Putting
<1>1. PICK op \in Work : op = work[w]
  BY WorkOf
<1>2. op.kind \notin {"idle", "sync"} /\ op.at = at
  BY <1>1 DEF Pushing
<1>3. /\ op.appt \in Appts /\ (at = "push" => op \in Starting \cup Decided)
      /\ (at \in {"take out", "taken out", "put in"} => op \in Sending)
      /\ (at = "put" => op \in Putting)
  BY <1>2, Shapes
<1>4. op.kind \in Pushers
  BY <1>3 DEF Starting, Decided, Sending, Putting, Pushers, Edits
<1> QED
  BY <1>1, <1>2, <1>3, <1>4 DEF Acts, Syncs, Pushes, On

LEMMA AfterIsWork ==
  ASSUME NEW op, op.kind \in Pushers, op.appt \in Appts
  PROVE  /\ After(op) \in Work /\ After(op).kind # "sync"
         /\ op.kind \in {"retry", "hand"} => After(op) = Idle
         /\ op.kind \notin {"retry", "hand"} =>
              /\ After(op).kind = op.kind /\ After(op).appt = op.appt
              /\ After(op).at = "refresh"
<1>1. CASE op.kind \in {"retry", "hand"}
  BY <1>1 DEF After, Work, Idle
<1>2. CASE op.kind \notin {"retry", "hand"}
  BY <1>2 DEF After, Work, Refreshing, Pushers, Edits, Moving
<1> QED
  BY <1>1, <1>2

(* Who leaves is at nothing that matters to another meeting.               *)
LEMMA WhoLeaves ==
  ASSUME MeetingsTyped, NEW w \in Workers, NEW a \in Appts, Acts(w), work[w].appt = a,
         work[w].kind \in Pushers, work[w].at # "commit",
         work' = [work EXCEPT ![w] = After(work[w])],
         \A b \in Appts \ {a} : NothingForgiven(w, b)
  PROVE  /\ work'[w] = After(work[w]) /\ \A v \in Workers \ {w} : work'[v] = work[v]
         /\ HandSound(w)' /\ ~Puts(w)' /\ ~Saw(w)' /\ ~Syncs(w)' /\ ~Pushes(w, a)'
         /\ Refreshes(w) => Refreshes(w)'
         /\ \A b \in Appts \ {a} : WorkHolds(b)
<1>1. PICK op : op = work[w]
  OBVIOUS
<1>2. PICK x \in Work :
        /\ x = After(work[w]) /\ x.kind # "sync"
        /\ x.kind = "idle" \/ (x.at = "refresh" /\ x.kind = op.kind)
        /\ op.kind \in {"retry", "hand"} => x.kind = "idle"
        /\ op.kind \notin {"retry", "hand"} => x.kind = op.kind /\ x.at = "refresh"
  BY <1>1, AfterIsWork DEF Idle
<1>3. work'[w] = x /\ \A v \in Workers \ {w} : work'[v] = work[v]
  BY <1>2, WorkBecomes
<1>4. ~Puts(w)' /\ ~Saw(w)' /\ ~Syncs(w)' /\ ~Pushes(w, a)'
  BY <1>2, <1>3 DEF Puts, Saw, Syncs, Acts, Pushes, On
<1>5. HandSound(w)'
  BY <1>2, <1>3, <1>4 DEF HandSound, CommitSound, MoveSound, PushSound, PutSound,
    SyncSound, Acts
<1>6. Refreshes(w) => Refreshes(w)'
  BY <1>1, <1>2, <1>3 DEF Refreshes
<1>7. ASSUME NEW b \in Appts \ {a} PROVE WorkHolds(b)
  <2>1. ~Pushes(w, b) /\ \A e \in Events : ~Applies(w, b, e)
    BY DEF Pushes, On, Applies, Syncs, Acts
  <2>2. work'[w].kind = "idle" \/ work'[w].at # "put"
    BY <1>2, <1>3
  <2> QED
    BY <1>3, <2>1, <2>2, HoldsForOthers
<1> QED
  BY <1>2, <1>3, <1>4, <1>5, <1>6, <1>7

LEMMA ReadTargetKeeps ==
  ASSUME MeetingsInv, NEW w \in Workers, ReadTarget(w)
  PROVE  MeetingsInv'
<1>0. MeetingsTyped /\ NextKept
  BY InvParts
<1>1. PICK op \in Work : op = work[w] 
  BY <1>0, WorkOf
<1>2. /\ Acts(w) /\ op.at = "push" /\ op.kind \in Pushers /\ op.appt \in Appts /\ ~Syncs(w)
      /\ op \in Starting \cup Decided
  BY <1>0, <1>1, AtWork DEF ReadTarget
<1>3. PICK a \in Appts : a = op.appt
  BY <1>2
<1>4. PICK row : row = IF "row" \in DOMAIN op THEN [appt[a] EXCEPT !.time = op.row.time] ELSE appt[a]
  OBVIOUS
<1>5. appt[a] \in Row /\ MeetingSound(a)
  BY <1>0, InvParts DEF MeetingsTyped
<1>6. /\ row \in Row /\ row.event = appt[a].event /\ row.owner = appt[a].owner
      /\ row.host = appt[a].host /\ row.status = appt[a].status
  <2>1. CASE op \in Starting
    <3>1. "row" \notin DOMAIN op
      BY <2>1 DEF Starting
    <3> QED
      BY <1>4, <1>5, <3>1
  <2>2. CASE op \in Decided
    <3>1. op.row.time \in Times
      BY <2>2 DEF Decided, Row
    <3> QED
      BY <1>4, <1>5, <3>1 DEF Row
  <2> QED
    BY <1>2, <2>1, <2>2
<1>7. UNCHANGED <<appt, events, connected, next, place, clock, stale, cut>> /\ old \subseteq old'
  BY DEF ReadTarget, google, bounds
<1>8. IF MustTakeOut(row) \/ MustPutIn(row)
        THEN /\ work' = [work EXCEPT ![w] = [kind |-> op.kind, appt |-> a, saw |-> row,
                           at |-> IF MustTakeOut(row) THEN "take out" ELSE "put in"]]
             /\ UNCHANGED <<jobs, spent>>
        ELSE Leave(w)
  <2>1. PICK r2 : r2 = (LET now == appt[work[w].appt] IN
          IF "row" \in DOMAIN work[w] THEN [now EXCEPT !.time = work[w].row.time] ELSE now)
    OBVIOUS
  <2>2. r2 = row
    BY <1>1, <1>3, <1>4, <2>1
  <2>3. IF MustTakeOut(r2) \/ MustPutIn(r2)
        THEN /\ work' = [work EXCEPT ![w] = [kind |-> @.kind, appt |-> @.appt, saw |-> r2,
                           at |-> IF MustTakeOut(r2) THEN "take out" ELSE "put in"]]
             /\ UNCHANGED <<jobs, spent>>
        ELSE Leave(w)
    BY <2>1 DEF ReadTarget, queue
  <2>4. [work EXCEPT ![w] = [kind |-> @.kind, appt |-> @.appt, saw |-> row,
                           at |-> IF MustTakeOut(row) THEN "take out" ELSE "put in"]]
        = [work EXCEPT ![w] = [kind |-> op.kind, appt |-> a, saw |-> row,
                           at |-> IF MustTakeOut(row) THEN "take out" ELSE "put in"]]
    BY <1>0, <1>1, <1>3 DEF MeetingsTyped
  <2> QED
    BY <2>2, <2>3, <2>4
<1>9. CASE MustTakeOut(row) \/ MustPutIn(row)
  <2>1. PICK x : x = [kind |-> op.kind, appt |-> a, saw |-> row,
                      at |-> IF MustTakeOut(row) THEN "take out" ELSE "put in"]
    OBVIOUS
  <2>2. x \in Sending /\ x.kind = op.kind /\ x.appt = a /\ x.saw = row
        /\ x.at = IF MustTakeOut(row) THEN "take out" ELSE "put in"
    BY <1>2, <1>6, <2>1 DEF Sending
  <2>3. x \in Work /\ work' = [work EXCEPT ![w] = x]
    BY <1>8, <1>9, <2>1, <2>2 DEF Work
  <2>4. work'[w] = x
    BY <1>0, <2>3, WorkBecomes
  <2>5. PushSound(w)'
    <3>1. MustTakeOut(row) => row.event # None
      BY DEF MustTakeOut
    <3>2. ~MustTakeOut(row) => /\ row.status \in OpenStates /\ row.host \in connected
                               /\ row.event # None => row.owner = row.host
      BY <1>9 DEF MustTakeOut, MustPutIn, OpenStates
    <3>3. row.event # None => Known(row.event, a)
      BY <1>5, <1>6 DEF MeetingSound, EventKnown
    <3>4. Fine(a) /\ row.event # None => events[row.event].owner = row.owner
                                         /\ row.owner \in connected
      BY <1>5, <1>6 DEF MeetingSound, CalendarSound, OwnerKept
    <3>5. connected \subseteq Hosts
      BY <1>0 DEF MeetingsTyped
    <3> QED
      BY <1>7, <2>2, <2>4, <3>1, <3>2, <3>3, <3>4, <3>5 DEF PushSound, Known, Fine
  <2>6. HandSound(w)' /\ ~Puts(w)
    BY <1>1, <1>2, <2>2, <2>4, <2>5 DEF HandSound, CommitSound, MoveSound, PutSound,
      SyncSound, Puts, Syncs,
       Pushers, Edits, Moving
  <2>7. Refreshes(w) => Refreshes(w)'
    BY <1>1, <2>2, <2>4 DEF Refreshes
  <2>8. place' \in Places /\ UNCHANGED <<jobs, spent>> /\ old \ {w} \subseteq old'
    BY <1>0, <1>7, <1>8, <1>9 DEF MeetingsTyped
  <2>9. x.at \in {"take out", "put in"}
    BY <2>2
  <2> QED
    BY <1>1, <1>2, <1>3, <1>6, <1>7, <2>2, <2>3, <2>6, <2>7, <2>8, <2>9, PusherGoesOn
<1>10. CASE ~(MustTakeOut(row) \/ MustPutIn(row))
  <2>1. /\ work' = [work EXCEPT ![w] = After(op)]
        /\ jobs' = (IF op.kind = "retry" THEN jobs \ {a} ELSE jobs) /\ UNCHANGED spent
    BY <1>1, <1>3, <1>8, <1>10 DEF Leave, EndJob
  <2>2. /\ jobs' \subseteq Appts /\ spent' \subseteq Appts
        /\ \A b \in Appts \ {a} : NothingForgiven(w, b)
    BY <1>0, <1>7, <2>1 DEF MeetingsTyped, NothingForgiven
  <2>3. /\ \A v \in Workers \ {w} : work'[v] = work[v]
        /\ HandSound(w)' /\ ~Puts(w)' /\ ~Saw(w)' /\ ~Syncs(w)'
        /\ Refreshes(w) => Refreshes(w)'
        /\ \A b \in Appts \ {a} : WorkHolds(b)
    BY <1>0, <1>1, <1>2, <1>3, <2>1, <2>2, WhoLeaves
  <2>4. MeetingSound(a)'
    <3>1. appt[a].event = None
      BY <1>6, <1>10 DEF MustTakeOut, MustPutIn
    <3>2. ~MustTakeOut(appt[a]) /\ ~MustPutIn(appt[a])
      BY <1>6, <1>10 DEF MustTakeOut, MustPutIn
    <3>3. ~MustTakeOut(appt[a])' /\ ~MustPutIn(appt[a])'
      BY <1>7, <3>2 DEF MustTakeOut, MustPutIn
    <3>4. ASSUME Fine(a)' PROVE OneLive(a)'
      <4>1. OneLive(a)
        BY <1>5, <1>7, <3>4 DEF MeetingSound, CalendarSound, Fine
      <4>2. \A v \in Workers, e \in Events : On(v, a) /\ PutsIt(v, e) => v # w /\ On(v, a)' /\ PutsIt(v, e)'
        BY <1>1, <1>2, <2>3 DEF On, PutsIt, Acts
      <4> QED
        BY <1>7, <4>1, <4>2 DEF OneLive, Live
    <3>5. Open(a)' => appt'[a].host \notin connected'
      BY <3>3 DEF MustPutIn, Open
    <3> QED
      BY <1>7, <3>1, <3>3, <3>4, <3>5 DEF MeetingSound, EventKnown, CalendarSound, OwnerKept,
        ErrorOwed,
        LiveOpen, HostOwns, TimeAgrees
  <2>5. \A b \in Appts : WorkHolds(b) \/ MeetingSound(b)'
    BY <2>3, <2>4
  <2>6. NextKept'
    <3>1. FirstUpcoming' = FirstUpcoming
      BY <1>7, FirstStays DEF Open
    <3> QED
      BY <1>0, <1>7, <2>3, <3>1, NextStays
  <2>7. next' \in 0 .. MaxTime /\ place' \in Places
    BY <1>0, <1>7 DEF MeetingsTyped
  <2>8. After(op) \in Work
    BY <1>2, AfterIsWork
  <2> QED
    BY <1>7, <2>1, <2>2, <2>3, <2>5, <2>6, <2>7, <2>8, QuietKeeps
<1> QED
  BY <1>9, <1>10

(* A new event stays nobody else's.                                        *)
LEMMA NewStays ==
  ASSUME NEW v \in Workers, NEW w \in Workers, v # w, NewAlone(v),
         \A u \in Workers \ {w} : work'[u] = work[u],
         New(v) => LET e == work[v].event IN
           /\ \A a \in Appts : appt'[a].event # e
           /\ (Saw(w)' => work'[w].saw.event # e) /\ (Puts(w)' => work'[w].event # e)
           /\ events'[e] = events[e] \/ events'[e].dirty = "new"
           /\ Syncs(w)' /\ e \in DOMAIN work'[w].listed =>
                Syncs(w) /\ e \in DOMAIN work[w].listed /\ (e \in work[w].todo => e \in work'[w].todo)
  PROVE  NewAlone(v)'
<1> SUFFICES ASSUME New(v)' PROVE NewAlone(v)'
  BY DEF NewAlone
<1>1. work'[v] = work[v] /\ New(v)
  BY DEF New, Puts, Acts
<1>e. PICK e : e = work[v].event
  OBVIOUS
<1>2. /\ \A a \in Appts : appt'[a].event # e
      /\ (Saw(w)' => work'[w].saw.event # e) /\ (Puts(w)' => work'[w].event # e)
      /\ events'[e] = events[e] \/ events'[e].dirty = "new"
      /\ Syncs(w)' /\ e \in DOMAIN work'[w].listed =>
           Syncs(w) /\ e \in DOMAIN work[w].listed /\ (e \in work[w].todo => e \in work'[w].todo)
  BY <1>1, <1>e
<1>3. /\ \A u \in Workers \ {v} : (Saw(u) => work[u].saw.event # e) /\ (Puts(u) => work[u].event # e)
      /\ events[e].dirty # "no"
      /\ \A u \in Workers : Syncs(u) /\ e \in DOMAIN work[u].listed /\ events[e].dirty = "listed" =>
           e \in work[u].todo
  BY <1>1, <1>e DEF NewAlone
<1>4. \A u \in Workers \ {v} : (Saw(u)' => work'[u].saw.event # e) /\ (Puts(u)' => work'[u].event # e)
  BY <1>2, <1>3 DEF Saw, Puts, Acts
<1>5. events'[e].dirty # "no" /\ (events'[e].dirty = "listed" => events[e].dirty = "listed")
  BY <1>2, <1>3
<1>6. \A u \in Workers :
        Syncs(u)' /\ e \in DOMAIN work'[u].listed /\ events'[e].dirty = "listed" => e \in work'[u].todo
  <2>1. ASSUME NEW u \in Workers \ {w} PROVE Syncs(u)' => Syncs(u) /\ work'[u] = work[u]
    BY DEF Syncs
  <2> QED
    BY <1>2, <1>3, <1>5, <2>1
<1>7. work'[v].event = e
  BY <1>1, <1>e
<1> QED
  BY <1>2, <1>4, <1>5, <1>6, <1>7 DEF NewAlone

(* What a meeting is judged by is left alone.                              *)
LeftAlone(a) ==
  /\ SameMeeting(a) /\ (Fine(a)' => Fine(a)) /\ WorkHolds(a)
  /\ \A e \in Events : Live(e)' /\ events'[e].of = a => Live(e)
  /\ \A e \in Events : e = appt[a].event /\ Told(e)' => ToldAlready(e)

LEMMA StepKeeps ==
  ASSUME MeetingsInv, NEW w \in Workers, NEW x \in Work, work' = [work EXCEPT ![w] = x],
         appt' \in [Appts -> Row], events' \in [Events -> Event \cup {None}],
         connected' = connected, clock' = clock, jobs' \subseteq Appts, spent' \subseteq Appts,
         next' \in 0 .. MaxTime, place' \in Places, stale \subseteq stale', cut \subseteq cut',
         EventsKeep, HandSound(w)', Syncs(w)' => Syncs(w), \A v \in Workers : NewAlone(v)',
         \A a \in Appts : LeftAlone(a) \/ MeetingSound(a)', NextKept', Announced'
  PROVE  MeetingsInv'
<1>0. MeetingsTyped /\ OneSync
  BY InvParts
<1>1. work' \in [Workers -> Work] /\ \A v \in Workers \ {w} : work'[v] = work[v]
  BY <1>0, WorkBecomes
<1>2. MeetingsTyped'
  BY <1>0, <1>1 DEF MeetingsTyped
<1>3. OneSync'
  BY <1>0, <1>1 DEF OneSync, Syncs
<1>4. \A v \in Workers : HandSound(v)'
  BY <1>0, <1>1, HandStays, InvParts DEF EventsKeep
<1>5. \A a \in Appts : MeetingSound(a)'
  BY <1>0, MeetingStays, InvParts DEF LeftAlone, EventsKeep
<1> QED
  BY <1>2, <1>3, <1>4, <1>5 DEF MeetingsInv

(* The fields that the reminders go by.                                    *)
LEMMA AnnouncedStill ==
  ASSUME Announced, clock' = clock, stale \subseteq stale',
         \A a \in Appts : /\ appt'[a].status = appt[a].status /\ appt'[a].time = appt[a].time
                          /\ appt'[a].setAt = appt[a].setAt /\ appt'[a].reminded = appt[a].reminded
  PROVE  Announced' /\ FirstUpcoming' = FirstUpcoming
BY FirstStays DEF Announced, Open

LEMMA TakeOutKeeps ==
  ASSUME MeetingsInv, AppointmentsAssumption, NEW w \in Workers, TakeOut(w)
  PROVE  MeetingsInv'
<1>0. MeetingsTyped /\ NextKept /\ Announced
  BY InvParts
<1>1. PICK op \in Work : op = work[w]
  BY <1>0, WorkOf
<1>2. /\ Acts(w) /\ op.at = "take out" /\ op.kind \in Pushers /\ ~Syncs(w) /\ op \in Sending
  BY <1>0, <1>1, AtWork DEF TakeOut
<1>3. PICK a \in Appts, saw \in Row : a = op.appt /\ saw = op.saw
  BY <1>2 DEF Sending
<1>4. PICK x : x = [op EXCEPT !.at = "taken out"]
  OBVIOUS
<1>5. /\ x \in Sending /\ x.kind = op.kind /\ x.appt = a /\ x.saw = saw /\ x.at = "taken out"
  <2>1. op = [kind |-> op.kind, at |-> op.at, appt |-> op.appt, saw |-> op.saw]
    BY <1>2 DEF Sending
  <2>2. x = [kind |-> op.kind, at |-> "taken out", appt |-> op.appt, saw |-> op.saw]
    BY <1>4, <2>1
  <2> QED
    BY <1>2, <1>3, <2>2 DEF Sending
<1>6. /\ work' = [work EXCEPT ![w] = x]
      /\ events' = IF saw.owner \in connected
                     THEN [events EXCEPT ![saw.event].live = FALSE, ![saw.event].dirty = "new"]
                     ELSE events
      /\ UNCHANGED <<appt, connected, jobs, spent, next, place, clock, old, stale, cut>>
  BY <1>0, <1>1, <1>3, <1>4 DEF TakeOut, bounds, queue, ghosts, MeetingsTyped
<1>7. x \in Work
  BY <1>5 DEF Work
<1>8. work'[w] = x /\ \A v \in Workers \ {w} : work'[v] = work[v]
  BY <1>0, <1>6, <1>7, WorkBecomes
<1>9. /\ saw.event \in Events /\ Known(saw.event, a) /\ events[saw.event] \in Event
      /\ Fine(a) => events[saw.event].owner = saw.owner /\ saw.owner \in connected
  <2>1. PushSound(w) /\ Saw(w)
    BY <1>1, <1>2, InvParts DEF HandSound, Saw
  <2>2. /\ saw.event # None /\ Known(saw.event, a)
        /\ Fine(a) => events[saw.event].owner = saw.owner /\ saw.owner \in connected
    BY <1>1, <1>2, <1>3, <2>1 DEF PushSound
  <2>3. saw.event \in Events
    BY <2>2 DEF Row
  <2> QED
    BY <1>0, <2>2, <2>3 DEF MeetingsTyped, Known
<1>e. PICK e \in Events : e = saw.event
  BY <1>9
<1>10. /\ events' \in [Events -> Event \cup {None}] /\ \A y \in Events \ {e} : events'[y] = events[y]
       /\ saw.owner \notin connected => events' = events
       /\ saw.owner \in connected => /\ events'[e] \in Event /\ events'[e].of = events[e].of
                                     /\ events'[e].owner = events[e].owner /\ ~events'[e].live
                                     /\ events'[e].dirty = "new"
  <2>1. CASE saw.owner \notin connected
    BY <1>0, <1>6, <2>1 DEF MeetingsTyped
  <2>2. CASE saw.owner \in connected
    <3>1. PICK y : y = [events[e] EXCEPT !.live = FALSE, !.dirty = "new"]
      OBVIOUS
    <3>2. /\ y \in Event /\ y.of = events[e].of /\ y.owner = events[e].owner /\ ~y.live
          /\ y.dirty = "new"
      BY <1>9, <1>e, <3>1 DEF Event
    <3>3. events' = [events EXCEPT ![e] = y]
      BY <1>0, <1>6, <1>e, <2>2, <3>1 DEF MeetingsTyped
    <3> QED
      BY <1>0, <2>2, <3>2, <3>3 DEF MeetingsTyped
  <2> QED
    BY <2>1, <2>2
<1>11. EventsKeep
  <2>1. None \notin Event
    BY DEF AppointmentsAssumption
  <2> QED
    BY <1>9, <1>e, <1>10, <2>1 DEF EventsKeep, EventsLast, Relisted
<1>12. HandSound(w)'
  <2>1. PushSound(w)'
    <3>1. saw.event = e /\ Known(e, a)'
      BY <1>9, <1>e, <1>11 DEF Known, EventsKeep, EventsLast, Relisted
    <3>2. Fine(a)' => /\ Fine(a) /\ ~Live(e)' /\ events'[e].owner = saw.owner
                      /\ saw.owner \in connected'
      BY <1>6, <1>9, <1>e, <1>10 DEF Fine, Live
    <3>3. saw.event # None
      BY <1>9, <1>e DEF AppointmentsAssumption
    <3> QED
      BY <1>5, <1>8, <3>1, <3>2, <3>3 DEF PushSound
  <2> QED
    BY <1>2, <1>5, <1>8, <2>1 DEF HandSound, CommitSound, MoveSound, PutSound,
      SyncSound,
      Puts, Syncs, Pushers, Edits, Moving
<1>13. ~Puts(w)' /\ ~Puts(w) /\ ~Syncs(w)' /\ Pushes(w, a)' /\ Saw(w) /\ work[w].appt = a
       /\ work'[w].at # "put"
  BY <1>1, <1>2, <1>3, <1>5, <1>8 DEF Puts, Syncs, Pushes, On, Acts, Saw, Pushers,
    Edits, Moving
<1>14. \A v \in Workers : NewAlone(v)'
  <2>1. NewAlone(w)'
    BY <1>13 DEF NewAlone, New
  <2>2. ASSUME NEW v \in Workers \ {w}, New(v)
        PROVE  LET n == work[v].event IN
           /\ \A b \in Appts : appt'[b].event # n
           /\ (Saw(w)' => work'[w].saw.event # n) /\ (Puts(w)' => work'[w].event # n)
           /\ events'[n] = events[n] \/ events'[n].dirty = "new"
           /\ ~Syncs(w)'
    <3>1. /\ \A b \in Appts : appt[b].event # work[v].event
          /\ saw.event # work[v].event
      BY <1>1, <1>3, <1>13, <2>2, InvParts DEF NewAlone
    <3>2. work[v].event \in Events
      BY <1>0, <2>2, WorkOf, Shapes DEF New, Puts, Acts, Putting
    <3> QED
      BY <1>3, <1>5, <1>6, <1>8, <1>e, <1>10, <1>13, <3>1, <3>2
  <2> QED
    BY <1>8, <2>1, <2>2, NewStays, InvParts
<1>15. \A b \in Appts : LeftAlone(b)
  <2>1. \A b \in Appts : WorkHolds(b)
    BY <1>6, <1>8, <1>13, PusherHolds, <1>2
  <2>2. \A b \in Appts : SameMeeting(b) /\ (Fine(b)' => Fine(b))
    BY <1>6 DEF SameMeeting, Fine, Open
  <2>3. \A y \in Events : Live(y)' => Live(y)
    BY <1>10, <1>11 DEF EventsKeep, EventsLast, Relisted, Live
  <2>4. \A y \in Events : Told(y)' => ToldAlready(y)
    BY <1>2, <1>8, <1>10, <1>13 DEF Told, Syncs, ToldAlready
  <2> QED
    BY <2>1, <2>2, <2>3, <2>4 DEF LeftAlone
<1>16. Announced' /\ NextKept'
  <2>1. Announced' /\ FirstUpcoming' = FirstUpcoming
    BY <1>0, <1>6, AnnouncedStill
  <2>2. Refreshes(w) => Refreshes(w)'
    BY <1>1, <1>5, <1>8 DEF Refreshes
  <2> QED
    BY <1>0, <1>6, <1>8, <2>1, <2>2, NextStays
<1>17. /\ appt' \in [Appts -> Row] /\ jobs' \subseteq Appts /\ spent' \subseteq Appts
       /\ next' \in 0 .. MaxTime /\ place' \in Places
  BY <1>0, <1>6 DEF MeetingsTyped
<1> QED
  BY <1>6, <1>7, <1>10, <1>11, <1>12, <1>13, <1>14, <1>15, <1>16, <1>17, StepKeeps

(* A push writes of its meeting where the event is, and nothing else.      *)
Notes(a, event, owner) ==
  /\ appt' \in [Appts -> Row] /\ \A b \in Appts \ {a} : appt'[b] = appt[b]
  /\ appt'[a].status = appt[a].status /\ appt'[a].time = appt[a].time
  /\ appt'[a].host = appt[a].host /\ appt'[a].setAt = appt[a].setAt
  /\ appt'[a].reminded = appt[a].reminded
  /\ appt'[a].event = event /\ appt'[a].owner = owner

LEMMA NotesStay ==
  ASSUME MeetingsTyped, Announced, NextKept, NEW w \in Workers, NEW a \in Appts, NEW event, NEW owner,
         Notes(a, event, owner), \A v \in Workers \ {w} : work'[v] = work[v],
         UNCHANGED <<next, clock>>, stale \subseteq stale', cut \subseteq cut',
         Refreshes(w) => Refreshes(w)'
  PROVE  Announced' /\ NextKept'
<1>1. \A b \in Appts : /\ appt'[b].status = appt[b].status /\ appt'[b].time = appt[b].time
                       /\ appt'[b].setAt = appt[b].setAt /\ appt'[b].reminded = appt[b].reminded
  BY DEF Notes
<1>2. Announced' /\ FirstUpcoming' = FirstUpcoming
  BY <1>1, AnnouncedStill
<1> QED
  BY <1>2, NextStays

LEMMA OthersAreLeft ==
  ASSUME NEW a \in Appts, NEW b \in Appts \ {a}, \A c \in Appts \ {a} : appt'[c] = appt[c],
         stale \subseteq stale', cut \subseteq cut', WorkHolds(b),
         UNCHANGED events, \A e \in Events : Told(e)' => Told(e)
  PROVE  LeftAlone(b)
<1>1. SameMeeting(b) /\ (Fine(b)' => Fine(b))
  BY DEF SameMeeting, Fine, Open
<1> QED
  BY <1>1 DEF LeftAlone, Live, ToldAlready

(* Who writes the row of a meeting as it is holds the row as it is.        *)
LEMMA SawTheRow ==
  ASSUME Newest, NEW w \in Workers, NEW a \in Appts, Reads(w, a), Noted(w, a), cut \subseteq cut'
  PROVE  /\ stale \subseteq stale' /\ (Fine(a)' => Fine(a))
         /\ Fine(a)' => work[w].saw = appt[a] /\ w \notin old
BY DEF Newest, Noted, Fine

LEMMA WhoReads ==
  ASSUME NEW op \in Work
  PROVE  /\ op \in Committing \cup Sending \cup Putting \cup Applying => "saw" \in DOMAIN op
         /\ op \in Deciding \cup Starting \cup Decided \cup Refreshing \cup Listing =>
              "saw" \notin DOMAIN op
<1>1. op \in Committing => "saw" \in DOMAIN op
  BY DEF Committing
<1>2. op \in Sending => "saw" \in DOMAIN op
  BY DEF Sending
<1>3. op \in Putting => "saw" \in DOMAIN op
  BY DEF Putting
<1>4. op \in Applying => "saw" \in DOMAIN op
  BY DEF Applying
<1>5. op \in Deciding => "saw" \notin DOMAIN op
  BY DEF Deciding
<1>6. op \in Starting => "saw" \notin DOMAIN op
  BY DEF Starting
<1>7. op \in Decided => "saw" \notin DOMAIN op
  BY DEF Decided
<1>8. op \in Refreshing => "saw" \notin DOMAIN op
  BY DEF Refreshing
<1>9. op \in Listing => "saw" \notin DOMAIN op
  BY DEF Listing
<1> QED
  BY <1>1, <1>2, <1>3, <1>4, <1>5, <1>6, <1>7, <1>8, <1>9

(* A row that somebody changed is an older one to whoever else holds it.   *)
LEMMA OthersAreOvertaken ==
  ASSUME NEW w \in Workers, NEW a \in Appts, Overtakes(w, a)
  PROVE  /\ old \ {w} \subseteq old'
         /\ appt'[a] # appt[a] => \A v \in Workers \ {w} : Reads(v, a) => v \in old'
BY DEF Overtakes

(* What somebody owes of a row that he changed is set right by him, and    *)
(* not by those who go by what the row was.                                *)
LEMMA TimeStillAgrees ==
  ASSUME MeetingsTyped, NEW w \in Workers, NEW a \in Appts, TimeAgrees(a), Overtakes(w, a),
         \A v \in Workers \ {w} : work'[v] = work[v], ~Syncs(w),
         \A e \in Events : ~(On(w, a)' /\ PutsIt(w, e)'), Excused(a)', UNCHANGED events,
         \A e \in Events : Told(e)' => Told(e), appt' \in [Appts -> Row]
  PROVE  TimeAgrees(a)'
<1>1. ASSUME NEW v \in Workers, NEW e \in Events, On(v, a)', PutsIt(v, e)'
      PROVE  v # w /\ On(v, a) /\ PutsIt(v, e) /\ Reads(v, a)
  <2>1. v # w /\ On(v, a) /\ PutsIt(v, e)
    BY <1>1 DEF On, Acts, PutsIt
  <2>2. work[v] \in Putting
    BY <2>1, WorkOf, Shapes DEF On, Acts, PutsIt
  <2> QED
    BY <2>1, <2>2, WorkOf, WhoReads DEF Reads, On, Acts, PutsIt
<1>2. PICK e \in Events \cup {None} : e = appt'[a].event
  BY DEF Row
<1>3. CASE appt'[a] # appt[a]
  <2>1. e # None => Coming(a, e)'
    BY <1>1, <1>3, OthersAreOvertaken DEF Coming
  <2> QED
    BY <1>2, <2>1 DEF TimeAgrees
<1>4. CASE appt'[a] = appt[a]
  <2>1. e # None /\ Coming(a, e) => Coming(a, e)'
    BY <1>1, OthersAreOvertaken DEF Coming
  <2>2. \A v \in Workers : Applies(v, a, e) => Applies(v, a, e)'
    BY DEF Applies, Syncs
  <2> QED
    BY <1>2, <1>4, <2>1, <2>2 DEF TimeAgrees, Open
<1> QED
  BY <1>3, <1>4

LEMMA RecordOutKeeps ==
  ASSUME MeetingsInv, Newest, AppointmentsAssumption, NEW w \in Workers, RecordOut(w)
  PROVE  MeetingsInv'
<1>0. MeetingsTyped /\ NextKept /\ Announced
  BY InvParts
<1>1. PICK op \in Work : op = work[w]
  BY <1>0, WorkOf
<1>2. /\ Acts(w) /\ op.at = "taken out" /\ op.kind \in Pushers /\ ~Syncs(w) /\ op \in Sending
  BY <1>0, <1>1, AtWork DEF RecordOut
<1>3. PICK a \in Appts, saw \in Row : a = op.appt /\ saw = op.saw
  BY <1>2 DEF Sending
<1>o. PICK open \in BOOLEAN : open <=> saw.status \in {"booked", "confirmed"}
  OBVIOUS
<1>4. /\ appt' = [appt EXCEPT ![a].error = FALSE, ![a].event = IF open THEN None ELSE @,
                          ![a].owner = IF open THEN None ELSE @]
      /\ Noted(w, a) /\ old \ {w} \subseteq old'
      /\ UNCHANGED <<events, connected, next, place, clock, cut>>
  BY <1>1, <1>3, <1>o, OthersAreOvertaken DEF RecordOut, google, bounds
<1>5. /\ Notes(a, IF open THEN None ELSE appt[a].event, IF open THEN None ELSE appt[a].owner)
      /\ ~appt'[a].error
  <2>0. appt[a] \in Row
    BY <1>0 DEF MeetingsTyped
  <2>1. PICK y : y = [appt[a] EXCEPT !.error = FALSE, !.event = IF open THEN None ELSE @,
                                     !.owner = IF open THEN None ELSE @]
    OBVIOUS
  <2>2. /\ y \in Row /\ y.status = appt[a].status /\ y.time = appt[a].time /\ y.host = appt[a].host
        /\ y.setAt = appt[a].setAt /\ y.reminded = appt[a].reminded /\ ~y.error
        /\ y.event = (IF open THEN None ELSE appt[a].event)
        /\ y.owner = (IF open THEN None ELSE appt[a].owner)
    BY <2>0, <2>1 DEF Row
  <2>3. appt' = [appt EXCEPT ![a] = y]
    BY <1>0, <1>4, <2>1 DEF MeetingsTyped
  <2> QED
    BY <1>0, <2>2, <2>3 DEF Notes, MeetingsTyped
<1>6. stale \subseteq stale' /\ cut \subseteq cut' /\ (Fine(a)' => Fine(a) /\ appt[a] = saw)
  <2>1. Reads(w, a)
    BY <1>1, <1>2, <1>3, WhoReads DEF Reads, Acts
  <2> QED
    BY <1>1, <1>3, <1>4, <2>1, SawTheRow
<1>7. /\ saw.event \in Events
      /\ Fine(a) => ~Live(saw.event)
  <2>1. PushSound(w) /\ Saw(w)
    BY <1>1, <1>2, InvParts DEF HandSound, Saw
  <2>2. saw.event # None /\ (Fine(a) => ~Live(saw.event))
    BY <1>1, <1>2, <1>3, <2>1 DEF PushSound
  <2> QED
    BY <2>2 DEF Row
<1>8. EventsKeep /\ MeetingSound(a)
  BY <1>4, InvParts DEF EventsKeep, EventsLast, Relisted
<1>9. ASSUME \A v \in Workers \ {w} : work'[v] = work[v], Pushes(w, a)' \/ ~MustPutIn(saw)
      PROVE  MeetingSound(a)'
  <2>1. EventKnown(a)'
    BY <1>4, <1>5, <1>8 DEF MeetingSound, EventKnown, Known, Notes
  <2>2. ASSUME Fine(a)' PROVE CalendarSound(a)'
    <3>0. CalendarSound(a) /\ appt[a] = saw /\ ~Live(saw.event) /\ (Open(a) <=> open)
      BY <1>6, <1>7, <1>8, <1>o, <2>2 DEF MeetingSound, Open
    <3>1. OneLive(a)'
      <4>1. \A v \in Workers, e \in Events : On(v, a) /\ PutsIt(v, e) =>
              v # w /\ On(v, a)' /\ PutsIt(v, e)'
        BY <1>1, <1>2, <1>9 DEF On, PutsIt, Acts
      <4>2. \A e \in Events : Live(e) /\ events[e].of = a => \E v \in Workers : On(v, a) /\ PutsIt(v, e)
        BY <3>0 DEF CalendarSound, OneLive
      <4> QED
        BY <1>4, <4>1, <4>2 DEF OneLive, Live
    <3>2. OwnerKept(a)'
      BY <1>4, <1>5, <3>0 DEF CalendarSound, OwnerKept, Notes
    <3>3. ErrorOwed(a)'
      BY <1>5 DEF ErrorOwed
    <3>4. LiveOpen(a)'
      BY <1>4, <1>5, <3>0 DEF LiveOpen, Notes, Live
    <3>5. HostOwns(a)' /\ TimeAgrees(a)'
      <4>1. Open(a)' => appt'[a].event = None /\ appt'[a].host = saw.host /\ open
        BY <1>5, <3>0 DEF Notes, Open
      <4>2. Pushes(w, a)' => Excused(a)'
        BY DEF Excused, Owed
      <4>3. ~MustPutIn(saw) /\ open => saw.host \notin connected'
        BY <1>4, <1>o DEF MustPutIn
      <4> QED
        BY <1>9, <4>1, <4>2, <4>3 DEF HostOwns, TimeAgrees
    <3> QED
      BY <3>1, <3>2, <3>3, <3>4, <3>5 DEF CalendarSound
  <2> QED
    BY <2>1, <2>2 DEF MeetingSound
<1>10. ASSUME NEW x \in Work, work' = [work EXCEPT ![w] = x], HandSound(w)', ~Puts(w)', ~Syncs(w)',
              Saw(w)' => x.saw.event = None, \A b \in Appts \ {a} : WorkHolds(b),
              Refreshes(w) => Refreshes(w)', jobs' \subseteq Appts, spent' \subseteq Appts,
              Pushes(w, a)' \/ ~MustPutIn(saw)
       PROVE  MeetingsInv'
  <2>1. work'[w] = x /\ \A v \in Workers \ {w} : work'[v] = work[v]
    BY <1>0, <1>10, WorkBecomes
  <2>2. NewAlone(w)'
    BY <1>10 DEF NewAlone, New
  <2>3. ASSUME NEW v \in Workers \ {w}, New(v)
        PROVE  LET n == work[v].event IN
           /\ \A b \in Appts : appt'[b].event # n
           /\ (Saw(w)' => work'[w].saw.event # n) /\ (Puts(w)' => work'[w].event # n)
           /\ events'[n] = events[n] \/ events'[n].dirty = "new"
           /\ ~Syncs(w)'
    <3>1. \A b \in Appts : appt[b].event # work[v].event
      BY <2>3, InvParts DEF NewAlone
    <3>2. work[v].event \in Events /\ work[v].event # None
      BY <1>0, <2>3, WorkOf, Shapes DEF New, Puts, Acts, Putting, AppointmentsAssumption
    <3>3. \A b \in Appts : appt'[b].event \in {None, appt[b].event}
      BY <1>5 DEF Notes
    <3> QED
      BY <1>4, <1>10, <2>1, <3>1, <3>2, <3>3
  <2>4. \A v \in Workers : NewAlone(v)'
    BY <2>1, <2>2, <2>3, NewStays, InvParts
  <2>5. \A e \in Events : Told(e)' => Told(e)
    BY <1>4, <1>10, <2>1 DEF Told, Syncs
  <2>6. \A b \in Appts : LeftAlone(b) \/ MeetingSound(b)'
    <3>1. \A b \in Appts \ {a} : LeftAlone(b)
      BY <1>4, <1>5, <1>6, <1>10, <2>5, OthersAreLeft DEF Notes
    <3> QED
      BY <1>9, <1>10, <2>1, <3>1
  <2>7. Announced' /\ NextKept'
    BY <1>0, <1>4, <1>5, <1>6, <1>10, <2>1, NotesStay
  <2>8. /\ appt' \in [Appts -> Row] /\ events' \in [Events -> Event \cup {None}]
        /\ next' \in 0 .. MaxTime /\ place' \in Places
    BY <1>0, <1>4, <1>5 DEF MeetingsTyped, Notes
  <2> QED
    BY <1>4, <1>6, <1>8, <1>10, <2>4, <2>6, <2>7, <2>8, StepKeeps
<1>11. CASE MustPutIn(saw)
  <2>1. PICK y : y = [saw EXCEPT !.event = None, !.owner = None, !.error = FALSE]
    OBVIOUS
  <2>2. y \in Row /\ y.event = None /\ y.status = saw.status /\ y.host = saw.host
    BY <2>1 DEF Row
  <2>3. PICK x : x = [kind |-> op.kind, at |-> "put in", appt |-> op.appt, saw |-> y]
    OBVIOUS
  <2>4. x \in Sending /\ x.kind = op.kind /\ x.appt = a /\ x.saw = y /\ x.at = "put in"
    BY <1>2, <1>3, <2>2, <2>3 DEF Sending
  <2>5. work' = [work EXCEPT ![w] = x] /\ jobs' = jobs /\ spent' = spent
    <3>1. op = [kind |-> op.kind, at |-> op.at, appt |-> op.appt, saw |-> op.saw]
      BY <1>2 DEF Sending
    <3>2. /\ work' = [work EXCEPT ![w].at = "put in", ![w].saw = [op.saw EXCEPT
                          !.event = None, !.owner = None, !.error = FALSE]]
          /\ jobs' = jobs /\ spent' = spent
      BY <1>1, <1>3, <1>11 DEF RecordOut, queue
    <3>3. work' = [work EXCEPT ![w].at = "put in", ![w].saw = y]
      BY <1>3, <2>1, <3>2
    <3>4. [op EXCEPT !.at = "put in", !.saw = y] = x
      <4>1. PICK z : z = [op EXCEPT !.at = "put in", !.saw = y]
        OBVIOUS
      <4>2. z = [kind |-> op.kind, at |-> "put in", appt |-> op.appt, saw |-> y]
        BY <3>1, <4>1
      <4> QED
        BY <2>3, <4>1, <4>2
    <3> QED
      BY <1>0, <1>1, <3>2, <3>3, <3>4 DEF MeetingsTyped
  <2>6. x \in Work
    BY <2>4 DEF Work
  <2>7. work'[w] = x /\ \A v \in Workers \ {w} : work'[v] = work[v]
    BY <1>0, <2>5, <2>6, WorkBecomes
  <2>8. /\ ~Puts(w)' /\ ~Syncs(w)' /\ (Refreshes(w) => Refreshes(w)') /\ Pushes(w, a)'
        /\ work'[w].at # "put" /\ ~Puts(w) /\ work[w].appt = a
    BY <1>1, <1>2, <1>3, <2>4, <2>7 DEF Puts, Syncs, Refreshes, Pushes, On, Acts,
      Pushers, Edits, Moving
  <2>9. HandSound(w)'
    <3>1. saw.status \in OpenStates /\ saw.host \in connected /\ saw.host \in Hosts
      BY <1>0, <1>11 DEF MustPutIn, OpenStates, MeetingsTyped
    <3>2. PushSound(w)'
      BY <1>4, <2>2, <2>4, <2>7, <3>1 DEF PushSound
    <3> QED
      BY <1>2, <2>4, <2>7, <2>8, <3>2 DEF HandSound, CommitSound, MoveSound, PutSound,
        SyncSound
  <2>10. ASSUME NEW b \in Appts \ {a} PROVE WorkHolds(b)
    <3>1. NothingForgiven(w, b)
      BY <1>4, <1>5, <2>5 DEF NothingForgiven, Notes
    <3>2. ~Pushes(w, b) /\ \A e \in Events : ~Applies(w, b, e)
      BY <1>2, <2>8 DEF Pushes, On, Applies
    <3> QED
      BY <2>7, <2>8, <3>1, <3>2, HoldsForOthers
  <2>11. jobs' \subseteq Appts /\ spent' \subseteq Appts
    BY <1>0, <2>5 DEF MeetingsTyped
  <2> QED
    BY <1>10, <2>2, <2>4, <2>5, <2>6, <2>8, <2>9, <2>10, <2>11
<1>12. CASE ~MustPutIn(saw)
  <2>1. /\ work' = [work EXCEPT ![w] = After(op)]
        /\ jobs' = (IF op.kind = "retry" THEN jobs \ {a} ELSE jobs) /\ spent' = spent
    BY <1>1, <1>3, <1>12 DEF RecordOut, Leave, EndJob
  <2>2. /\ jobs' \subseteq Appts /\ spent' \subseteq Appts
        /\ \A b \in Appts \ {a} : NothingForgiven(w, b)
    BY <1>0, <1>4, <1>5, <2>1 DEF MeetingsTyped, NothingForgiven, Notes
  <2>3. /\ HandSound(w)' /\ ~Puts(w)' /\ ~Saw(w)' /\ ~Syncs(w)'
        /\ Refreshes(w) => Refreshes(w)'
        /\ \A b \in Appts \ {a} : WorkHolds(b)
    BY <1>0, <1>1, <1>2, <1>3, <2>1, <2>2, WhoLeaves
  <2>4. After(op) \in Work
    BY <1>2, <1>3, AfterIsWork
  <2> QED
    BY <1>10, <1>12, <2>1, <2>2, <2>3, <2>4
<1> QED
  BY <1>11, <1>12

LEMMA PutInKeeps ==
  ASSUME MeetingsInv, Newest, AppointmentsAssumption, NEW w \in Workers, PutIn(w)
  PROVE  MeetingsInv'
<1>0. MeetingsTyped /\ NextKept /\ Announced /\ None \notin Event
  BY InvParts DEF AppointmentsAssumption
<1>1. PICK op \in Work : op = work[w]
  BY <1>0, WorkOf
<1>2. /\ Acts(w) /\ op.at = "put in" /\ op.kind \in Pushers /\ ~Syncs(w) /\ op \in Sending
  BY <1>0, <1>1, AtWork DEF PutIn
<1>3. PICK a \in Appts, saw \in Row : a = op.appt /\ saw = op.saw
  BY <1>2 DEF Sending
<1>k. PICK kept \in BOOLEAN :
        kept <=> saw.event # None /\ events[saw.event] # None /\ events[saw.event].live
  OBVIOUS
<1>e. PICK e \in Events : /\ e = IF kept THEN saw.event ELSE CHOOSE y \in Events : events[y] = None
                          /\ ~kept => events[e] = None
  <2>1. kept \/ \E y \in Events : events[y] = None
    BY <1>1, <1>3, <1>k DEF PutIn
  <2>2. kept => saw.event \in Events
    BY <1>k DEF Row
  <2> QED
    BY <2>1, <2>2
<1>n. PICK n : n = [of |-> a, owner |-> saw.host, time |-> saw.time, live |-> TRUE, dirty |-> "new"]
  OBVIOUS
<1>4. PICK x : x = [kind |-> op.kind, appt |-> a, saw |-> saw, at |-> "put", event |-> e]
  OBVIOUS
<1>5. /\ events' = [events EXCEPT ![e] = n]
      /\ Noted(w, a) /\ work' = [work EXCEPT ![w] = x]
      /\ UNCHANGED <<appt, connected, jobs, spent, next, place, clock, old, cut>>
  BY <1>1, <1>3, <1>k, <1>e, <1>n, <1>4 DEF PutIn, bounds, queue
<1>6. /\ x \in Putting /\ x.kind = op.kind /\ x.appt = a /\ x.saw = saw /\ x.at = "put" /\ x.event = e
  BY <1>2, <1>3, <1>4 DEF Putting
<1>7. x \in Work
  BY <1>6 DEF Work
<1>8. work'[w] = x /\ \A v \in Workers \ {w} : work'[v] = work[v]
  BY <1>0, <1>5, <1>7, WorkBecomes
<1>9. /\ Saw(w) /\ saw.status \in OpenStates /\ saw.host \in Hosts
      /\ saw.event # None => saw.owner = saw.host /\ saw.event \in Events /\ Known(saw.event, a)
      /\ Fine(a) => /\ saw.event # None => events[saw.event].owner = saw.owner
                                           /\ saw.owner \in connected
                    /\ saw.host \in connected
  <2>1. PushSound(w) /\ Saw(w)
    BY <1>1, <1>2, InvParts DEF HandSound, Saw
  <2>2. saw.event # None => saw.event \in Events
    BY DEF Row
  <2> QED
    BY <1>1, <1>2, <1>3, <2>1, <2>2 DEF PushSound
<1>10. stale \subseteq stale' /\ cut \subseteq cut' /\ (Fine(a)' => Fine(a) /\ appt[a] = saw)
  <2>1. Reads(w, a)
    BY <1>1, <1>2, <1>3, WhoReads DEF Reads, Acts
  <2> QED
    BY <1>1, <1>3, <1>5, <2>1, SawTheRow
<1>11. /\ n \in Event /\ n.of = a /\ n.owner = saw.host /\ n.live /\ n.dirty = "new"
  BY <1>3, <1>9, <1>n DEF Event, Row
<1>12. /\ events' \in [Events -> Event \cup {None}] /\ events'[e] = n
       /\ \A y \in Events \ {e} : events'[y] = events[y]
  BY <1>0, <1>5, <1>11 DEF MeetingsTyped
<1>13. EventsKeep
  <2> SUFFICES ASSUME NEW y \in Events, events[y] # None
               PROVE  /\ events'[y] # None /\ events'[y].of = events[y].of
                      /\ events'[y].live => events[y].live
                      /\ Fine(events[y].of)' => events'[y].owner = events[y].owner
                      /\ events'[y] = events[y] \/ events'[y].dirty = "new"
    BY DEF EventsKeep, EventsLast, Relisted
  <2>1. CASE y # e
    BY <1>12, <2>1
  <2>2. CASE y = e
    <3>1. kept /\ e = saw.event /\ saw.event # None /\ events[e].live
      BY <1>k, <1>e, <2>2
    <3>2. events[e].of = a
      BY <1>9, <3>1 DEF Known
    <3>3. Fine(a)' => events[e].owner = saw.host
      BY <1>9, <1>10, <3>1
    <3> QED
      BY <1>0, <1>11, <1>12, <2>2, <3>1, <3>2, <3>3 DEF Fine
  <2> QED
    BY <2>1, <2>2
<1>14. HandSound(w)'
  <2>1. saw.event # None => Known(saw.event, a)'
    BY <1>9, <1>13 DEF Known, EventsKeep, EventsLast, Relisted
  <2>2. Fine(a)' => /\ saw.event # None => events'[saw.event].owner = saw.owner
                                           /\ saw.owner \in connected'
                    /\ saw.host \in connected'
    BY <1>5, <1>9, <1>10, <1>13 DEF Known, EventsKeep, EventsLast, Relisted, Fine
  <2>3. PushSound(w)'
    BY <1>6, <1>8, <1>9, <2>1, <2>2 DEF PushSound
  <2>4. Known(e, a)' /\ events'[e].owner = saw.host
    BY <1>0, <1>11, <1>12 DEF Known
  <2>5. e # saw.event /\ saw.event # None => ~Live(saw.event)'
    BY <1>9, <1>k, <1>e, <1>12 DEF Live
  <2>6. PutSound(w)'
    BY <1>6, <1>8, <2>4, <2>5 DEF PutSound
  <2> QED
    BY <1>2, <1>6, <1>8, <2>3, <2>6 DEF HandSound, CommitSound, MoveSound, SyncSound,
      Syncs,
      Pushers, Edits, Moving
<1>15. ~Puts(w) /\ ~Syncs(w)' /\ Pushes(w, a)' /\ work[w].appt = a /\ PutsIt(w, e)' /\ On(w, a)'
  BY <1>1, <1>2, <1>3, <1>6, <1>8 DEF Puts, Syncs, Pushes, On, Acts, PutsIt, Pushers,
    Edits, Moving
<1>16. \A v \in Workers : NewAlone(v)'
  <2>1. NewAlone(w)'
    <3> SUFFICES ASSUME New(w)' PROVE NewAlone(w)'
      BY DEF NewAlone
    <3>1. events[e] = None
      BY <1>6, <1>8, <1>e DEF New
    <3>2. \A b \in Appts : appt'[b].event # e
      <4> SUFFICES ASSUME NEW b \in Appts, appt[b].event = e PROVE FALSE
        BY <1>5
      <4>1. e # None
        BY DEF AppointmentsAssumption
      <4> QED
        BY <3>1, <4>1, InvParts DEF MeetingSound, EventKnown, Known
    <3>3. ASSUME NEW v \in Workers \ {w}
          PROVE  (Saw(v)' => work'[v].saw.event # e) /\ (Puts(v)' => work'[v].event # e)
      <4>0. e # None
        BY DEF AppointmentsAssumption
      <4>1. HandSound(v)
        BY InvParts
      <4>2. Saw(v) => work[v].saw.event # e
        BY <3>1, <4>0, <4>1 DEF HandSound, PushSound, Known
      <4>3. Puts(v) => work[v].event # e
        BY <3>1, <4>0, <4>1 DEF HandSound, PutSound, Known
      <4> QED
        BY <1>8, <4>2, <4>3 DEF Saw, Puts, Acts
    <3>4. events'[e].dirty = "new"
      BY <1>11, <1>12
    <3> QED
      BY <1>6, <1>8, <3>2, <3>3, <3>4 DEF NewAlone
  <2>2. ASSUME NEW v \in Workers \ {w}, New(v)
        PROVE  LET m == work[v].event IN
           /\ \A b \in Appts : appt'[b].event # m
           /\ (Saw(w)' => work'[w].saw.event # m) /\ (Puts(w)' => work'[w].event # m)
           /\ events'[m] = events[m] \/ events'[m].dirty = "new"
           /\ ~Syncs(w)'
    <3>1. /\ \A b \in Appts : appt[b].event # work[v].event
          /\ saw.event # work[v].event
      BY <1>1, <1>3, <1>9, <2>2, InvParts DEF NewAlone
    <3>2. work[v].event \in Events /\ events[work[v].event] # None
      <4>1. work[v].event \in Events
        BY <1>0, <2>2, WorkOf, Shapes DEF New, Puts, Acts, Putting
      <4>2. PutSound(v)
        BY InvParts DEF HandSound
      <4> QED
        BY <2>2, <4>1, <4>2 DEF New, PutSound, Known
    <3>3. e # work[v].event
      BY <1>e, <3>1, <3>2
    <3> QED
      BY <1>5, <1>6, <1>8, <1>12, <1>15, <3>1, <3>2, <3>3
  <2> QED
    BY <1>8, <2>1, <2>2, NewStays, InvParts
<1>17. \A y \in Events : Told(y)' => ToldAlready(y)
  BY <1>2, <1>8, <1>11, <1>12, <1>15 DEF Told, Syncs, ToldAlready
<1>18. ASSUME NEW b \in Appts \ {a} PROVE LeftAlone(b)
  <2>1. ~Pushes(w, b) /\ ~On(w, b)' /\ \A y \in Events : ~Applies(w, b, y)
    BY <1>1, <1>2, <1>3, <1>6, <1>8 DEF Pushes, On, Applies
  <2>2. WorkHolds(b)
    BY <1>5, <1>8, <2>1, HoldsForStrangers
  <2>3. SameMeeting(b) /\ (Fine(b)' => Fine(b))
    BY <1>5 DEF SameMeeting, Fine, Open, Noted
  <2>4. \A y \in Events : Live(y)' /\ events'[y].of = b => Live(y)
    BY <1>11, <1>12 DEF Live
  <2> QED
    BY <1>17, <2>2, <2>3, <2>4 DEF LeftAlone
<1>19. MeetingSound(a)'
  <2>1. EventKnown(a)'
    <3>1. MeetingSound(a)
      BY InvParts
    <3>2. appt[a].event # None => appt[a].event \in Events
      BY <1>0 DEF MeetingsTyped, Row
    <3> QED
      BY <1>5, <1>13, <3>1, <3>2 DEF MeetingSound, EventKnown, Known, EventsKeep,
        EventsLast, Relisted
  <2>2. ASSUME Fine(a)' PROVE CalendarSound(a)'
    <3>0. CalendarSound(a) /\ appt[a] = saw
      BY <1>10, <2>2, InvParts DEF MeetingSound
    <3>1. OneLive(a)'
      <4> SUFFICES ASSUME NEW y \in Events, Live(y)', events'[y].of = a
                   PROVE  y = appt'[a].event \/ \E v \in Workers : On(v, a)' /\ PutsIt(v, y)'
        BY DEF OneLive
      <4>1. CASE y = e
        BY <1>15, <4>1
      <4>2. CASE y # e
        <5>1. Live(y) /\ events[y].of = a
          BY <1>12, <4>2 DEF Live
        <5>2. y = appt[a].event \/ \E v \in Workers : On(v, a) /\ PutsIt(v, y)
          BY <3>0, <5>1 DEF CalendarSound, OneLive
        <5>3. \A v \in Workers : On(v, a) /\ PutsIt(v, y) => v # w /\ On(v, a)' /\ PutsIt(v, y)'
          BY <1>1, <1>2, <1>8 DEF On, PutsIt, Acts
        <5> QED
          BY <1>5, <5>2, <5>3
      <4> QED
        BY <4>1, <4>2
    <3>2. Excused(a)' /\ Tried(a)'
      BY <1>15 DEF Owed, Excused, Tried
    <3>3. OwnerKept(a)'
      BY <1>5, <1>9, <1>10, <1>13, <2>2, <3>0 DEF OwnerKept, EventsKeep, EventsLast,
        Relisted, Known, Fine
    <3>4. TimeAgrees(a)'
      <4> SUFFICES ASSUME Told(saw.event)' PROVE TimeAgrees(a)'
        BY <1>5, <3>0 DEF TimeAgrees
      <4> SUFFICES ASSUME Open(a), saw.event # None, ~TimeAgrees(a)'
                   PROVE  \/ events'[saw.event].live /\ events'[saw.event].time = saw.time
                          \/ \E v \in Workers : Applies(v, a, saw.event)'
                          \/ Coming(a, saw.event)'
        BY <1>5, <3>0 DEF TimeAgrees, Open
      <4>1. e # saw.event /\ saw.event \in Events
        BY <1>9, <1>11, <1>12 DEF Told
      <4>2. ToldAlready(saw.event)
        BY <1>17, <4>1
      <4>3. CASE \E v \in Workers : Applies(v, a, saw.event)
        BY <1>2, <1>8, <4>3 DEF Applies, Syncs
      <4>4. CASE Coming(a, saw.event)
        <5> SUFFICES ASSUME NEW v \in Workers, On(v, a)', PutsIt(v, saw.event)' PROVE v \in old'
          BY <3>2 DEF Coming
        <5>1. v # w
          BY <1>6, <1>8, <4>1 DEF PutsIt
        <5>2. On(v, a) /\ PutsIt(v, saw.event)
          BY <1>8, <5>1 DEF On, Acts, PutsIt
        <5> QED
          BY <1>5, <4>4, <5>2 DEF Coming
      <4>5. CASE events[saw.event].live /\ events[saw.event].time = saw.time
        BY <4>2, <4>5 DEF ToldAlready
      <4> QED
        BY <3>0, <4>2, <4>3, <4>4, <4>5 DEF CalendarSound, TimeAgrees, ToldAlready
    <3> QED
      BY <3>1, <3>2, <3>3, <3>4 DEF CalendarSound, ErrorOwed, LiveOpen, HostOwns
  <2> QED
    BY <2>1, <2>2 DEF MeetingSound
<1>20. \A b \in Appts : LeftAlone(b) \/ MeetingSound(b)'
  BY <1>18, <1>19
<1>21. Announced' /\ NextKept'
  <2>1. Announced' /\ FirstUpcoming' = FirstUpcoming
    BY <1>0, <1>5, <1>10, AnnouncedStill
  <2>2. Refreshes(w) => Refreshes(w)'
    BY <1>1, <1>6, <1>8 DEF Refreshes
  <2> QED
    BY <1>0, <1>5, <1>8, <1>10, <2>1, <2>2, NextStays
<1>22. /\ appt' \in [Appts -> Row] /\ jobs' \subseteq Appts /\ spent' \subseteq Appts
       /\ next' \in 0 .. MaxTime /\ place' \in Places
  BY <1>0, <1>5 DEF MeetingsTyped
<1> QED
  BY <1>5, <1>7, <1>10, <1>12, <1>13, <1>14, <1>15, <1>16, <1>20, <1>21, <1>22,
    StepKeeps

LEMMA RecordInKeeps ==
  ASSUME MeetingsInv, Newest, AppointmentsAssumption, NEW w \in Workers, RecordIn(w)
  PROVE  MeetingsInv'
<1>0. MeetingsTyped /\ NextKept /\ Announced
  BY InvParts
<1>1. PICK op \in Work : op = work[w]
  BY <1>0, WorkOf
<1>2. /\ Acts(w) /\ op.at = "put" /\ op.kind \in Pushers /\ ~Syncs(w) /\ op \in Putting
      /\ op.kind \notin {"idle", "sync"}
  BY <1>0, <1>1, AtWork DEF RecordIn, Pushing
<1>3. PICK a \in Appts, saw \in Row, e \in Events : a = op.appt /\ saw = op.saw /\ e = op.event
  BY <1>2 DEF Putting
<1>4. /\ appt' = [appt EXCEPT ![a].event = e, ![a].owner = saw.host, ![a].error = FALSE]
      /\ Noted(w, a) /\ old \ {w} \subseteq old'
      /\ work' = [work EXCEPT ![w] = After(op)]
      /\ jobs' = (IF op.kind = "retry" THEN jobs \ {a} ELSE jobs) /\ spent' = spent
      /\ UNCHANGED <<events, connected, next, place, clock, cut>>
  BY <1>1, <1>3, OthersAreOvertaken DEF RecordIn, Leave, EndJob, google, bounds
<1>5. Saw(w) /\ Puts(w) /\ PushSound(w) /\ PutSound(w) /\ NewAlone(w)
  BY <1>1, <1>2, InvParts DEF HandSound, Saw, Puts
<1>6. /\ saw.status \in OpenStates /\ saw.host \in Hosts
      /\ Fine(a) => saw.host \in connected
      /\ Known(e, a) /\ (e # saw.event /\ saw.event # None => ~Live(saw.event))
      /\ Fine(a) => events[e].owner = saw.host
  BY <1>1, <1>2, <1>3, <1>5 DEF PushSound, PutSound
<1>7. Notes(a, e, saw.host) /\ ~appt'[a].error
  <2>0. appt[a] \in Row
    BY <1>0 DEF MeetingsTyped
  <2>1. PICK y : y = [appt[a] EXCEPT !.event = e, !.owner = saw.host, !.error = FALSE]
    OBVIOUS
  <2>2. /\ y \in Row /\ y.status = appt[a].status /\ y.time = appt[a].time /\ y.host = appt[a].host
        /\ y.setAt = appt[a].setAt /\ y.reminded = appt[a].reminded /\ ~y.error
        /\ y.event = e /\ y.owner = saw.host
    BY <1>6, <2>0, <2>1 DEF Row
  <2>3. appt' = [appt EXCEPT ![a] = y]
    BY <1>0, <1>4, <2>1 DEF MeetingsTyped
  <2> QED
    BY <1>0, <2>2, <2>3 DEF Notes, MeetingsTyped
<1>8. /\ stale \subseteq stale' /\ cut \subseteq cut' 
      /\ Fine(a)' => Fine(a) /\ appt[a] = saw /\ w \notin old
  <2>1. Reads(w, a)
    BY <1>1, <1>2, <1>3, WhoReads DEF Reads, Acts
  <2> QED
    BY <1>1, <1>3, <1>4, <2>1, SawTheRow
<1>9. /\ jobs' \subseteq Appts /\ spent' \subseteq Appts
      /\ \A b \in Appts \ {a} : NothingForgiven(w, b)
  BY <1>0, <1>4, <1>7 DEF MeetingsTyped, NothingForgiven, Notes
<1>10. /\ work'[w] = After(op) /\ \A v \in Workers \ {w} : work'[v] = work[v]
       /\ HandSound(w)' /\ ~Puts(w)' /\ ~Saw(w)' /\ ~Syncs(w)' /\ ~Pushes(w, a)'
       /\ Refreshes(w) => Refreshes(w)'
       /\ \A b \in Appts \ {a} : WorkHolds(b)
  BY <1>0, <1>1, <1>2, <1>3, <1>4, <1>9, WhoLeaves
<1>11. After(op) \in Work
  BY <1>2, <1>3, AfterIsWork
<1>12. EventsKeep /\ MeetingSound(a)
  BY <1>4, InvParts DEF EventsKeep, EventsLast, Relisted
<1>13. \A v \in Workers : NewAlone(v)'
  <2>1. NewAlone(w)'
    BY <1>10 DEF NewAlone, New
  <2>2. ASSUME NEW v \in Workers \ {w}, New(v)
        PROVE  LET n == work[v].event IN
           /\ \A b \in Appts : appt'[b].event # n
           /\ (Saw(w)' => work'[w].saw.event # n) /\ (Puts(w)' => work'[w].event # n)
           /\ events'[n] = events[n] \/ events'[n].dirty = "new"
           /\ ~Syncs(w)'
    <3>1. (\A b \in Appts : appt[b].event # work[v].event) /\ e # work[v].event
      BY <1>1, <1>3, <1>5, <2>2, InvParts DEF NewAlone
    <3> QED
      BY <1>4, <1>7, <1>10, <3>1 DEF Notes
  <2> QED
    BY <1>10, <2>1, <2>2, NewStays, InvParts
<1>14. \A y \in Events : Told(y)' => Told(y)
  BY <1>4, <1>10 DEF Told, Syncs
<1>15. \A b \in Appts \ {a} : LeftAlone(b)
  BY <1>4, <1>7, <1>8, <1>10, <1>14, OthersAreLeft DEF Notes
<1>16. MeetingSound(a)'
  <2>1. EventKnown(a)'
    BY <1>4, <1>6, <1>7 DEF EventKnown, Known, Notes
  <2>2. ASSUME Fine(a)' PROVE CalendarSound(a)'
    <3>0. CalendarSound(a) /\ appt[a] = saw /\ Fine(a) /\ w \notin old
      BY <1>8, <1>12, <2>2 DEF MeetingSound
    <3>1. OwnerKept(a)'
      BY <1>4, <1>6, <1>7, <3>0 DEF OwnerKept, Notes
    <3>2. OneLive(a)'
      <4> SUFFICES ASSUME NEW y \in Events, Live(y), events[y].of = a, y # e
                   PROVE  \E v \in Workers : On(v, a)' /\ PutsIt(v, y)'
        BY <1>4, <1>7 DEF OneLive, Notes, Live
      <4>1. y = saw.event \/ \E v \in Workers : On(v, a) /\ PutsIt(v, y)
        BY <3>0 DEF CalendarSound, OneLive
      <4>2. y # saw.event
        BY <1>6, <3>0 DEF Live, AppointmentsAssumption
      <4>3. \A v \in Workers : On(v, a) /\ PutsIt(v, y) => v # w /\ On(v, a)' /\ PutsIt(v, y)'
        BY <1>1, <1>3, <1>10 DEF On, PutsIt, Acts
      <4> QED
        BY <4>1, <4>2, <4>3
    <3>3. Open(a)' /\ appt'[a].host = saw.host
      BY <1>6, <1>7, <3>0 DEF Notes, Open, OpenStates
    <3>4. ErrorOwed(a)' /\ LiveOpen(a)' /\ HostOwns(a)'
      BY <1>7, <3>3 DEF ErrorOwed, LiveOpen, HostOwns, Notes, AppointmentsAssumption
    <3>5. TimeAgrees(a)'
      <4> SUFFICES ASSUME Told(e) 
                   PROVE  \/ events[e].live /\ events[e].time = saw.time
                          \/ \E v \in Workers : Applies(v, a, e)'
        BY <1>4, <1>7, <1>14, <3>0 DEF TimeAgrees, Notes
      <4>1. e = saw.event
        <5> SUFFICES ASSUME e # saw.event PROVE FALSE
          OBVIOUS
        <5>1. New(w)
          BY <1>1, <1>3, <1>5 DEF New
        <5> QED
          BY <1>1, <1>3, <1>5, <5>1 DEF NewAlone, Told
      <4>2. \/ events[e].live /\ events[e].time = saw.time
            \/ \E v \in Workers : Applies(v, a, e)
            \/ Coming(a, e)
        <5>1. Open(a) /\ e # None
          BY <1>6, <3>0 DEF Open, OpenStates, AppointmentsAssumption
        <5> QED
          BY <3>0, <4>1, <5>1 DEF CalendarSound, TimeAgrees
      <4>3. \A v \in Workers : Applies(v, a, e) => v # w /\ Applies(v, a, e)'
        BY <1>2, <1>10 DEF Applies, Syncs
      <4>4. ~Coming(a, e)
        BY <1>1, <1>2, <1>3, <3>0 DEF Coming, On, PutsIt
      <4> QED
        BY <4>2, <4>3, <4>4
    <3> QED
      BY <3>1, <3>2, <3>4, <3>5 DEF CalendarSound
  <2> QED
    BY <2>1, <2>2 DEF MeetingSound
<1>17. \A b \in Appts : LeftAlone(b) \/ MeetingSound(b)'
  BY <1>15, <1>16
<1>18. Announced' /\ NextKept'
  BY <1>0, <1>4, <1>7, <1>8, <1>10, NotesStay
<1>19. /\ appt' \in [Appts -> Row] /\ events' \in [Events -> Event \cup {None}]
       /\ next' \in 0 .. MaxTime /\ place' \in Places
  BY <1>0, <1>4, <1>7 DEF MeetingsTyped, Notes
<1> QED
  BY <1>4, <1>8, <1>9, <1>10, <1>11, <1>12, <1>13, <1>17, <1>18, <1>19, StepKeeps

LEMMA GoogleFailsKeeps ==
  ASSUME MeetingsInv, JobsHeld, AppointmentsAssumption, NEW w \in Workers, GoogleFails(w)
  PROVE  MeetingsInv'
<1>0. MeetingsTyped /\ NextKept /\ Announced
  BY InvParts
<1>1. PICK op \in Work : op = work[w]
  BY <1>0, WorkOf
<1>2. /\ Acts(w) /\ op.at \in {"take out", "put in"} /\ op.kind \in Pushers /\ ~Syncs(w)
      /\ op \in Sending
  BY <1>0, <1>1, AtWork DEF GoogleFails
<1>3. PICK a \in Appts : a = op.appt
  BY <1>2 DEF Sending
<1>4. /\ appt' = [appt EXCEPT ![a].error = TRUE]
      /\ Overtakes(w, a) /\ work' = [work EXCEPT ![w] = After(op)]
      /\ CASE op.kind = "retry" -> JobThrows(a)
           [] op.kind = "hand"  -> Report(a)
           [] OTHER             -> TryAgain(a)
      /\ UNCHANGED <<events, connected, next, place, clock, stale, cut>>
  BY <1>1, <1>3 DEF GoogleFails, google
<1>5. Notes(a, appt[a].event, appt[a].owner)
  <2>0. appt[a] \in Row
    BY <1>0 DEF MeetingsTyped
  <2>1. PICK y : y = [appt[a] EXCEPT !.error = TRUE]
    OBVIOUS
  <2>2. /\ y \in Row /\ y.status = appt[a].status /\ y.time = appt[a].time /\ y.host = appt[a].host
        /\ y.setAt = appt[a].setAt /\ y.reminded = appt[a].reminded
        /\ y.event = appt[a].event /\ y.owner = appt[a].owner
    BY <2>0, <2>1 DEF Row
  <2>3. appt' = [appt EXCEPT ![a] = y]
    BY <1>0, <1>4, <2>1 DEF MeetingsTyped
  <2> QED
    BY <1>0, <2>2, <2>3 DEF Notes, MeetingsTyped
<1>6. stale \subseteq stale' /\ cut \subseteq cut' /\ (Fine(a)' => Fine(a))
  BY <1>4 DEF Fine
<1>7. /\ jobs' \subseteq Appts /\ spent' \subseteq Appts /\ a \in jobs' \cup spent'
      /\ \A b \in Appts \ {a} : NothingForgiven(w, b)
  <2>1. /\ jobs' \in {jobs, jobs \cup {a}, jobs \ {a}} /\ a \in jobs' \cup spent'
        /\ spent' \in {spent, spent \cup {a}, spent \ {a}}
    <3>1. CASE op.kind = "retry"
      <4>1. a \in jobs
        BY <1>1, <1>3, <3>1 DEF JobsHeld
      <4> QED
        BY <1>4, <3>1, <4>1 DEF JobThrows, EndJob, queue
    <3>2. CASE op.kind = "hand"
      BY <1>4, <3>2 DEF Report
    <3>3. CASE op.kind \notin {"retry", "hand"}
      BY <1>4, <3>3 DEF TryAgain
    <3> QED
      BY <3>1, <3>2, <3>3
  <2> QED
    BY <1>0, <1>4, <1>5, <2>1, OthersAreOvertaken DEF MeetingsTyped, NothingForgiven, Notes
<1>8. /\ work'[w] = After(op) /\ \A v \in Workers \ {w} : work'[v] = work[v]
      /\ HandSound(w)' /\ ~Puts(w)' /\ ~Saw(w)' /\ ~Syncs(w)' /\ ~Pushes(w, a)'
      /\ Refreshes(w) => Refreshes(w)'
      /\ \A b \in Appts \ {a} : WorkHolds(b)
  BY <1>0, <1>1, <1>2, <1>3, <1>4, <1>7, WhoLeaves
<1>9. After(op) \in Work
  BY <1>2, <1>3, AfterIsWork
<1>10. EventsKeep /\ MeetingSound(a)
  BY <1>4, InvParts DEF EventsKeep, EventsLast, Relisted
<1>11. \A v \in Workers : NewAlone(v)'
  <2>1. NewAlone(w)'
    BY <1>8 DEF NewAlone, New
  <2>2. ASSUME NEW v \in Workers \ {w}, New(v)
        PROVE  LET n == work[v].event IN
           /\ \A b \in Appts : appt'[b].event # n
           /\ (Saw(w)' => work'[w].saw.event # n) /\ (Puts(w)' => work'[w].event # n)
           /\ events'[n] = events[n] \/ events'[n].dirty = "new"
           /\ ~Syncs(w)'
    <3>1. \A b \in Appts : appt[b].event # work[v].event
      BY <2>2, InvParts DEF NewAlone
    <3> QED
      BY <1>4, <1>5, <1>8, <3>1 DEF Notes
  <2> QED
    BY <1>8, <2>1, <2>2, NewStays, InvParts
<1>12. \A y \in Events : Told(y)' => Told(y)
  BY <1>4, <1>8 DEF Told, Syncs
<1>13. \A b \in Appts \ {a} : LeftAlone(b)
  BY <1>4, <1>5, <1>6, <1>8, <1>12, OthersAreLeft DEF Notes
<1>14. MeetingSound(a)'
  <2>1. EventKnown(a)'
    BY <1>4, <1>5, <1>10 DEF MeetingSound, EventKnown, Known, Notes
  <2>2. ASSUME Fine(a)' PROVE CalendarSound(a)'
    <3>0. CalendarSound(a) /\ Fine(a)
      BY <1>6, <1>10, <2>2 DEF MeetingSound
    <3>1. OwnerKept(a)'
      BY <1>4, <1>5, <3>0 DEF CalendarSound, OwnerKept, Notes
    <3>2. OneLive(a)'
      <4>1. \A v \in Workers, y \in Events : On(v, a) /\ PutsIt(v, y) =>
              v # w /\ On(v, a)' /\ PutsIt(v, y)'
        BY <1>1, <1>2, <1>8 DEF On, PutsIt, Acts
      <4> QED
        BY <1>4, <1>5, <3>0, <4>1 DEF CalendarSound, OneLive, Live, Notes
    <3>3. Excused(a)' /\ Tried(a)'
      <4>1. appt'[a].error
        BY <1>0, <1>4 DEF MeetingsTyped, Row
      <4> QED
        BY <1>7, <4>1 DEF Excused, Tried, Owed
    <3>4. \A y \in Events : ~(On(w, a)' /\ PutsIt(w, y)')
      BY <1>8 DEF On, PutsIt, Puts
    <3>5. TimeAgrees(a)'
      <4>1. TimeAgrees(a)
        BY <3>0 DEF CalendarSound
      <4> QED
        BY <1>0, <1>2, <1>4, <1>5, <1>8, <1>12, <3>3, <3>4, <4>1, TimeStillAgrees DEF Notes
    <3> QED
      BY <3>1, <3>2, <3>3, <3>5 DEF CalendarSound, ErrorOwed, LiveOpen, HostOwns
  <2> QED
    BY <2>1, <2>2 DEF MeetingSound
<1>15. \A b \in Appts : LeftAlone(b) \/ MeetingSound(b)'
  BY <1>13, <1>14
<1>16. Announced' /\ NextKept'
  BY <1>0, <1>4, <1>5, <1>6, <1>8, NotesStay
<1>17. /\ appt' \in [Appts -> Row] /\ events' \in [Events -> Event \cup {None}]
       /\ next' \in 0 .. MaxTime /\ place' \in Places
  BY <1>0, <1>4, <1>5 DEF MeetingsTyped, Notes
<1> QED
  BY <1>4, <1>6, <1>7, <1>8, <1>9, <1>10, <1>11, <1>15, <1>16, <1>17, StepKeeps

-----------------------------------------------------------------------------
(* A sync.                                                                 *)

LEMMA SyncTurns ==
  ASSUME MeetingsInv, NEW w \in Workers, NEW x \in Work, work' = [work EXCEPT ![w] = x],
         UNCHANGED <<appt, connected, jobs, spent, next, place, clock, old, stale, cut>>,
         events' \in [Events -> Event \cup {None}], EventsLast,
         \A e \in Events : events[e] = None => events'[e] = None,
         \A e \in Events : Told(e)' => ToldAlready(e),
         \A v \in Workers \ {w} : ~Syncs(v),
         HandSound(w)', \A v \in Workers \ {w} : NewAlone(v)',
         work[w].kind = "idle" \/ (Syncs(w) /\ work[w].at = "list"),
         x.kind \in {"idle", "sync"}
  PROVE  MeetingsInv'
<1>0. MeetingsTyped /\ NextKept /\ Announced
  BY InvParts
<1>1. work' \in [Workers -> Work] /\ work'[w] = x /\ \A v \in Workers \ {w} : work'[v] = work[v]
  BY <1>0, WorkBecomes
<1>2. MeetingsTyped'
  BY <1>0, <1>1 DEF MeetingsTyped
<1>3. \A v \in Workers \ {w} : ~Syncs(v)'
  BY <1>1 DEF Syncs
<1>4. OneSync'
  BY <1>3 DEF OneSync
<1>5. \A v \in Workers : HandSound(v)'
  BY <1>0, <1>1, HandStays, InvParts
<1>6. NewAlone(w)'
  BY <1>1 DEF NewAlone, New, Puts, Acts
<1>7. ASSUME NEW a \in Appts PROVE MeetingSound(a)'
  <2>1. ~Pushes(w, a) /\ ~On(w, a)' /\ \A e \in Events : ~Applies(w, a, e)
    BY <1>1 DEF Pushes, On, Acts, Applies, Syncs
  <2>2. WorkHolds(a)
    BY <1>1, <2>1, HoldsForStrangers
  <2>3. SameMeeting(a) /\ (Fine(a)' => Fine(a))
    BY DEF SameMeeting, Open, Fine
  <2>4. \A e \in Events : Live(e)' => Live(e)
    BY DEF Live, EventsLast
  <2> QED
    BY <1>0, <2>2, <2>3, <2>4, MeetingStays, InvParts
<1>8. Announced' /\ FirstUpcoming' = FirstUpcoming
  BY <1>0, AnnouncedStill
<1>9. NextKept'
  <2>1. ~Refreshes(w)
    BY DEF Refreshes
  <2> QED
    BY <1>0, <1>1, <1>8, <2>1, NextStays
<1> QED
  BY <1>2, <1>4, <1>5, <1>6, <1>7, <1>8, <1>9 DEF MeetingsInv

LEMMA SyncListKeeps ==
  ASSUME MeetingsInv, AppointmentsAssumption, NEW w \in Workers, NEW h \in Hosts, SyncList(w, h)
  PROVE  MeetingsInv'
<1>0. MeetingsTyped /\ None \notin Event
  BY InvParts DEF AppointmentsAssumption
<1>1. PICK seen : seen = {e \in Events : events[e] # None /\ events[e].owner = h /\ events[e].dirty # "no"}
  OBVIOUS
<1>2. PICK f : f = [e \in seen |-> events[e]]
  OBVIOUS
<1>3. PICK x : x = [kind |-> "sync", at |-> "list", host |-> h, todo |-> seen, listed |-> f]
  OBVIOUS
<1>4. /\ work[w] = Idle /\ \A v \in Workers : work[v].kind # "sync"
      /\ events' = [e \in Events |-> IF e \in seen THEN [events[e] EXCEPT !.dirty = "listed"]
                                       ELSE events[e]]
      /\ work' = [work EXCEPT ![w] = x]
      /\ UNCHANGED <<appt, connected, jobs, spent, next, place, clock, old, stale, cut>>
  BY <1>1, <1>2, <1>3 DEF SyncList, bounds, queue, ghosts
<1>5. \A e \in seen : /\ e \in Events /\ events[e] \in Event /\ events[e] # None /\ events[e].owner = h
                      /\ events[e].dirty # "no"
  BY <1>0, <1>1 DEF MeetingsTyped
<1>6. \A e \in seen : /\ events'[e] \in Event /\ events'[e].of = events[e].of
                      /\ events'[e].owner = events[e].owner /\ events'[e].live = events[e].live
                      /\ events'[e].time = events[e].time /\ events'[e].dirty = "listed"
  BY <1>4, <1>5 DEF Event
<1>7. \A e \in Events \ seen : events'[e] = events[e]
  BY <1>4
<1>8. events' \in [Events -> Event \cup {None}]
  <2>1. DOMAIN events' = Events /\ events' = [e \in Events |-> events'[e]]
    BY <1>4
  <2>2. \A e \in Events : events'[e] \in Event \cup {None}
    BY <1>0, <1>6, <1>7 DEF MeetingsTyped
  <2> QED
    BY <2>1, <2>2
<1>9. x \in Work /\ x.kind = "sync"
  <2>1. f \in [seen -> Event] /\ seen \in SUBSET Events
    BY <1>2, <1>5
  <2>2. f \in Lists
    BY <2>1 DEF Lists
  <2> QED
    BY <1>3, <2>1, <2>2 DEF Work, Listing
<1>10. /\ x.at = "list" /\ x.host = h /\ x.todo = seen /\ x.listed = f /\ DOMAIN f = seen
       /\ \A e \in seen : f[e] = events[e]
  BY <1>2, <1>3
<1>11. work'[w] = x /\ \A v \in Workers \ {w} : work'[v] = work[v]
  BY <1>0, <1>4, <1>9, WorkBecomes
<1>12. \A v \in Workers : ~Syncs(v)
  BY <1>4 DEF Syncs
<1>13. \A v \in Workers : Syncs(v)' => v = w
  BY <1>11, <1>12 DEF Syncs
<1>14. EventsLast /\ \A e \in Events : events[e] = None => events'[e] = None
  BY <1>0, <1>5, <1>6, <1>7 DEF EventsLast
<1>15. ASSUME NEW e \in Events, Told(e)' PROVE ToldAlready(e)
  <2>1. events'[e].dirty = "no"
    BY <1>10, <1>11, <1>13, <1>15 DEF Told
  <2>2. e \notin seen
    BY <1>6, <2>1
  <2> QED
    BY <1>7, <2>1, <2>2 DEF ToldAlready, Told
<1>16. HandSound(w)'
  <2>1. SyncSound(w)'
    BY <1>0, <1>5, <1>6, <1>10, <1>11 DEF SyncSound, Live
  <2> QED
    BY <1>9, <1>11, <2>1 DEF HandSound, CommitSound, MoveSound, PushSound, PutSound,
      Saw, Puts, Acts
<1>17. ASSUME NEW v \in Workers \ {w} PROVE NewAlone(v)'
  <2> SUFFICES ASSUME New(v)' PROVE NewAlone(v)'
    BY DEF NewAlone
  <2>1. work'[v] = work[v] /\ New(v)
    BY <1>11 DEF New, Puts, Acts
  <2>e. PICK e \in Events : e = work[v].event
    BY <1>0, <2>1, WorkOf, Shapes DEF New, Puts, Acts, Putting
  <2>2. /\ \A a \in Appts : appt[a].event # e
        /\ \A u \in Workers \ {v} : (Saw(u) => work[u].saw.event # e) /\ (Puts(u) => work[u].event # e)
        /\ events[e].dirty # "no"
    BY <2>1, <2>e, InvParts DEF NewAlone
  <2>3. \A u \in Workers : (Saw(u)' => Saw(u) /\ work'[u] = work[u])
                           /\ (Puts(u)' => Puts(u) /\ work'[u] = work[u])
    BY <1>9, <1>11 DEF Saw, Puts, Acts
  <2>4. events'[e].dirty # "no"
    BY <1>6, <1>7, <2>2
  <2>5. \A u \in Workers : Syncs(u)' /\ e \in DOMAIN work'[u].listed => e \in work'[u].todo
    BY <1>10, <1>11, <1>13
  <2> QED
    BY <1>4, <2>1, <2>e, <2>2, <2>3, <2>4, <2>5 DEF NewAlone
<1>18. work[w].kind = "idle"
  BY <1>4 DEF Idle
<1> QED
  BY <1>4, <1>8, <1>9, <1>12, <1>14, <1>15, <1>16, <1>17, <1>18, SyncTurns

LEMMA SyncCommitKeeps ==
  ASSUME MeetingsInv, AppointmentsAssumption, NEW w \in Workers, SyncCommit(w)
  PROVE  MeetingsInv'
<1>0. MeetingsTyped /\ None \notin Event
  BY InvParts DEF AppointmentsAssumption
<1>1. PICK op \in Work : op = work[w]
  BY <1>0, WorkOf
<1>2. /\ op.kind = "sync" /\ op.at = "list" /\ op.todo = {}
      /\ events' = [e \in Events |-> IF e \in DOMAIN op.listed /\ events[e].dirty = "listed"
                                       THEN [events[e] EXCEPT !.dirty = "no"] ELSE events[e]]
      /\ work' = [work EXCEPT ![w] = Idle]
      /\ UNCHANGED <<appt, connected, jobs, spent, next, place, clock, old, stale, cut>>
  BY <1>1 DEF SyncCommit, bounds, queue, ghosts
<1>3. Syncs(w) /\ SyncSound(w) /\ DOMAIN op.listed \subseteq Events
  BY <1>1, <1>2, InvParts, Shapes, ListsAre DEF Syncs, HandSound, Listing
<1>4. PICK through : through = {e \in DOMAIN op.listed : events[e].dirty = "listed"}
  OBVIOUS
<1>5. \A e \in through : /\ e \in Events /\ events[e] \in Event /\ events[e] # None
                         /\ e \in DOMAIN op.listed /\ events[e].dirty = "listed"
  BY <1>0, <1>1, <1>3, <1>4 DEF SyncSound, MeetingsTyped
<1>6. \A e \in through : /\ events'[e] \in Event /\ events'[e].of = events[e].of
                         /\ events'[e].owner = events[e].owner /\ events'[e].live = events[e].live
                         /\ events'[e].time = events[e].time /\ events'[e].dirty = "no"
  BY <1>2, <1>5 DEF Event
<1>7. \A e \in Events \ through : events'[e] = events[e]
  BY <1>2, <1>4
<1>8. events' \in [Events -> Event \cup {None}]
  <2>1. DOMAIN events' = Events /\ events' = [e \in Events |-> events'[e]]
    BY <1>2
  <2>2. \A e \in Events : events'[e] \in Event \cup {None}
    BY <1>0, <1>6, <1>7 DEF MeetingsTyped
  <2> QED
    BY <2>1, <2>2
<1>9. Idle \in Work /\ Idle.kind = "idle"
  BY DEF Work, Idle
<1>10. work'[w] = Idle /\ \A v \in Workers \ {w} : work'[v] = work[v]
  BY <1>0, <1>2, <1>9, WorkBecomes
<1>11. \A v \in Workers \ {w} : ~Syncs(v)
  BY <1>3, InvParts DEF OneSync
<1>12. \A v \in Workers : ~Syncs(v)'
  BY <1>9, <1>10, <1>11 DEF Syncs
<1>13. EventsLast /\ \A e \in Events : events[e] = None => events'[e] = None
  BY <1>0, <1>5, <1>6, <1>7 DEF EventsLast
<1>14. ASSUME NEW e \in Events, Told(e)' PROVE ToldAlready(e)
  <2>1. events'[e].dirty = "no"
    BY <1>12, <1>14 DEF Told
  <2>2. CASE e \in through
    BY <1>1, <1>2, <1>3, <1>5, <1>6, <2>2 DEF ToldAlready, Told
  <2>3. CASE e \notin through
    BY <1>7, <2>1, <2>3 DEF ToldAlready, Told
  <2> QED
    BY <2>2, <2>3
<1>15. HandSound(w)'
  BY <1>9, <1>10 DEF HandSound, CommitSound, MoveSound, PushSound, PutSound, SyncSound,
    Saw, Puts,
    Syncs, Acts
<1>16. ASSUME NEW v \in Workers \ {w} PROVE NewAlone(v)'
  <2> SUFFICES ASSUME New(v)' PROVE NewAlone(v)'
    BY DEF NewAlone
  <2>1. work'[v] = work[v] /\ New(v)
    BY <1>10 DEF New, Puts, Acts
  <2>e. PICK e \in Events : e = work[v].event
    BY <1>0, <2>1, WorkOf, Shapes DEF New, Puts, Acts, Putting
  <2>2. /\ \A a \in Appts : appt[a].event # e
        /\ \A u \in Workers \ {v} : (Saw(u) => work[u].saw.event # e) /\ (Puts(u) => work[u].event # e)
        /\ events[e].dirty # "no"
        /\ e \in DOMAIN op.listed /\ events[e].dirty = "listed" => e \in op.todo
    BY <1>1, <1>3, <2>1, <2>e, InvParts DEF NewAlone
  <2>3. \A u \in Workers : (Saw(u)' => Saw(u) /\ work'[u] = work[u])
                           /\ (Puts(u)' => Puts(u) /\ work'[u] = work[u])
    BY <1>9, <1>10 DEF Saw, Puts, Acts
  <2>4. e \notin through
    BY <1>2, <1>5, <2>2
  <2>5. events'[e].dirty # "no"
    BY <1>7, <2>2, <2>4
  <2> QED
    BY <1>2, <1>12, <2>1, <2>e, <2>2, <2>3, <2>5 DEF NewAlone
<1> QED
  BY <1>1, <1>2, <1>3, <1>8, <1>9, <1>11, <1>13, <1>14, <1>15, <1>16, SyncTurns

LEMMA SyncFindKeeps ==
  ASSUME MeetingsInv, AppointmentsAssumption, NEW w \in Workers, NEW e \in Events, SyncFind(w, e)
  PROVE  MeetingsInv'
<1>0. MeetingsTyped /\ NextKept /\ Announced /\ None \notin Events
  BY InvParts DEF AppointmentsAssumption
<1>1. PICK op \in Work : op = work[w]
  BY <1>0, WorkOf
<1>2. /\ op.kind = "sync" /\ op.at = "list" /\ e \in op.todo
      /\ UNCHANGED <<appt, events, connected, jobs, spent, next, place, clock, old, stale, cut>>
  BY <1>1 DEF SyncFind, google, bounds, queue, ghosts
<1>3. /\ op \in Listing /\ Syncs(w) /\ SyncSound(w) /\ ~Acts(w) /\ ~Refreshes(w)
  BY <1>1, <1>2, InvParts, Shapes DEF Syncs, HandSound, Acts, Refreshes
<1>4. /\ op.host \in Hosts /\ op.todo \subseteq Events /\ op.listed \in Lists
      /\ op.todo \subseteq DOMAIN op.listed /\ DOMAIN op.listed \subseteq Events
  BY <1>1, <1>3, ListsAre DEF Listing, SyncSound
<1>5. EventsKeep
  BY <1>2 DEF EventsKeep, EventsLast, Relisted
<1>6. \A v \in Workers \ {w} : ~Syncs(v)
  BY <1>3, InvParts DEF OneSync
<1>7. ASSUME NEW x \in Work, work' = [work EXCEPT ![w] = x], x.kind = "sync",
             x.todo = op.todo \ {e}, DOMAIN x.listed \subseteq DOMAIN op.listed,
             HandSound(w)',
             \A v \in Workers \ {w} : New(v) /\ e = work[v].event => e \notin DOMAIN x.listed,
             \A b \in Appts : e = appt[b].event => LeftAlone(b) \/ TimeAgrees(b)' \/ ~Fine(b)
      PROVE  MeetingsInv'
  <2>1. work'[w] = x /\ \A v \in Workers \ {w} : work'[v] = work[v]
    BY <1>0, <1>7, WorkBecomes
  <2>2. ~Acts(w)' /\ ~Puts(w)' /\ ~Saw(w)'
    BY <1>7, <2>1 DEF Acts, Puts, Saw
  <2>3. NewAlone(w)'
    BY <2>2 DEF NewAlone, New
  <2>4. ASSUME NEW v \in Workers \ {w}, New(v)
        PROVE  LET n == work[v].event IN
           /\ \A b \in Appts : appt'[b].event # n
           /\ (Saw(w)' => work'[w].saw.event # n) /\ (Puts(w)' => work'[w].event # n)
           /\ events'[n] = events[n] \/ events'[n].dirty = "new"
           /\ Syncs(w)' /\ n \in DOMAIN work'[w].listed =>
                Syncs(w) /\ n \in DOMAIN work[w].listed /\ (n \in work[w].todo => n \in work'[w].todo)
    <3>1. \A b \in Appts : appt[b].event # work[v].event
      BY <2>4, InvParts DEF NewAlone
    <3>2. work[v].event \in DOMAIN x.listed => work[v].event # e
      BY <1>7, <2>4
    <3> QED
      BY <1>1, <1>2, <1>3, <1>7, <2>1, <2>2, <3>1, <3>2
  <2>5. \A v \in Workers : NewAlone(v)'
    BY <2>1, <2>3, <2>4, NewStays, InvParts
  <2>6. \A b \in Appts : WorkHolds(b)
    <3>1. ASSUME NEW b \in Appts
          PROVE  ~Pushes(w, b) /\ ~On(w, b)' /\ \A y \in Events : ~Applies(w, b, y)
      BY <1>1, <1>2, <1>7, <2>1 DEF Pushes, On, Acts, Applies
    <3> QED
      BY <1>2, <2>1, <3>1, HoldsForStrangers
  <2>7. ASSUME NEW b \in Appts PROVE LeftAlone(b) \/ MeetingSound(b)'
    <3>1. SameMeeting(b) /\ (Fine(b)' => Fine(b))
      BY <1>2 DEF SameMeeting, Fine, Open
    <3>2. \A y \in Events : Live(y)' => Live(y)
      BY <1>2 DEF Live
    <3>3. CASE appt[b].event # e
      <4>1. ASSUME NEW y \in Events, y = appt[b].event, Told(y)' PROVE ToldAlready(y)
        <5>1. y # e
          BY <3>3, <4>1
        <5>2. Told(y)
          <6>1. CASE events[y].dirty = "no"
            BY <6>1 DEF Told
          <6>2. CASE events[y].dirty # "no"
            <7>1. PICK u \in Workers : Syncs(u)' /\ y \in DOMAIN work'[u].listed \ work'[u].todo
              BY <1>2, <4>1, <6>2 DEF Told
            <7>2. u = w
              BY <1>6, <2>1, <7>1 DEF Syncs
            <7>3. y \in DOMAIN work[w].listed \ work[w].todo
              BY <1>1, <1>7, <2>1, <5>1, <7>1, <7>2
            <7> QED
              BY <1>2, <1>3, <4>1, <6>2, <7>3 DEF Told
          <6> QED
            BY <6>1, <6>2
        <5> QED
          BY <1>2, <5>2 DEF ToldAlready
      <4> QED
        BY <2>6, <3>1, <3>2, <4>1 DEF LeftAlone
    <3>4. CASE appt[b].event = e
      <4>1. CASE LeftAlone(b)
        BY <4>1
      <4>2. CASE TimeAgrees(b)'
        BY <1>0, <1>2, <1>5, <2>6, <3>1, <3>2, <4>2, MeetingStays, InvParts
          DEF EventsKeep
      <4>3. CASE ~Fine(b)
        BY <1>2, <4>3, InvParts DEF MeetingSound, EventKnown, Known, Fine
      <4> QED
        BY <1>7, <3>4, <4>1, <4>2, <4>3
    <3> QED
      BY <3>3, <3>4
  <2>8. Announced' /\ NextKept'
    <3>1. Announced' /\ FirstUpcoming' = FirstUpcoming
      BY <1>0, <1>2, AnnouncedStill
    <3> QED
      BY <1>0, <1>2, <1>3, <2>1, <3>1, NextStays
  <2>9. /\ appt' \in [Appts -> Row] /\ events' \in [Events -> Event \cup {None}]
        /\ jobs' \subseteq Appts /\ spent' \subseteq Appts
        /\ next' \in 0 .. MaxTime /\ place' \in Places
    BY <1>0, <1>2 DEF MeetingsTyped
  <2>10. Syncs(w)' => Syncs(w)
    BY <1>3
  <2> QED
    BY <1>2, <1>5, <1>7, <2>5, <2>7, <2>8, <2>9, <2>10, StepKeeps
<1>8. ASSUME NEW x \in Work, work' = [work EXCEPT ![w] = x], x.kind = "sync"
      PROVE  work'[w] = x /\ \A v \in Workers \ {w} : work'[v] = work[v]
  BY <1>0, <1>8, WorkBecomes
<1> DEFINE Differs(a) == ~op.listed[e].live \/ op.listed[e].time # appt[a].time
<1>9. ASSUME NEW a \in Appts, Finding(a, op, e),
             work' = [work EXCEPT ![w] = [kind |-> "sync", at |-> "apply",
                                    host |-> op.host, todo |-> op.todo \ {e},
                                    listed |-> op.listed, appt |-> a, event |-> e,
                                    saw |-> appt[a]]]
      PROVE  MeetingsInv'
  <2>1. PICK x : x = [kind |-> "sync", at |-> "apply", host |-> op.host, todo |-> op.todo \ {e},
                      listed |-> op.listed, appt |-> a, event |-> e, saw |-> appt[a]]
    OBVIOUS
  <2>2. appt[a] \in Row
    BY <1>0 DEF MeetingsTyped
  <2>3. /\ x \in Applying /\ x.kind = "sync" /\ x.at = "apply" /\ x.host = op.host
        /\ x.todo = op.todo \ {e} /\ x.listed = op.listed /\ x.appt = a /\ x.event = e
        /\ x.saw = appt[a]
    BY <1>4, <2>1, <2>2 DEF Applying
  <2>4. x \in Work /\ work' = [work EXCEPT ![w] = x]
    BY <1>9, <2>1, <2>3 DEF Work
  <2>5. work'[w] = x
    BY <1>8, <2>3, <2>4
  <2>6. appt[a].event = e /\ appt[a].status \in OpenStates
    BY <1>9 DEF Finding, Open, OpenStates
  <2>7. HandSound(w)'
    <3>1. SyncSound(w)'
      BY <1>1, <1>2, <1>3, <1>4, <2>3, <2>5, <2>6 DEF SyncSound, Live
    <3> QED
      BY <2>3, <2>5, <3>1 DEF HandSound, CommitSound, MoveSound, PushSound, PutSound,
        Saw, Puts, Acts
  <2>8. \A v \in Workers \ {w} : ~(New(v) /\ e = work[v].event)
    BY <2>6, InvParts DEF NewAlone
  <2>9. ASSUME NEW b \in Appts, e = appt[b].event PROVE TimeAgrees(b)'
    <3>1. e # None
      BY <1>0
    <3>2. b = a
      BY <2>6, <2>9, <3>1, InvParts DEF MeetingSound, EventKnown, Known
    <3>3. Applies(w, a, e)'
      BY <2>3, <2>5 DEF Applies, Syncs
    <3>4. appt'[b].event = e
      BY <1>2, <2>9
    <3> QED
      BY <3>2, <3>3, <3>4 DEF TimeAgrees
  <2> QED
    BY <1>7, <2>3, <2>4, <2>7, <2>8, <2>9
<1>10. ASSUME NEW f, \A a \in Appts : Finding(a, op, e) => ~Differs(a),
              work' = [work EXCEPT ![w].todo = @ \ {e}, ![w].listed = f],
              f = IF \E v \in Workers : Pushing(v, "put") /\ work[v].event = e
                    THEN Restrict(op.listed, DOMAIN op.listed \ {e}) ELSE op.listed
       PROVE  MeetingsInv'
  <2>1. /\ f \in Lists /\ DOMAIN f \subseteq DOMAIN op.listed /\ op.todo \ {e} \subseteq DOMAIN f
        /\ \A y \in DOMAIN f : f[y] = op.listed[y]
        /\ (\E v \in Workers : Pushing(v, "put") /\ work[v].event = e) => e \notin DOMAIN f
    <3>1. CASE \E v \in Workers : Pushing(v, "put") /\ work[v].event = e
      <4>1. f = Restrict(op.listed, DOMAIN op.listed \ {e})
        BY <1>10, <3>1
      <4>2. PICK D \in SUBSET DOMAIN op.listed : D = DOMAIN op.listed \ {e}
        OBVIOUS
      <4>3. f \in Lists /\ DOMAIN f = D /\ \A y \in D : f[y] = op.listed[y]
        BY <1>4, <4>1, <4>2, ListsAre
      <4> QED
        BY <1>4, <4>2, <4>3
    <3>2. CASE ~\E v \in Workers : Pushing(v, "put") /\ work[v].event = e
      BY <1>4, <1>10, <3>2
    <3> QED
      BY <3>1, <3>2
  <2>2. PICK x : x = [op EXCEPT !.todo = op.todo \ {e}, !.listed = f]
    OBVIOUS
  <2>3. /\ x \in Listing /\ x.kind = "sync" /\ x.at = "list" /\ x.host = op.host
        /\ x.todo = op.todo \ {e} /\ x.listed = f
    <3>1. op = [kind |-> op.kind, at |-> op.at, host |-> op.host, todo |-> op.todo,
                listed |-> op.listed]
      BY <1>3 DEF Listing
    <3>2. x = [kind |-> op.kind, at |-> op.at, host |-> op.host, todo |-> op.todo \ {e},
               listed |-> f]
      BY <2>2, <3>1
    <3> QED
      BY <1>2, <1>4, <2>1, <3>2 DEF Listing
  <2>4. x \in Work /\ work' = [work EXCEPT ![w] = x]
    BY <1>0, <1>1, <1>10, <2>2, <2>3 DEF Work, MeetingsTyped
  <2>5. work'[w] = x /\ \A v \in Workers \ {w} : work'[v] = work[v]
    BY <1>8, <2>3, <2>4
  <2>6. HandSound(w)'
    <3>1. SyncSound(w)'
      BY <1>1, <1>2, <1>3, <1>4, <2>1, <2>3, <2>5 DEF SyncSound, Live
    <3> QED
      BY <2>3, <2>5, <3>1 DEF HandSound, CommitSound, MoveSound, PushSound, PutSound,
        Saw, Puts, Acts
  <2>7. \A v \in Workers \ {w} : New(v) /\ e = work[v].event => e \notin DOMAIN f
    BY <2>1 DEF New, Puts, Acts, Pushing
  <2>8. ASSUME NEW b \in Appts, e = appt[b].event, Fine(b) PROVE TimeAgrees(b)'
    <3> SUFFICES ASSUME Open(b), Told(e)'
                 PROVE  \/ events[e].live /\ events[e].time = appt[b].time
                        \/ \E v \in Workers : Applies(v, b, e)'
                        \/ Coming(b, e)'
      BY <1>2, <2>8 DEF TimeAgrees, Open
    <3>1. CalendarSound(b) /\ e # None
      BY <1>0, <2>8, InvParts DEF MeetingSound
    <3>2. CASE Told(e)
      <4>1. \/ events[e].live /\ events[e].time = appt[b].time
            \/ \E v \in Workers : Applies(v, b, e)
            \/ Coming(b, e)
        BY <2>8, <3>1, <3>2 DEF CalendarSound, TimeAgrees
      <4>2. ~Pushes(w, b) /\ ~On(w, b)' /\ \A y \in Events : ~Applies(w, b, y)
        BY <1>1, <1>2, <2>3, <2>5 DEF Pushes, On, Acts, Applies
      <4>3. WorkHolds(b)
        BY <1>2, <2>5, <4>2, HoldsForStrangers
      <4> QED
        BY <4>1, <4>3 DEF WorkHolds
    <3>3. CASE ~Told(e)
      <4>1. events[e].dirty = "listed"
        BY <1>2, <3>3 DEF Told
      <4>2. e \in DOMAIN op.listed
        BY <1>2, <1>4
      <4>3. /\ events[e].live = op.listed[e].live /\ events[e].time = op.listed[e].time
            /\ events[e].owner = op.host
        BY <1>1, <1>3, <4>1, <4>2 DEF SyncSound
      <4>4. appt[b].owner = op.host
        BY <2>8, <3>1, <4>3 DEF CalendarSound, OwnerKept
      <4>5. Finding(b, op, e)
        BY <2>8, <4>4 DEF Finding
      <4> QED
        BY <1>10, <4>3, <4>5
    <3> QED
      BY <3>2, <3>3
  <2> QED
    BY <1>7, <2>1, <2>3, <2>4, <2>6, <2>7, <2>8
<1>11. CASE \E a \in Appts : Finding(a, op, e) /\ Differs(a)
  <2>1. \E a \in Appts : /\ Finding(a, op, e)
                         /\ work' = [work EXCEPT ![w] = [kind |-> "sync", at |-> "apply",
                                    host |-> op.host, todo |-> op.todo \ {e},
                                    listed |-> op.listed, appt |-> a, event |-> e,
                                    saw |-> appt[a]]]
    BY <1>1, <1>11 DEF SyncFind
  <2> QED
    BY <1>9, <2>1
<1>12. CASE ~\E a \in Appts : Finding(a, op, e) /\ Differs(a)
  <2>1. work' = [work EXCEPT ![w].todo = @ \ {e}, ![w].listed =
                       IF \E v \in Workers : Pushing(v, "put") /\ work[v].event = e
                         THEN Restrict(@, DOMAIN @ \ {e}) ELSE @]
    BY <1>1, <1>12 DEF SyncFind
  <2>2. PICK f : f = IF \E v \in Workers : Pushing(v, "put") /\ work[v].event = e
                    THEN Restrict(op.listed, DOMAIN op.listed \ {e}) ELSE op.listed
    OBVIOUS
  <2>3. work' = [work EXCEPT ![w].todo = @ \ {e}, ![w].listed = f]
    BY <1>0, <1>1, <1>3, <2>1, <2>2 DEF MeetingsTyped, Listing
  <2> QED
    BY <1>10, <1>12, <2>2, <2>3
<1> QED
  BY <1>11, <1>12

LEMMA SyncApplyKeeps ==
  ASSUME MeetingsInv, Newest, AppointmentsAssumption, NEW w \in Workers, SyncApply(w)
  PROVE  MeetingsInv'
<1>0. MeetingsTyped /\ NextKept /\ Announced /\ None \notin Events
  BY InvParts DEF AppointmentsAssumption
<1>1. PICK op \in Work : op = work[w]
  BY <1>0, WorkOf
<1>2. op.kind = "sync" /\ op.at = "apply"
  BY <1>1 DEF SyncApply
<1>3. /\ op \in Applying /\ Syncs(w) /\ SyncSound(w) /\ ~Acts(w) /\ ~New(w)
  BY <1>1, <1>2, InvParts, Shapes DEF Syncs, HandSound, Acts, New, Puts
<1>4. PICK a \in Appts, saw \in Row, e \in Events : a = op.appt /\ saw = op.saw /\ e = op.event
  BY <1>3 DEF Applying
<1>5. /\ e \in DOMAIN op.listed /\ op.listed[e] \in Event
      /\ saw.event = e /\ saw.status \in OpenStates /\ events[e].dirty # "no"
      /\ ~op.listed[e].live => ~Live(e)
      /\ events[e].dirty = "listed" => events[e].live = op.listed[e].live
                                       /\ events[e].time = op.listed[e].time
  <2>1. e \in DOMAIN op.listed
    BY <1>1, <1>2, <1>3, <1>4 DEF SyncSound
  <2>2. op.listed \in Lists
    BY <1>3 DEF Applying
  <2> QED
    BY <1>1, <1>2, <1>3, <1>4, <2>1, <2>2, ListsAre DEF SyncSound
<1>l. PICK listed \in Event : listed = op.listed[e]
  BY <1>5
<1>6. PICK y : y = IF listed.live
       THEN [appt[a] EXCEPT !.time = listed.time, !.setAt = clock, !.reminded = FALSE,
           !.status = "booked"]
       ELSE [appt[a] EXCEPT !.status = "cancelled"]
  OBVIOUS
<1>7. /\ y \in Row /\ y.host = appt[a].host /\ y.event = appt[a].event /\ y.owner = appt[a].owner
      /\ y.error = appt[a].error
      /\ listed.live => y.status = "booked" /\ y.time = listed.time /\ y.setAt = clock
      /\ ~listed.live => y.status = "cancelled"
  <2>1. appt[a] \in Row /\ clock \in 0 .. MaxTime /\ listed.time \in Times
    BY <1>0, <1>l DEF MeetingsTyped, Event
  <2>2. CASE listed.live
    BY <1>6, <2>1, <2>2 DEF Row, Status
  <2>3. CASE ~listed.live
    BY <1>6, <2>1, <2>3 DEF Row, Status
  <2> QED
    BY <2>2, <2>3
<1>8. PICK x : x = [op EXCEPT !.at = "refresh"]
  OBVIOUS
<1>9. /\ x \in Applying /\ x.kind = "sync" /\ x.at = "refresh" /\ x.host = op.host
      /\ x.todo = op.todo /\ x.listed = op.listed /\ x.event = e
  <2>1. op = [kind |-> op.kind, at |-> op.at, host |-> op.host, todo |-> op.todo,
              listed |-> op.listed, appt |-> op.appt, event |-> op.event, saw |-> op.saw]
    BY <1>3 DEF Applying
  <2>2. x = [kind |-> op.kind, at |-> "refresh", host |-> op.host, todo |-> op.todo,
              listed |-> op.listed, appt |-> op.appt, event |-> op.event, saw |-> op.saw]
    BY <1>8, <2>1
  <2> QED
    BY <1>2, <1>3, <1>4, <2>2 DEF Applying
<1>10. /\ appt' = [appt EXCEPT ![a] = y]
       /\ Noted(w, a) /\ old \ {w} \subseteq old' /\ work' = [work EXCEPT ![w] = x]
       /\ UNCHANGED <<events, connected, jobs, spent, next, place, clock, cut>>
  <2>1. appt' = [appt EXCEPT ![a] = IF listed.live
       THEN [@ EXCEPT !.time = listed.time, !.setAt = clock, !.reminded = FALSE,
           !.status = "booked"]
       ELSE [@ EXCEPT !.status = "cancelled"]]
    BY <1>1, <1>4, <1>l DEF SyncApply
  <2>2. appt' = [appt EXCEPT ![a] = y]
    BY <1>0, <1>6, <2>1 DEF MeetingsTyped
  <2>3. work' = [work EXCEPT ![w] = x]
    BY <1>0, <1>1, <1>8 DEF SyncApply, MeetingsTyped
  <2> QED
    BY <1>1, <1>4, <2>2, <2>3, OthersAreOvertaken DEF SyncApply, google, bounds, queue
<1>11. x \in Work
  BY <1>9 DEF Work
<1>12. work'[w] = x /\ \A v \in Workers \ {w} : work'[v] = work[v]
  BY <1>0, <1>10, <1>11, WorkBecomes
<1>13. appt' \in [Appts -> Row] /\ appt'[a] = y /\ \A b \in Appts \ {a} : appt'[b] = appt[b]
  BY <1>0, <1>7, <1>10 DEF MeetingsTyped
<1>14. stale \subseteq stale' /\ cut \subseteq cut' /\ (Fine(a)' => Fine(a) /\ appt[a] = saw)
  <2>1. Reads(w, a)
    BY <1>1, <1>2, <1>3, <1>4, WhoReads DEF Reads
  <2> QED
    BY <1>1, <1>4, <1>10, <2>1, SawTheRow
<1>15. EventsKeep
  BY <1>10 DEF EventsKeep, EventsLast, Relisted
<1>16. ~Acts(w)' /\ ~Puts(w)' /\ ~Saw(w)'
  BY <1>9, <1>12 DEF Acts, Puts, Saw
<1>17. HandSound(w)'
  <2>1. SyncSound(w)'
    BY <1>1, <1>2, <1>3, <1>4, <1>9, <1>10, <1>12 DEF SyncSound, Live
  <2> QED
    BY <1>16, <2>1 DEF HandSound, CommitSound, MoveSound, PushSound, PutSound
<1>18. \A v \in Workers : NewAlone(v)'
  <2>1. NewAlone(w)'
    BY <1>16 DEF NewAlone, New
  <2>2. ASSUME NEW v \in Workers \ {w}, New(v)
        PROVE  LET n == work[v].event IN
           /\ \A b \in Appts : appt'[b].event # n
           /\ (Saw(w)' => work'[w].saw.event # n) /\ (Puts(w)' => work'[w].event # n)
           /\ events'[n] = events[n] \/ events'[n].dirty = "new"
           /\ Syncs(w)' /\ n \in DOMAIN work'[w].listed =>
                Syncs(w) /\ n \in DOMAIN work[w].listed /\ (n \in work[w].todo => n \in work'[w].todo)
    <3>1. \A b \in Appts : appt[b].event # work[v].event
      BY <2>2, InvParts DEF NewAlone
    <3>2. \A b \in Appts : appt'[b].event = appt[b].event
      BY <1>7, <1>13
    <3> QED
      BY <1>1, <1>3, <1>9, <1>10, <1>12, <1>16, <3>1, <3>2
  <2> QED
    BY <1>12, <2>1, <2>2, NewStays, InvParts
<1>19. \A z \in Events : Told(z)' => Told(z)
  <2>1. \A u \in Workers : Syncs(u)' => Syncs(u) /\ work'[u].listed = work[u].listed
                                        /\ work'[u].todo = work[u].todo
    BY <1>1, <1>3, <1>9, <1>12 DEF Syncs
  <2> QED
    BY <1>10, <2>1 DEF Told
<1>20. \A b \in Appts \ {a} : LeftAlone(b)
  <2>1. ASSUME NEW b \in Appts \ {a} PROVE WorkHolds(b)
    <3>1. ~Pushes(w, b) /\ ~On(w, b)' /\ \A z \in Events : ~Applies(w, b, z)
      BY <1>1, <1>3, <1>4, <1>16 DEF Pushes, On, Applies
    <3> QED
      BY <1>10, <1>12, <1>13, <3>1, HoldsForStrangers
  <2> QED
    BY <1>10, <1>13, <1>14, <1>19, <2>1, OthersAreLeft
<1>21. MeetingSound(a)'
  <2>0. MeetingSound(a)
    BY InvParts
  <2>1. EventKnown(a)'
    BY <1>7, <1>10, <1>13, <2>0 DEF MeetingSound, EventKnown, Known
  <2>2. ASSUME Fine(a)' PROVE CalendarSound(a)'
    <3>0. /\ CalendarSound(a) /\ appt[a] = saw /\ appt[a].event = e /\ e # None
          /\ Open(a) /\ appt[a].status \in {"booked", "confirmed"}
      BY <1>0, <1>5, <1>14, <2>0, <2>2 DEF MeetingSound, Open, OpenStates
    <3>1. OwnerKept(a)'
      BY <1>7, <1>10, <1>13, <3>0 DEF CalendarSound, OwnerKept
    <3>2. OneLive(a)'
      <4>1. \A v \in Workers, z \in Events : On(v, a) /\ PutsIt(v, z) => On(v, a)' /\ PutsIt(v, z)'
        BY <1>3, <1>12 DEF On, PutsIt, Acts
      <4> QED
        BY <1>7, <1>10, <1>13, <3>0, <4>1 DEF CalendarSound, OneLive, Live
    <3>3. (Excused(a) => Excused(a)') /\ (Tried(a) => Tried(a)')
      <4>1. \A v \in Workers : Pushes(v, a) => Pushes(v, a)'
        BY <1>3, <1>12 DEF Pushes, On, Acts
      <4> QED
        BY <1>7, <1>10, <1>13, <4>1 DEF Owed, Excused, Tried
    <3>4. ErrorOwed(a)'
      <4>1. MustTakeOut(appt[a]) \/ MustPutIn(appt[a])
        BY <3>0 DEF MustTakeOut, MustPutIn
      <4> QED
        BY <1>7, <1>13, <3>0, <3>3, <4>1 DEF CalendarSound, ErrorOwed
    <3>5. LiveOpen(a)'
      <4>1. CASE listed.live
        BY <1>7, <1>13, <4>1 DEF LiveOpen, Open
      <4>2. CASE ~listed.live
        BY <1>5, <1>l, <1>7, <1>10, <1>13, <3>0, <4>2 DEF LiveOpen, Live
      <4> QED
        BY <4>1, <4>2
    <3>6. HostOwns(a)'
      BY <1>7, <1>13, <3>0, <3>3 DEF CalendarSound, HostOwns
    <3>7. TimeAgrees(a)'
      <4> SUFFICES ASSUME Open(a)', Told(e)' PROVE events[e].live /\ events[e].time = y.time
        BY <1>7, <1>10, <1>13, <3>0 DEF TimeAgrees
      <4>1. listed.live
        BY <1>7, <1>13 DEF Open
      <4>2. events[e].dirty = "listed"
        BY <1>5, <1>10 DEF Told
      <4> QED
        BY <1>5, <1>l, <1>7, <4>1, <4>2
    <3> QED
      BY <3>1, <3>2, <3>4, <3>5, <3>6, <3>7 DEF CalendarSound
  <2> QED
    BY <2>1, <2>2 DEF MeetingSound
<1>22. \A b \in Appts : LeftAlone(b) \/ MeetingSound(b)'
  BY <1>20, <1>21
<1>23. Announced'
  <2> SUFFICES ASSUME NEW b \in Appts \ stale', Open(b)', appt'[b].time <= clock,
                      appt'[b].setAt < appt'[b].time
               PROVE  appt'[b].reminded
    BY <1>10 DEF Announced
  <2>1. CASE b # a
    BY <1>0, <1>13, <1>14, <2>1 DEF Announced, Open
  <2>2. CASE b = a
    <3>1. listed.live
      BY <1>7, <1>13, <2>2 DEF Open
    <3>2. clock \in Nat /\ y.time \in Nat
      BY <1>0, <1>7 DEF MeetingsTyped, Row, Times
    <3> QED
      BY <1>7, <1>13, <2>2, <3>1, <3>2
  <2> QED
    BY <2>1, <2>2
<1>24. NextKept'
  <2>1. Refreshes(w)'
    BY <1>9, <1>12 DEF Refreshes
  <2> QED
    BY <2>1 DEF NextKept
<1>25. /\ events' \in [Events -> Event \cup {None}] /\ jobs' \subseteq Appts
       /\ spent' \subseteq Appts /\ next' \in 0 .. MaxTime /\ place' \in Places
  BY <1>0, <1>10 DEF MeetingsTyped
<1> QED
  BY <1>3, <1>10, <1>11, <1>13, <1>14, <1>15, <1>17, <1>18, <1>22, <1>23, <1>24, <1>25,
    StepKeeps

-----------------------------------------------------------------------------
(* The commit of a request.                                                *)

Sets(op) == op.kind = "booked" \/ (op.kind = "edit" /\ op.row.time # op.saw.time)

LEMMA WrittenIs ==
  ASSUME NEW op \in Committing, NEW row \in Row, clock \in 0 .. MaxTime
  PROVE  LET y == Written(op, row) IN
         /\ y \in Row /\ y.event = row.event /\ y.owner = row.owner /\ y.error = row.error
         /\ Sets(op) => y.time = op.row.time /\ y.setAt = clock
         /\ ~Sets(op) /\ op.kind = "edit" =>
              y.time = op.row.time /\ y.status = row.status /\ y.setAt = row.setAt
              /\ y.reminded = row.reminded
         /\ op.kind \notin {"booked", "edit"} =>
              y = [row EXCEPT !.status = op.row.status] /\ y.status = op.row.status
              /\ y.time = row.time /\ y.setAt = row.setAt /\ y.reminded = row.reminded
              /\ y.host = row.host
<1>1. PICK y : y = Written(op, row)
  OBVIOUS
<1>2. op.row \in Row
  BY DEF Committing
<1>3. CASE Sets(op)
  <2>1. y = [row EXCEPT !.host = op.row.host, !.time = op.row.time, !.status = "booked",
                     !.setAt = clock, !.reminded = FALSE]
    BY <1>1, <1>3 DEF Written, Sets
  <2>2. y \in Row /\ y.event = row.event /\ y.owner = row.owner /\ y.error = row.error
        /\ y.time = op.row.time /\ y.setAt = clock
    BY <1>2, <2>1 DEF Row, Status
  <2> QED
    BY <1>1, <1>3, <2>2 DEF Sets
<1>4. CASE ~Sets(op) /\ op.kind = "edit"
  <2>1. y = [row EXCEPT !.host = op.row.host, !.time = op.row.time]
    BY <1>1, <1>4 DEF Written, Sets
  <2>2. y \in Row /\ y.event = row.event /\ y.owner = row.owner /\ y.error = row.error
        /\ y.time = op.row.time /\ y.status = row.status /\ y.setAt = row.setAt
        /\ y.reminded = row.reminded
    BY <1>2, <2>1 DEF Row, Status
  <2> QED
    BY <1>1, <1>4, <2>2
<1>5. CASE op.kind \notin {"booked", "edit"}
  <2>1. y = [row EXCEPT !.status = op.row.status]
    BY <1>1, <1>5 DEF Written
  <2>2. y \in Row /\ y.event = row.event /\ y.owner = row.owner /\ y.error = row.error
        /\ y.time = row.time /\ y.setAt = row.setAt /\ y.reminded = row.reminded
        /\ y.host = row.host /\ y.status = op.row.status
    BY <1>2, <2>1 DEF Row, Status
  <2> QED
    BY <1>1, <1>5, <2>1, <2>2 DEF Sets
<1> QED
  BY <1>3, <1>4, <1>5 DEF Sets

LEMMA CommitKeeps ==
  ASSUME MeetingsInv, Newest, AppointmentsAssumption, NEW w \in Workers, Commit(w)
  PROVE  MeetingsInv'
<1>0. MeetingsTyped /\ NextKept /\ Announced /\ clock \in 0 .. MaxTime
  BY InvParts DEF MeetingsTyped
<1>1. PICK op \in Work : op = work[w]
  BY <1>0, WorkOf
<1>2. op.kind # "idle" /\ op.at = "commit"
  BY <1>1 DEF Commit
<1>3. op.kind # "sync"
  BY <1>2, Shapes DEF Listing, Applying
<1>4. op \in Committing /\ Acts(w) /\ CommitSound(w) /\ ~Syncs(w)
  BY <1>1, <1>2, <1>3, InvParts, Shapes DEF Acts, HandSound, Syncs
<1>5. PICK a \in Appts, saw \in Row : a = op.appt /\ saw = op.saw
  BY <1>4 DEF Committing
<1>6. op.kind \in Edits \cup {"confirm"} /\ op.kind # "retry" /\ op.row \in Row
  BY <1>4 DEF Committing, Edits, Moving
<1>7. /\ op.kind = "confirm" => saw.status = "booked" /\ op.row.status = "confirmed"
      /\ Sets(op) => op.row.time >= clock
      /\ op.kind = "cancel" => op.row.status = "cancelled"
      /\ op.kind = "attended" => op.row.status = "completed"
      /\ op.kind = "missed" => op.row.status = "no_show"
  BY <1>1, <1>2, <1>4, <1>5 DEF CommitSound, Sets
<1>y. PICK y : y = Written(op, appt[a])
  OBVIOUS
<1>8. /\ y \in Row /\ y.event = appt[a].event /\ y.owner = appt[a].owner /\ y.error = appt[a].error
      /\ Sets(op) => y.time = op.row.time /\ y.setAt = clock
      /\ ~Sets(op) /\ op.kind = "edit" =>
           y.time = op.row.time /\ y.status = appt[a].status /\ y.setAt = appt[a].setAt
           /\ y.reminded = appt[a].reminded
      /\ op.kind \notin {"booked", "edit"} =>
           /\ y.status = op.row.status /\ y.time = appt[a].time /\ y.setAt = appt[a].setAt
           /\ y.reminded = appt[a].reminded /\ y.host = appt[a].host
  <2>1. appt[a] \in Row
    BY <1>0 DEF MeetingsTyped
  <2> QED
    BY <1>0, <1>4, <1>y, <2>1, WrittenIs
<1>9. PICK x : x = IF op.kind = "confirm" THEN Idle
       ELSE [kind |-> op.kind, appt |-> a, at |->
               IF op.kind \in {"booked", "attended", "missed"} THEN "decide" ELSE "push"]
  OBVIOUS
<1>10. /\ appt' = [appt EXCEPT ![a] = y]
       /\ Noted(w, a) /\ Overtakes(w, a) /\ work' = [work EXCEPT ![w] = x]
       /\ UNCHANGED <<events, connected, jobs, spent, next, place, clock, cut>>
  <2>1. appt' = [appt EXCEPT ![a] = Written(op, @)]
    BY <1>1, <1>5 DEF Commit
  <2>2. appt' = [appt EXCEPT ![a] = y]
    BY <1>0, <1>y, <2>1 DEF MeetingsTyped
  <2> QED
    BY <1>1, <1>5, <1>9, <2>2 DEF Commit, google, bounds, queue
<1>11. /\ x \in Work /\ x.kind # "sync"
       /\ op.kind = "confirm" => x = Idle /\ x.kind = "idle"
       /\ op.kind # "confirm" => /\ x.kind = op.kind /\ x.appt = a /\ x.at \in {"decide", "push"}
                                 /\ x.kind \in Edits
  <2>1. CASE op.kind = "confirm"
    BY <1>9, <2>1 DEF Work, Idle
  <2>2. CASE op.kind \in Moving
    BY <1>3, <1>6, <1>9, <2>2 DEF Work, Deciding, Moving, Edits
  <2>3. CASE op.kind \in {"edit", "cancel"}
    BY <1>3, <1>6, <1>9, <2>3 DEF Work, Starting, Moving, Edits, Pushers
  <2> QED
    BY <1>6, <2>1, <2>2, <2>3 DEF Edits
<1>12. work'[w] = x /\ \A v \in Workers \ {w} : work'[v] = work[v]
  BY <1>0, <1>10, <1>11, WorkBecomes
<1>13. appt' \in [Appts -> Row] /\ appt'[a] = y /\ \A b \in Appts \ {a} : appt'[b] = appt[b]
  BY <1>0, <1>8, <1>10 DEF MeetingsTyped
<1>14. stale \subseteq stale' /\ cut \subseteq cut' /\ (a \notin stale' => appt[a] = saw)
       /\ (Fine(a)' => Fine(a) /\ appt[a] = saw) /\ old \ {w} \subseteq old'
  <2>1. Reads(w, a)
    BY <1>1, <1>2, <1>4, <1>5, WhoReads DEF Reads
  <2> QED
    BY <1>1, <1>5, <1>10, <2>1, SawTheRow, OthersAreOvertaken DEF Newest, Noted
<1>15. EventsKeep
  BY <1>10 DEF EventsKeep, EventsLast, Relisted
<1>16. ~Puts(w)' /\ ~Saw(w)' /\ ~Syncs(w)'
  BY <1>11, <1>12 DEF Acts, Puts, Saw, Syncs
<1>17. HandSound(w)'
  <2>1. ~(Acts(w)' /\ work'[w].at \in {"commit", "move"})
    BY <1>11, <1>12 DEF Acts
  <2> QED
    BY <1>16, <2>1 DEF HandSound, CommitSound, MoveSound, PushSound, PutSound, SyncSound
<1>18. \A v \in Workers : NewAlone(v)'
  <2>1. NewAlone(w)'
    BY <1>16 DEF NewAlone, New
  <2>2. ASSUME NEW v \in Workers \ {w}, New(v)
        PROVE  LET n == work[v].event IN
           /\ \A b \in Appts : appt'[b].event # n
           /\ (Saw(w)' => work'[w].saw.event # n) /\ (Puts(w)' => work'[w].event # n)
           /\ events'[n] = events[n] \/ events'[n].dirty = "new"
           /\ ~Syncs(w)'
    <3>1. \A b \in Appts : appt[b].event # work[v].event
      BY <2>2, InvParts DEF NewAlone
    <3>2. \A b \in Appts : appt'[b].event = appt[b].event
      BY <1>8, <1>13
    <3> QED
      BY <1>10, <1>16, <3>1, <3>2
  <2> QED
    BY <1>12, <2>1, <2>2, NewStays, InvParts
<1>19. \A z \in Events : Told(z)' => Told(z)
  BY <1>10, <1>12, <1>16 DEF Told, Syncs
<1>20. ASSUME NEW b \in Appts, ~Pushes(w, b)' PROVE WorkHolds(b)
  <2>1. ~Pushes(w, b) /\ \A z \in Events : ~Applies(w, b, z)
    BY <1>1, <1>2, <1>4 DEF Pushes, Applies
  <2>2. work'[w].kind = "idle" \/ work'[w].at # "put"
    BY <1>11, <1>12
  <2>3. NothingForgiven(w, b)
    BY <1>8, <1>10, <1>13, <1>14 DEF NothingForgiven
  <2> QED
    BY <1>12, <2>1, <2>2, <2>3, HoldsForOthers
<1>21. \A b \in Appts \ {a} : LeftAlone(b)
  <2>1. \A b \in Appts \ {a} : ~Pushes(w, b)'
    BY <1>11, <1>12 DEF Pushes, On, Acts
  <2> QED
    BY <1>10, <1>13, <1>14, <1>19, <1>20, <2>1, OthersAreLeft
<1>22. LeftAlone(a) \/ MeetingSound(a)'
  <2>0. MeetingSound(a)
    BY InvParts
  <2>1. EventKnown(a)'
    BY <1>8, <1>10, <1>13, <2>0 DEF MeetingSound, EventKnown, Known
  <2>2. CASE op.kind # "confirm"
    <3>1. ASSUME Fine(a)' PROVE CalendarSound(a)'
      <4>0. CalendarSound(a)
        BY <1>14, <2>0, <3>1 DEF MeetingSound
      <4>1. Pushes(w, a)' /\ \A z \in Events : ~PutsIt(w, z)'
        BY <1>3, <1>11, <1>12, <2>2 DEF Pushes, On, Acts, PutsIt, Edits, Moving
      <4>2. Excused(a)' /\ Tried(a)'
        BY <4>1 DEF Owed, Excused, Tried
      <4>3. OneLive(a)'
        <5>1. \A v \in Workers, z \in Events : On(v, a) /\ PutsIt(v, z) =>
                v # w /\ On(v, a)' /\ PutsIt(v, z)'
          BY <1>1, <1>2, <1>12 DEF On, PutsIt, Acts
        <5> QED
          BY <1>8, <1>10, <1>13, <4>0, <5>1 DEF CalendarSound, OneLive, Live
      <4>4. OwnerKept(a)'
        BY <1>8, <1>10, <1>13, <4>0 DEF CalendarSound, OwnerKept
      <4>5. TimeAgrees(a)'
        <5>1. TimeAgrees(a)
          BY <4>0 DEF CalendarSound
        <5> QED
          BY <1>0, <1>4, <1>10, <1>12, <1>13, <1>19, <4>1, <4>2, <5>1, TimeStillAgrees
      <4> QED
        BY <4>2, <4>3, <4>4, <4>5 DEF CalendarSound, ErrorOwed, LiveOpen, HostOwns
    <3> QED
      BY <2>1, <3>1 DEF MeetingSound
  <2>3. CASE op.kind = "confirm"
    <3>1. CASE ~Fine(a)'
      BY <2>1, <3>1 DEF MeetingSound
    <3>2. CASE Fine(a)'
      <4>1. appt[a] = saw /\ saw.status = "booked" /\ y.status = "confirmed"
        BY <1>7, <1>8, <1>14, <2>3, <3>2
      <4>2. SameMeeting(a)
        BY <1>8, <1>13, <2>3, <4>1 DEF SameMeeting, Open
      <4>3. WorkHolds(a)
        BY <1>11, <1>12, <1>20, <2>3 DEF Pushes, On, Acts
      <4> QED
        BY <1>10, <1>14, <1>19, <4>2, <4>3 DEF LeftAlone, Live, ToldAlready
    <3> QED
      BY <3>1, <3>2
  <2> QED
    BY <2>2, <2>3
<1>23. \A b \in Appts : LeftAlone(b) \/ MeetingSound(b)'
  BY <1>21, <1>22
<1>24. Announced'
  <2> SUFFICES ASSUME NEW b \in Appts \ stale', Open(b)', appt'[b].time <= clock,
                      appt'[b].setAt < appt'[b].time
               PROVE  appt'[b].reminded
    BY <1>10 DEF Announced
  <2>1. CASE b # a
    BY <1>0, <1>13, <1>14, <2>1 DEF Announced, Open
  <2>2. CASE b = a
    <3>0. /\ appt[a] = saw /\ y.status \in {"booked", "confirmed"} /\ y.time <= clock
          /\ y.setAt < y.time
      BY <1>13, <1>14, <2>2 DEF Open
    <3>1. CASE Sets(op)
      <4>1. clock \in Nat /\ y.time \in Nat
        BY <1>0, <1>8 DEF Row, Times
      <4> QED
        BY <1>7, <1>8, <3>0, <3>1, <4>1
    <3>2. CASE ~Sets(op) /\ op.kind = "edit"
      <4>1. y.time = appt[a].time /\ y.status = appt[a].status /\ y.setAt = appt[a].setAt
            /\ y.reminded = appt[a].reminded
        BY <1>5, <1>8, <3>0, <3>2 DEF Sets
      <4> QED
        BY <1>0, <1>13, <1>14, <2>2, <3>0, <4>1 DEF Announced, Open
    <3>3. CASE op.kind = "confirm"
      <4>1. y.time = appt[a].time /\ appt[a].status = "booked" /\ y.setAt = appt[a].setAt
            /\ y.reminded = appt[a].reminded
        BY <1>7, <1>8, <3>0, <3>3
      <4> QED
        BY <1>0, <1>13, <1>14, <2>2, <3>0, <4>1 DEF Announced, Open
    <3>4. CASE op.kind \in {"cancel", "attended", "missed"}
      BY <1>7, <1>8, <3>0, <3>4
    <3> QED
      BY <1>6, <3>1, <3>2, <3>3, <3>4 DEF Edits, Moving, Sets
  <2> QED
    BY <2>1, <2>2
<1>25. NextKept'
  <2>1. CASE op.kind # "confirm"
    <3>1. Refreshes(w)'
      BY <1>11, <1>12, <2>1 DEF Refreshes, Edits, Moving
    <3> QED
      BY <3>1 DEF NextKept
  <2>2. CASE op.kind = "confirm"
    <3>1. CASE a \in stale'
      BY <3>1 DEF NextKept
    <3>2. CASE a \notin stale'
      <4>1. \A b \in Appts : (Open(b)' <=> Open(b)) /\ appt'[b].time = appt[b].time
        BY <1>7, <1>8, <1>13, <1>14, <2>2, <3>2 DEF Open
      <4>2. FirstUpcoming' = FirstUpcoming
        BY <1>10, <4>1, FirstStays
      <4>3. ~Refreshes(w)
        BY <1>1, <1>2 DEF Refreshes
      <4> QED
        BY <1>0, <1>10, <1>12, <1>14, <4>2, <4>3, NextStays
    <3> QED
      BY <3>1, <3>2
  <2> QED
    BY <2>1, <2>2
<1>26. /\ events' \in [Events -> Event \cup {None}] /\ jobs' \subseteq Appts
       /\ spent' \subseteq Appts /\ next' \in 0 .. MaxTime /\ place' \in Places
  BY <1>0, <1>10 DEF MeetingsTyped
<1>27. Syncs(w)' => Syncs(w)
  BY <1>16
<1> QED
  BY <1>10, <1>11, <1>13, <1>14, <1>15, <1>17, <1>18, <1>23, <1>24, <1>25, <1>26,
    <1>27, StepKeeps

-----------------------------------------------------------------------------
(* Steps that nobody at work takes.                                        *)

LEMMA StillHolds ==
  ASSUME UNCHANGED <<work, jobs, spent>>, old \subseteq old',
         NEW a \in Appts, appt'[a].error = appt[a].error
  PROVE  WorkHolds(a)
<1>1. \A v \in Workers, e \in Events : On(v, a) /\ PutsIt(v, e) => On(v, a)' /\ PutsIt(v, e)'
  BY DEF On, Acts, PutsIt
<1>2. \A v \in Workers : Pushes(v, a) <=> Pushes(v, a)'
  BY DEF Pushes, On, Acts
<1>3. \A v \in Workers : On(v, a)' => On(v, a)
  BY DEF On, Acts
<1>4. \A v \in Workers, e \in Events : PutsIt(v, e) <=> PutsIt(v, e)'
  BY DEF PutsIt
<1>5. \A v \in Workers, e \in Events : Applies(v, a, e) => Applies(v, a, e)'
  BY DEF Applies, Syncs
<1>6. (Owed(a) => Owed(a)') /\ (Excused(a) => Excused(a)') /\ (Tried(a) => Tried(a)')
  BY <1>2 DEF Owed, Excused, Tried
<1>7. \A e \in Events : Coming(a, e) => Coming(a, e)'
  BY <1>3, <1>4, <1>6 DEF Coming
<1> QED
  BY <1>1, <1>5, <1>6, <1>7 DEF WorkHolds

LEMMA StillKeeps ==
  ASSUME MeetingsInv, UNCHANGED <<work, jobs, spent>>, old \subseteq old',
         connected' = connected, clock' = clock,
         appt' \in [Appts -> Row], events' \in [Events -> Event \cup {None}],
         next' \in 0 .. MaxTime, place' \in Places, stale \subseteq stale', cut \subseteq cut',
         EventsKeep, \A e \in Events : events[e] = None => events'[e] = None,
         \A a \in Appts : SameMeeting(a), NextKept', Announced'
  PROVE  MeetingsInv'
<1>0. MeetingsTyped /\ OneSync
  BY InvParts
<1>1. MeetingsTyped'
  BY <1>0 DEF MeetingsTyped
<1>2. OneSync'
  BY <1>0 DEF OneSync, Syncs
<1>3. \A v \in Workers : HandSound(v)'
  BY <1>0, HandStays, InvParts DEF EventsKeep
<1>4. ASSUME NEW v \in Workers PROVE NewAlone(v)'
  <2> SUFFICES ASSUME New(v)' PROVE NewAlone(v)'
    BY DEF NewAlone
  <2>1. New(v)
    BY DEF New, Puts, Acts
  <2>e. PICK e \in Events : e = work[v].event
    BY <1>0, <2>1, WorkOf, Shapes DEF New, Puts, Acts, Putting
  <2>2. /\ \A a \in Appts : appt[a].event # e
        /\ \A u \in Workers \ {v} : (Saw(u) => work[u].saw.event # e) /\ (Puts(u) => work[u].event # e)
        /\ events[e].dirty # "no"
        /\ \A u \in Workers : Syncs(u) /\ e \in DOMAIN work[u].listed /\ events[e].dirty = "listed" =>
             e \in work[u].todo
    BY <2>1, <2>e, InvParts DEF NewAlone
  <2>3. events'[e] = events[e] \/ events'[e].dirty = "new"
    BY DEF EventsKeep, Relisted
  <2>4. \A a \in Appts : appt'[a].event # e
    BY <2>2 DEF SameMeeting
  <2>5. \A u \in Workers : (Saw(u)' <=> Saw(u)) /\ (Puts(u)' <=> Puts(u)) /\ (Syncs(u)' <=> Syncs(u))
    BY DEF Saw, Puts, Syncs, Acts
  <2> QED
    BY <2>e, <2>2, <2>3, <2>4, <2>5 DEF NewAlone
<1>5. ASSUME NEW a \in Appts PROVE MeetingSound(a)'
  <2>1. WorkHolds(a) /\ (Fine(a)' => Fine(a))
    BY StillHolds DEF Fine, SameMeeting
  <2>2. \A e \in Events : Live(e)' => Live(e)
    BY DEF Live, EventsKeep, EventsLast
  <2>3. ASSUME NEW e \in Events, e = appt[a].event, Told(e)' PROVE ToldAlready(e)
    <3>1. e # None => events[e] # None
      BY <2>3, InvParts DEF MeetingSound, EventKnown, Known
    <3>2. events'[e] = events[e]
      BY <2>3 DEF EventsKeep, Relisted, Told
    <3>3. \A u \in Workers : Syncs(u)' <=> Syncs(u)
      BY DEF Syncs
    <3> QED
      BY <2>3, <3>2, <3>3 DEF Told, ToldAlready
  <2> QED
    BY <1>0, <2>1, <2>2, <2>3, MeetingStays, InvParts DEF EventsKeep
<1> QED
  BY <1>1, <1>2, <1>3, <1>4, <1>5 DEF MeetingsInv

LEMMA NextStill ==
  ASSUME NextKept, UNCHANGED <<work, next, clock>>, FirstUpcoming' = FirstUpcoming,
         stale \subseteq stale', cut \subseteq cut'
  PROVE  NextKept'
<1>1. stale' \cup cut' = {} => stale \cup cut = {}
  OBVIOUS
<1>2. \A v \in Workers : Refreshes(v)' <=> Refreshes(v)
  BY DEF Refreshes
<1> QED
  BY <1>1, <1>2 DEF NextKept

LEMMA TouchKeeps ==
  ASSUME MeetingsInv, AppointmentsAssumption, NEW e \in Events, NEW t \in Times,
         NEW live \in BOOLEAN, Touch(e, live, t)
  PROVE  MeetingsInv'
<1>0. MeetingsTyped /\ NextKept /\ Announced /\ None \notin Event
  BY InvParts DEF AppointmentsAssumption
<1>1. PICK y : y = [events[e] EXCEPT !.live = live, !.time = IF live THEN t ELSE @, !.dirty = "new"]
  OBVIOUS
<1>2. events[e] # None /\ events[e].live /\ events[e] \in Event
  BY <1>0 DEF Touch, MeetingsTyped
<1>3. y \in Event /\ y.of = events[e].of /\ y.owner = events[e].owner /\ y.dirty = "new"
  BY <1>1, <1>2 DEF Event
<1>4. /\ events' = [events EXCEPT ![e] = y]
      /\ UNCHANGED <<appt, connected, jobs, spent, next, place, work, clock, old, stale, cut>>
  BY <1>0, <1>1 DEF Touch, MeetingsTyped, queue, ghosts
<1>5. /\ events' \in [Events -> Event \cup {None}] /\ events'[e] = y
      /\ \A z \in Events \ {e} : events'[z] = events[z]
  BY <1>0, <1>3, <1>4 DEF MeetingsTyped
<1>6. EventsKeep /\ \A z \in Events : events[z] = None => events'[z] = None
  BY <1>0, <1>2, <1>3, <1>5 DEF EventsKeep, EventsLast, Relisted
<1>7. \A a \in Appts : SameMeeting(a)
  BY <1>4 DEF SameMeeting, Open
<1>8. Announced' /\ NextKept'
  <2>1. Announced' /\ FirstUpcoming' = FirstUpcoming
    BY <1>0, <1>4, AnnouncedStill
  <2> QED
    BY <1>0, <1>4, <2>1, NextStill
<1>9. appt' \in [Appts -> Row] /\ next' \in 0 .. MaxTime /\ place' \in Places
  BY <1>0, <1>4 DEF MeetingsTyped
<1> QED
  BY <1>4, <1>5, <1>6, <1>7, <1>8, <1>9, StillKeeps

LEMMA StaffMovesKeeps ==
  ASSUME MeetingsInv, NEW p \in Places, StaffMoves(p) \/ UNCHANGED vars
  PROVE  MeetingsInv'
<1>0. MeetingsTyped /\ NextKept /\ Announced
  BY InvParts
<1>1. /\ UNCHANGED <<appt, events, connected, jobs, spent, next, work, clock, old, stale, cut>>
      /\ place' \in Places
  BY <1>0 DEF StaffMoves, vars, google, queue, ghosts, MeetingsTyped
<1>2. EventsKeep
  BY <1>1 DEF EventsKeep, EventsLast, Relisted
<1>3. \A a \in Appts : SameMeeting(a)
  BY <1>1 DEF SameMeeting, Open
<1>4. Announced' /\ NextKept'
  <2>1. Announced' /\ FirstUpcoming' = FirstUpcoming
    BY <1>0, <1>1, AnnouncedStill
  <2> QED
    BY <1>0, <1>1, <2>1, NextStill
<1>5. appt' \in [Appts -> Row] /\ events' \in [Events -> Event \cup {None}] /\ next' \in 0 .. MaxTime
  BY <1>0, <1>1 DEF MeetingsTyped
<1> QED
  BY <1>1, <1>2, <1>3, <1>4, <1>5, StillKeeps

LEMMA TickKeeps ==
  ASSUME MeetingsInv, AppointmentsAssumption, AppointmentTick
  PROVE  MeetingsInv'
<1>0. MeetingsTyped /\ NextKept /\ Announced
  BY InvParts
<1>1. /\ appt' = [a \in Appts |-> IF Due(a) THEN [appt[a] EXCEPT !.reminded = TRUE] ELSE appt[a]]
      /\ next' = IF next # 0 /\ next <= clock THEN FirstUpcoming ELSE next
      /\ UNCHANGED <<events, connected, jobs, spent, place, work, clock, stale, cut>>
      /\ old \subseteq old'
  BY DEF AppointmentTick, google, bounds, queue
<1>2. ASSUME NEW a \in Appts
      PROVE  /\ appt'[a] \in Row /\ appt'[a].status = appt[a].status /\ appt'[a].time = appt[a].time
             /\ appt'[a].host = appt[a].host /\ appt'[a].event = appt[a].event
             /\ appt'[a].owner = appt[a].owner /\ appt'[a].error = appt[a].error
             /\ appt'[a].setAt = appt[a].setAt /\ (appt[a].reminded => appt'[a].reminded)
  <2>1. appt[a] \in Row
    BY <1>0 DEF MeetingsTyped
  <2>2. CASE Due(a)
    <3>1. appt'[a] = [appt[a] EXCEPT !.reminded = TRUE]
      BY <1>1, <2>2
    <3> QED
      BY <2>1, <3>1 DEF Row
  <2>3. CASE ~Due(a)
    BY <1>1, <2>1, <2>3
  <2> QED
    BY <2>2, <2>3
<1>3. appt' \in [Appts -> Row]
  <2>1. DOMAIN appt' = Appts /\ appt' = [a \in Appts |-> appt'[a]]
    BY <1>1
  <2> QED
    BY <1>2, <2>1
<1>4. EventsKeep
  BY <1>1 DEF EventsKeep, EventsLast, Relisted
<1>5. \A a \in Appts : SameMeeting(a)
  BY <1>2 DEF SameMeeting, Open
<1>6. FirstUpcoming' = FirstUpcoming
  BY <1>1, <1>2, FirstStays DEF Open
<1>7. Announced'
  BY <1>0, <1>1, <1>2 DEF Announced, Open
<1>8. NextKept'
  <2>1. \A v \in Workers : Refreshes(v)' <=> Refreshes(v)
    BY <1>1 DEF Refreshes
  <2>2. CASE next # 0 /\ next <= clock
    BY <1>1, <1>6, <2>2 DEF NextKept
  <2>3. CASE ~(next # 0 /\ next <= clock)
    BY <1>0, <1>1, <1>6, <2>1, <2>3 DEF NextKept
  <2> QED
    BY <2>2, <2>3
<1>9. /\ events' \in [Events -> Event \cup {None}] /\ place' \in Places /\ next' \in 0 .. MaxTime
  BY <1>0, <1>1, FirstIsATime DEF MeetingsTyped
<1> QED
  BY <1>1, <1>3, <1>4, <1>5, <1>7, <1>8, <1>9, StillKeeps

LEMMA IdleHands ==
  ASSUME NEW v \in Workers, work'[v] = Idle
  PROVE  /\ HandSound(v)' /\ NewAlone(v)' /\ ~Acts(v)' /\ ~Syncs(v)' /\ ~Refreshes(v)'
BY DEF Idle, HandSound, CommitSound, MoveSound, PushSound, PutSound, SyncSound,
  NewAlone, New, Saw,
   Puts, Syncs, Acts, Refreshes

(* A next meeting that has not begun when the clock turns is still next.   *)
LEMMA FirstAfter ==
  ASSUME MeetingsTyped, AppointmentsAssumption, UNCHANGED appt, clock' = clock + 1,
         next = FirstUpcoming
  PROVE  next = FirstUpcoming' \/ (next # 0 /\ next <= clock')
<1>1. Upcoming \subseteq Times /\ Times \subseteq Nat /\ MaxTime \in Nat /\ clock \in Nat
      /\ \A t \in Times : t > 0
  BY DEF MeetingsTyped, Upcoming, Row, Times, AppointmentsAssumption
<1>2. IsFiniteSet(Upcoming)
  <2>1. 1 \in Int /\ MaxTime \in Int
    BY <1>1
  <2>2. IsFiniteSet(Times)
    BY <2>1, FS_Interval DEF Times
  <2> QED
    BY <1>1, <2>2, FS_Subset
<1>3. ASSUME NEW a \in Appts
      PROVE  /\ appt[a].time \in Nat /\ (appt[a].time > clock' => appt[a].time > clock)
             /\ Open(a)' <=> Open(a)
  <2>1. appt[a].time \in Nat
    BY <1>1 DEF MeetingsTyped, Row
  <2> QED
    BY <1>1, <2>1 DEF Open
<1>4. Upcoming' \subseteq Upcoming
  BY <1>3 DEF Upcoming
<1>5. CASE Upcoming = {}
  BY <1>4, <1>5 DEF FirstUpcoming
<1>6. CASE Upcoming # {}
  <2>1. PICK m \in Upcoming : m = Min(Upcoming) /\ \A t \in Upcoming : m <= t
    BY <1>1, <1>2, <1>6, MinIsLeast
  <2>2. next = m /\ m \in Nat /\ m > 0
    BY <1>1, <1>6, <2>1 DEF FirstUpcoming
  <2>3. CASE m <= clock'
    BY <2>2, <2>3
  <2>4. CASE ~(m <= clock')
    <3>1. ASSUME NEW t \in Upcoming PROVE t \in Upcoming'
      <4>1. PICK a \in Appts : t = appt[a].time /\ Open(a) /\ t > clock
        BY DEF Upcoming
      <4>2. t \in Nat /\ m <= t /\ clock' \in Nat
        BY <1>1, <2>1
      <4>3. t > clock'
        BY <2>2, <2>4, <4>2
      <4> QED
        BY <1>3, <4>1, <4>3 DEF Upcoming
    <3>2. Upcoming' = Upcoming
      BY <1>4, <3>1
    <3>3. FirstUpcoming' = FirstUpcoming
      BY <3>2 DEF FirstUpcoming
    <3> QED
      BY <3>3
  <2> QED
    BY <2>3, <2>4
<1> QED
  BY <1>5, <1>6

LEMMA ClockKeeps ==
  ASSUME MeetingsInv, AppointmentsAssumption, Clock
  PROVE  MeetingsInv'
<1>0. MeetingsTyped /\ NextKept /\ Announced
  BY InvParts
<1>1. /\ clock < MaxTime /\ \A w \in Workers : work[w] = Idle /\ work'[w] = Idle
      /\ \A a \in Appts : ~Due(a)
      /\ ~(next # 0 /\ next <= clock) /\ clock' = clock + 1
      /\ UNCHANGED <<appt, events, connected, jobs, spent, next, place, work, old, stale, cut>>
  BY DEF Clock, google, queue, ghosts
<1>2. clock \in Nat /\ MaxTime \in Nat
  BY <1>0 DEF MeetingsTyped, AppointmentsAssumption
<1>3. MeetingsTyped'
  BY <1>0, <1>1, <1>2 DEF MeetingsTyped
<1>4. \A v \in Workers : HandSound(v)' /\ NewAlone(v)' /\ ~Syncs(v)' /\ ~Refreshes(v)
  BY <1>1, IdleHands DEF Refreshes, Idle
<1>5. OneSync'
  BY <1>4 DEF OneSync
<1>6. ASSUME NEW a \in Appts PROVE MeetingSound(a)'
  <2>1. WorkHolds(a) /\ (Fine(a)' => Fine(a)) /\ SameMeeting(a) /\ EventsLast
    BY <1>1, StillHolds DEF Fine, SameMeeting, Open, EventsLast
  <2>2. \A e \in Events : Live(e)' => Live(e)
    BY <1>1 DEF Live
  <2>3. \A e \in Events : Told(e)' => ToldAlready(e)
    BY <1>1, <1>4 DEF Told, ToldAlready
  <2> QED
    BY <1>0, <1>1, <2>1, <2>2, <2>3, MeetingStays, InvParts
<1>7. NextKept'
  <2>1. next = FirstUpcoming => next = FirstUpcoming' \/ (next # 0 /\ next <= clock')
    BY <1>0, <1>1, FirstAfter
  <2> QED
    BY <1>0, <1>1, <1>4, <2>1 DEF NextKept
<1>8. Announced'
  <2> SUFFICES ASSUME NEW b \in Appts \ stale, Open(b), appt[b].time <= clock + 1,
                      appt[b].setAt < appt[b].time
               PROVE  appt[b].reminded
    BY <1>1 DEF Announced, Open
  <2>1. appt[b].time \in Nat /\ appt[b].setAt \in Nat /\ appt[b].reminded \in BOOLEAN
    BY <1>0 DEF MeetingsTyped, Row, Times
  <2>2. CASE appt[b].time <= clock
    BY <1>0, <2>2 DEF Announced
  <2>3. CASE ~(appt[b].time <= clock)
    <3>1. clock < appt[b].time /\ appt[b].setAt <= appt[b].time - 1
      BY <1>2, <2>1, <2>3
    <3> QED
      BY <1>1, <3>1 DEF Due
  <2> QED
    BY <2>2, <2>3
<1> QED
  BY <1>3, <1>4, <1>5, <1>6, <1>7, <1>8 DEF MeetingsInv

LEMMA HasMeeting ==
  ASSUME NEW op \in Work, op.kind # "idle", op.kind # "sync" \/ op.at # "list"
  PROVE  "appt" \in DOMAIN op
<1>1. CASE op.kind = "sync"
  BY <1>1, Shapes DEF Applying
<1>2. CASE op.kind # "sync"
  <2>1. op \in Committing \cup Deciding \cup Starting \cup Decided \cup Sending \cup Putting
          \cup Refreshing
    BY <1>2, Shapes
  <2> QED
    BY <2>1 DEF Committing, Deciding, Starting, Decided, Sending, Putting, Refreshing
<1> QED
  BY <1>1, <1>2

LEMMA DisconnectKeeps ==
  ASSUME MeetingsInv, AppointmentsAssumption, NEW h \in Hosts, Disconnect(h)
  PROVE  MeetingsInv'
<1>0. MeetingsTyped /\ OneSync /\ NextKept /\ Announced
  BY InvParts
<1>1. /\ connected' = connected \ {h}
      /\ cut' = cut \cup {a \in Appts : appt[a].owner = h \/ \E w \in Workers :
                        work[w].kind # "idle" /\ "appt" \in DOMAIN work[w] /\ work[w].appt = a}
      /\ UNCHANGED <<appt, events, jobs, spent, next, place, work, clock, old, stale>>
  BY DEF Disconnect, queue
<1>2. MeetingsTyped'
  BY <1>0, <1>1 DEF MeetingsTyped
<1>3. OneSync'
  BY <1>0, <1>1 DEF OneSync, Syncs
<1>4. ASSUME NEW a \in Appts, Fine(a)'
      PROVE  Fine(a) /\ appt[a].owner # h /\ \A w \in Workers : ~On(w, a)
  <2>1. ASSUME NEW w \in Workers, On(w, a) PROVE FALSE
    <3>1. "appt" \in DOMAIN work[w]
      BY <1>0, <2>1, WorkOf, HasMeeting DEF On, Acts
    <3> QED
      BY <1>1, <1>4, <2>1, <3>1 DEF On, Acts, Fine
  <2> QED
    BY <1>1, <1>4, <2>1 DEF Fine
<1>5. ASSUME NEW v \in Workers PROVE HandSound(v)'
  <2>0. HandSound(v)
    BY InvParts
  <2>1. CommitSound(v)' /\ MoveSound(v)'
    BY <1>1, <2>0 DEF HandSound, CommitSound, MoveSound, Acts, Wanted
  <2>2. Acts(v) => work[v].appt \in Appts /\ ~Fine(work[v].appt)'
    <3>1. Acts(v) => work[v].appt \in Appts
      BY <1>0, WorkOf, Shapes DEF Acts
    <3>2. PICK a : a = work[v].appt
      OBVIOUS
    <3>3. Acts(v) => ~Fine(a)'
      BY <1>4, <3>1, <3>2 DEF On
    <3> QED
      BY <1>1, <3>1, <3>2, <3>3 DEF Fine
  <2>3. PushSound(v)'
    BY <1>1, <2>0, <2>2 DEF HandSound, PushSound, Saw, Acts, Known, Fine
  <2>4. PutSound(v)'
    BY <1>1, <2>0, <2>2 DEF HandSound, PutSound, Puts, Acts, Known, Live, Fine
  <2>5. SyncSound(v)'
    BY <1>1, <2>0 DEF HandSound, SyncSound, Syncs, Live
  <2> QED
    BY <2>1, <2>3, <2>4, <2>5 DEF HandSound
<1>6. ASSUME NEW v \in Workers PROVE NewAlone(v)'
  BY <1>1, InvParts DEF NewAlone, New, Puts, Saw, Syncs, Acts
<1>7. ASSUME NEW a \in Appts PROVE MeetingSound(a)'
  <2>0. MeetingSound(a)
    BY InvParts
  <2>1. EventKnown(a)'
    BY <1>1, <2>0 DEF MeetingSound, EventKnown, Known
  <2>2. ASSUME Fine(a)' PROVE CalendarSound(a)'
    <3>0. CalendarSound(a) /\ appt[a].owner # h
      BY <1>4, <2>0, <2>2 DEF MeetingSound
    <3>1. WorkHolds(a)
      BY <1>1, StillHolds
    <3>2. OwnerKept(a)'
      BY <1>1, <3>0 DEF CalendarSound, OwnerKept
    <3>3. OneLive(a)'
      BY <1>1, <3>0, <3>1 DEF CalendarSound, OneLive, Live, WorkHolds
    <3>4. ErrorOwed(a)'
      <4>1. MustPutIn(appt[a])' => MustPutIn(appt[a])
        BY <1>1 DEF MustPutIn
      <4>2. MustTakeOut(appt[a])' => MustTakeOut(appt[a])
        BY <1>1, <3>0 DEF MustTakeOut
      <4> QED
        BY <1>1, <3>0, <3>1, <4>1, <4>2 DEF CalendarSound, ErrorOwed, WorkHolds
    <3>5. LiveOpen(a)' /\ HostOwns(a)'
      BY <1>1, <3>0, <3>1 DEF CalendarSound, LiveOpen, HostOwns, WorkHolds, Live, Open
    <3>6. TimeAgrees(a)'
      <4>1. PICK e : e = appt[a].event
        OBVIOUS
      <4> SUFFICES ASSUME Open(a), e # None, Told(e)'
                   PROVE  \/ events[e].live /\ events[e].time = appt[a].time
                          \/ \E v \in Workers : Applies(v, a, e)'
                          \/ Coming(a, e)'
        BY <1>1, <4>1 DEF TimeAgrees, Open
      <4>2. Told(e) /\ e \in Events
        BY <1>0, <1>1, <4>1 DEF Told, Syncs, MeetingsTyped, Row
      <4> QED
        BY <3>0, <3>1, <4>1, <4>2 DEF CalendarSound, TimeAgrees, WorkHolds
    <3> QED
      BY <3>2, <3>3, <3>4, <3>5, <3>6 DEF CalendarSound
  <2> QED
    BY <2>1, <2>2 DEF MeetingSound
<1>8. Announced' /\ NextKept'
  <2>1. Announced' /\ FirstUpcoming' = FirstUpcoming
    BY <1>0, <1>1, AnnouncedStill
  <2> QED
    BY <1>0, <1>1, <2>1, NextStill
<1> QED
  BY <1>2, <1>3, <1>5, <1>6, <1>7, <1>8 DEF MeetingsInv

LEMMA ExitKeeps ==
  ASSUME MeetingsInv, AppointmentsAssumption, Exit
  PROVE  MeetingsInv'
<1>0. MeetingsTyped /\ OneSync /\ NextKept /\ Announced
  BY InvParts
<1>1. /\ cut' = cut \cup {work[w].appt : w \in {v \in Workers : work[v].kind # "idle"
         /\ "appt" \in DOMAIN work[v]}}
      /\ work' = [w \in Workers |-> Idle]
      /\ UNCHANGED <<appt, events, connected, jobs, spent, next, place, clock, stale>>
  BY DEF Exit, google, queue
<1>2. Idle \in Work
  BY DEF Work
<1>3. MeetingsTyped'
  BY <1>0, <1>1, <1>2 DEF MeetingsTyped
<1>4. \A v \in Workers : HandSound(v)' /\ NewAlone(v)' /\ ~Acts(v)' /\ ~Syncs(v)'
  BY <1>1, IdleHands
<1>5. OneSync'
  BY <1>4 DEF OneSync
<1>6. ASSUME NEW a \in Appts, Fine(a)'
      PROVE  /\ Fine(a) /\ \A w \in Workers : ~On(w, a)
             /\ \A w \in Workers, e \in Events : ~Applies(w, a, e)
  <2>1. ASSUME NEW w \in Workers, On(w, a) \/ \E e \in Events : Applies(w, a, e) PROVE FALSE
    <3>1. "appt" \in DOMAIN work[w] /\ work[w].kind # "idle"
      BY <1>0, <2>1, WorkOf, HasMeeting DEF On, Acts, Applies, Syncs
    <3> QED
      BY <1>1, <1>6, <2>1, <3>1 DEF On, Applies, Fine
  <2> QED
    BY <1>1, <1>6, <2>1 DEF Fine
<1>7. ASSUME NEW a \in Appts PROVE MeetingSound(a)'
  <2>0. MeetingSound(a)
    BY InvParts
  <2>1. EventKnown(a)'
    BY <1>1, <2>0 DEF MeetingSound, EventKnown, Known
  <2>2. ASSUME Fine(a)' PROVE CalendarSound(a)'
    <3>0. /\ CalendarSound(a) /\ \A w \in Workers : ~On(w, a)
          /\ \A w \in Workers, e \in Events : ~Applies(w, a, e)
      BY <1>6, <2>0, <2>2 DEF MeetingSound
    <3>1. (Owed(a) => Owed(a)') /\ (Excused(a) => Excused(a)') /\ (Tried(a) => Tried(a)')
      BY <1>1, <3>0 DEF Owed, Excused, Tried, Pushes
    <3>2. \A e \in Events : Coming(a, e) => Coming(a, e)'
      BY <1>4, <3>1 DEF Coming, On
    <3>3. OwnerKept(a)'
      BY <1>1, <3>0 DEF CalendarSound, OwnerKept
    <3>4. OneLive(a)'
      BY <1>1, <3>0 DEF CalendarSound, OneLive, Live
    <3>5. ErrorOwed(a)'
      BY <1>1, <3>0, <3>1 DEF CalendarSound, ErrorOwed, MustPutIn, MustTakeOut
    <3>6. LiveOpen(a)' /\ HostOwns(a)'
      BY <1>1, <3>0, <3>1 DEF CalendarSound, LiveOpen, HostOwns, Live, Open
    <3>7. TimeAgrees(a)'
      <4>1. PICK e : e = appt[a].event
        OBVIOUS
      <4> SUFFICES ASSUME Open(a), e # None, Told(e)'
                   PROVE  \/ events[e].live /\ events[e].time = appt[a].time
                          \/ Coming(a, e)'
        BY <1>1, <4>1 DEF TimeAgrees, Open
      <4>2. Told(e) /\ e \in Events
        BY <1>0, <1>1, <1>4, <4>1 DEF Told, MeetingsTyped, Row
      <4> QED
        BY <3>0, <3>2, <4>1, <4>2 DEF CalendarSound, TimeAgrees
    <3> QED
      BY <3>3, <3>4, <3>5, <3>6, <3>7 DEF CalendarSound
  <2> QED
    BY <2>1, <2>2 DEF MeetingSound
<1>8. Announced' /\ NextKept'
  <2>1. Announced' /\ FirstUpcoming' = FirstUpcoming
    BY <1>0, <1>1, AnnouncedStill
  <2>2. stale' \cup cut' = {} => stale \cup cut = {} /\ \A w \in Workers : ~Refreshes(w)
    <3> SUFFICES ASSUME cut' = {}, NEW w \in Workers, Refreshes(w) PROVE FALSE
      BY <1>1
    <3>1. "appt" \in DOMAIN work[w] /\ work[w].kind # "idle"
      BY <1>0, WorkOf, HasMeeting DEF Refreshes
    <3> QED
      BY <1>1, <3>1
  <2> QED
    BY <1>0, <1>1, <2>1, <2>2 DEF NextKept
<1> QED
  BY <1>3, <1>4, <1>5, <1>7, <1>8 DEF MeetingsInv

-----------------------------------------------------------------------------
(* Who holds an older row, and the jobs that run.                          *)

Held == Newest /\ OldRead /\ JobsHeld

(* One operation goes on and writes no meeting.                            *)
LEMMA LooksStay ==
  ASSUME Newest, OldRead, NEW w \in Workers, \A v \in Workers \ {w} : work'[v] = work[v],
         UNCHANGED appt, stale \subseteq stale', old \ {w} \subseteq old', old' \subseteq old \cup {w},
         w \in old' => \E a \in Appts : Reads(w, a)',
         \A a \in Appts \ stale' : Reads(w, a)' /\ w \notin old' => work'[w].saw = appt[a]
  PROVE  Newest' /\ OldRead'
<1>1. \A v \in Workers \ {w}, a \in Appts : Reads(v, a)' <=> Reads(v, a)
  BY DEF Reads
<1>2. Newest'
  BY <1>1 DEF Newest
<1>3. OldRead'
  BY <1>1 DEF OldRead
<1> QED
  BY <1>2, <1>3

(* What is begun with no row in hand, or by nobody.                        *)
LEMMA NobodyLooks ==
  ASSUME Newest, OldRead, NEW w \in Workers, \A v \in Workers \ {w} : work'[v] = work[v],
         UNCHANGED <<appt, old>>, stale \subseteq stale', \A a \in Appts : ~Reads(w, a),
         \A a \in Appts : Reads(w, a)' => work'[w].saw = appt[a]
  PROVE  Newest' /\ OldRead'
<1>1. w \notin old
  BY DEF OldRead
<1> QED
  BY <1>1, LooksStay

(* A row of meeting a is written.                                          *)
LEMMA WritesAreNoted ==
  ASSUME Newest, OldRead, NEW w \in Workers, NEW a \in Appts,
         \A v \in Workers \ {w} : work'[v] = work[v], \A b \in Appts \ {a} : appt'[b] = appt[b],
         Overtakes(w, a), stale \subseteq stale',
         \A b \in Appts \ stale' : Reads(w, b)' => work'[w].saw = appt'[b]
  PROVE  Newest' /\ OldRead'
<1>1. \A v \in Workers \ {w}, b \in Appts : Reads(v, b)' <=> Reads(v, b)
  BY DEF Reads
<1>2. /\ old' \subseteq (old \cup {v \in Workers : Reads(v, a)}) \ {w} /\ old \ {w} \subseteq old'
      /\ appt'[a] # appt[a] => \A v \in Workers \ {w} : Reads(v, a) => v \in old'
  BY DEF Overtakes
<1>3. ASSUME NEW v \in Workers, NEW b \in Appts \ stale', Reads(v, b)', v \notin old'
      PROVE  work'[v].saw = appt'[b]
  <2>1. CASE v = w
    BY <1>3, <2>1
  <2>2. CASE v # w
    <3>1. Reads(v, b) /\ v \notin old /\ b \notin stale /\ work'[v] = work[v]
      BY <1>1, <1>2, <1>3, <2>2
    <3>2. work[v].saw = appt[b]
      BY <3>1 DEF Newest
    <3>3. appt'[b] = appt[b]
      BY <1>2, <1>3, <2>2, <3>1
    <3> QED
      BY <3>1, <3>2, <3>3
  <2> QED
    BY <2>1, <2>2
<1>4. OldRead'
  BY <1>1, <1>2 DEF OldRead
<1> QED
  BY <1>3, <1>4 DEF Newest

LEMMA JobsStay ==
  ASSUME JobsHeld, NEW w \in Workers, \A v \in Workers \ {w} : work'[v] = work[v],
         UNCHANGED tries, jobs \subseteq jobs',
         work'[w].kind = "retry" => work[w].kind = "retry" /\ work'[w].appt = work[w].appt
  PROVE  JobsHeld'
<1>1. \A v \in Workers : work'[v].kind = "retry" =>
        work[v].kind = "retry" /\ work'[v].appt = work[v].appt
  OBVIOUS
<1> QED
  BY <1>1 DEF JobsHeld

LEMMA JobEnds ==
  ASSUME JobsHeld, NEW w \in Workers, NEW a \in Appts, \A v \in Workers \ {w} : work'[v] = work[v],
         work[w].kind = "retry", work[w].appt = a, work'[w].kind # "retry", EndJob(a)
  PROVE  JobsHeld'
<1>1. /\ jobs' = jobs \ {a} /\ tries' = [tries EXCEPT ![a] = 0] /\ tries \in [Appts -> Nat]
      /\ \A b \in Appts : tries[b] # 0 => b \in jobs
  BY DEF EndJob, JobsHeld
<1>2. tries' \in [Appts -> Nat] /\ tries'[a] = 0 /\ \A b \in Appts \ {a} : tries'[b] = tries[b]
  BY <1>1
<1>3. \A b \in Appts : tries'[b] # 0 => b \in jobs'
  BY <1>1, <1>2
<1>4. \A v \in Workers : work'[v].kind = "retry" => v # w /\ work[v].kind = "retry"
  OBVIOUS
<1>5. \A v \in Workers : work'[v].kind = "retry" => work'[v].appt \in jobs'
  BY <1>1, <1>4 DEF JobsHeld
<1>6. \A u, v \in Workers :
        work'[u].kind = "retry" /\ work'[v].kind = "retry" /\ work'[u].appt = work'[v].appt => u = v
  BY <1>4 DEF JobsHeld
<1> QED
  BY <1>2, <1>3, <1>5, <1>6 DEF JobsHeld

(* Whoever leaves holds no row any more, and the job that succeeded goes.  *)
LEMMA LeavesHeld ==
  ASSUME MeetingsTyped, JobsHeld, NEW w \in Workers, NEW a \in Appts, Leave(w),
         work[w].kind \in Pushers, work[w].appt = a
  PROVE  /\ JobsHeld' /\ \A v \in Workers \ {w} : work'[v] = work[v]
         /\ \A b \in Appts : ~Reads(w, b)'
<1>1. PICK x \in Work : /\ x = After(work[w]) /\ x.kind # "retry"
                        /\ x.kind = "idle" \/ x.at = "refresh"
  BY AfterIsWork DEF Idle
<1>2. work'[w] = x /\ \A v \in Workers \ {w} : work'[v] = work[v]
  BY <1>1, WorkBecomes DEF Leave
<1>3. \A b \in Appts : ~Reads(w, b)'
  BY <1>1, <1>2 DEF Reads
<1>4. ASSUME work[w].kind = "retry" PROVE JobsHeld'
  <2>1. EndJob(a)
    BY <1>4 DEF Leave
  <2>2. work'[w].kind # "retry"
    BY <1>1, <1>2
  <2> QED
    BY <1>2, <1>4, <2>1, <2>2, JobEnds
<1>5. ASSUME work[w].kind # "retry" PROVE JobsHeld'
  <2>1. UNCHANGED tries /\ jobs \subseteq jobs'
    BY <1>5 DEF Leave
  <2>2. work'[w].kind # "retry"
    BY <1>1, <1>2
  <2> QED
    BY <1>2, <2>1, <2>2, JobsStay
<1> QED
  BY <1>2, <1>3, <1>4, <1>5

LEMMA AskHeld ==
  ASSUME MeetingsTyped, Held, NEW w \in Workers, NEW op, Ask(w, op), op.kind # "retry",
         "saw" \in DOMAIN op => op.appt \in Appts /\ op.saw = appt[op.appt]
  PROVE  Held'
<1>1. /\ work[w] = Idle /\ work'[w] = op /\ \A v \in Workers \ {w} : work'[v] = work[v]
      /\ UNCHANGED <<appt, jobs, tries, old, stale>>
  BY DEF Ask, MeetingsTyped, queue, ghosts
<1>2. \A a \in Appts : ~Reads(w, a)
  BY <1>1 DEF Reads, Idle
<1>3. \A a \in Appts : Reads(w, a)' => work'[w].saw = appt[a]
  BY <1>1 DEF Reads
<1>4. Newest' /\ OldRead'
  BY <1>1, <1>2, <1>3, NobodyLooks DEF Held
<1>5. JobsHeld'
  BY <1>1, JobsStay DEF Held
<1> QED
  BY <1>4, <1>5 DEF Held

LEMMA StaffAsksHeld ==
  ASSUME MeetingsTyped, Held, NEW w \in Workers, NEW a \in Appts, StaffAsks(w, a)
  PROVE  Held'
<1>1. ASSUME NEW kind, NEW row, kind # "retry", Ask(w, Request(kind, a, row)) PROVE Held'
  <2>1. PICK op : op = Request(kind, a, row)
    OBVIOUS
  <2>2. op.kind = kind /\ op.appt = a /\ op.saw = appt[a]
    BY <2>1 DEF Request
  <2> QED
    BY <1>1, <2>1, <2>2, AskHeld
<1>2. CASE AskRetry(w, a)
  <2>1. PICK op : op = [kind |-> "hand", appt |-> a, at |-> "push"]
    OBVIOUS
  <2>2. op.kind = "hand" /\ "saw" \notin DOMAIN op
    BY <2>1
  <2> QED
    BY <1>2, <2>1, <2>2, AskHeld DEF AskRetry
<1>3. ASSUME NEW h \in Hosts, NEW t \in Times, AskBook(w, a, h, t) PROVE Held'
  BY <1>1, <1>3 DEF AskBook
<1>4. ASSUME NEW t \in Times, AskReschedule(w, a, t) PROVE Held'
  BY <1>1, <1>4 DEF AskReschedule
<1>5. ASSUME NEW h \in Hosts, AskChangeHost(w, a, h) PROVE Held'
  BY <1>1, <1>5 DEF AskChangeHost
<1>6. CASE AskCancel(w, a)
  BY <1>1, <1>6 DEF AskCancel
<1>7. CASE AskConfirm(w, a)
  BY <1>1, <1>7 DEF AskConfirm
<1>8. ASSUME NEW outcome \in DOMAIN PlaceOf, AskOutcome(w, a, outcome) PROVE Held'
  <2>1. outcome # "retry"
    BY DEF PlaceOf
  <2> QED
    BY <1>1, <1>8, <2>1 DEF AskOutcome
<1> QED
  BY <1>2, <1>3, <1>4, <1>5, <1>6, <1>7, <1>8 DEF StaffAsks

(* Steps of the file and of the job, with no row in hand.                  *)
LEMMA FileStepsHeld ==
  ASSUME MeetingsTyped, Held, NEW w \in Workers,
         DecideMove(w) \/ MoveFile(w) \/ \E a \in Appts : RunPushJob(w, a)
  PROVE  Held'
<1>0. PICK op \in Work : op = work[w]
  BY WorkOf
<1>1. CASE DecideMove(w)
  <2>1. op \in Deciding
    BY <1>0, <1>1, Shapes DEF DecideMove
  <2>a. PICK to, at : work' = [work EXCEPT ![w] = [kind |-> op.kind, appt |-> op.appt,
                        row |-> appt[op.appt], from |-> place, to |-> to, at |-> at]]
    BY <1>0, <1>1 DEF DecideMove
  <2>b. PICK x : x = [kind |-> op.kind, appt |-> op.appt, row |-> appt[op.appt],
                      from |-> place, to |-> to, at |-> at]
    OBVIOUS
  <2>2. work' = [work EXCEPT ![w] = x] /\ x.kind = op.kind /\ "saw" \notin DOMAIN x
    BY <2>a, <2>b
  <2>3. work'[w] = x /\ \A v \in Workers \ {w} : work'[v] = work[v]
    BY <2>2 DEF MeetingsTyped
  <2>4. UNCHANGED <<appt, jobs, tries, old, stale>> /\ op.kind # "retry"
    BY <1>0, <1>1 DEF DecideMove, queue, ghosts
  <2>5. "saw" \notin DOMAIN op
    BY <2>1, WhoReads
  <2>6. Newest' /\ OldRead'
    BY <1>0, <2>2, <2>3, <2>4, <2>5, NobodyLooks DEF Reads, Held
  <2> QED
    BY <2>2, <2>3, <2>4, <2>6, JobsStay DEF Held
<1>2. CASE MoveFile(w)
  <2>1. op \in Decided
    BY <1>0, <1>2, Shapes DEF MoveFile, Listing, Applying
  <2>a. PICK x : x = [[[op EXCEPT !.at = "push"] EXCEPT !.from = 0] EXCEPT !.to = 0]
    OBVIOUS
  <2>b. x \in Decided /\ x.kind = op.kind
    <3>1. /\ op.kind \in Moving /\ op.appt \in Appts /\ op.row \in Row
          /\ op = [kind |-> op.kind, at |-> op.at, appt |-> op.appt, row |-> op.row,
                   from |-> op.from, to |-> op.to]
      BY <2>1 DEF Decided
    <3>2. x = [kind |-> op.kind, at |-> "push", appt |-> op.appt, row |-> op.row,
               from |-> 0, to |-> 0]
      BY <2>a, <3>1
    <3> QED
      BY <3>1, <3>2 DEF Decided
  <2>2. work' = [work EXCEPT ![w] = x]
    BY <1>0, <1>2, <2>a DEF MoveFile, MeetingsTyped
  <2>3. work'[w] = x /\ \A v \in Workers \ {w} : work'[v] = work[v]
    BY <2>2 DEF MeetingsTyped
  <2>4. UNCHANGED <<appt, jobs, tries, old, stale>> /\ op.kind # "retry"
    BY <1>2, <2>1 DEF MoveFile, queue, ghosts, Decided, Moving
  <2>5. "saw" \notin DOMAIN op /\ "saw" \notin DOMAIN x
    BY <2>1, <2>b, WhoReads DEF Work
  <2>6. Newest' /\ OldRead'
    BY <1>0, <2>3, <2>4, <2>5, NobodyLooks DEF Reads, Held
  <2> QED
    BY <2>b, <2>3, <2>4, <2>6, JobsStay DEF Held
<1>3. ASSUME NEW a \in Appts, RunPushJob(w, a) PROVE Held'
  <2>a. PICK x : x = [kind |-> "retry", appt |-> a, at |-> "push"]
    OBVIOUS
  <2>1. x.kind = "retry" /\ x.appt = a /\ "saw" \notin DOMAIN x
    BY <2>a
  <2>2. work'[w] = x /\ \A v \in Workers \ {w} : work'[v] = work[v]
    BY <1>3, <2>a DEF RunPushJob, MeetingsTyped
  <2>3. work[w] = Idle /\ UNCHANGED <<appt, jobs, old, stale>> /\ a \in jobs
    BY <1>3 DEF RunPushJob, ghosts
  <2>4. Newest' /\ OldRead'
    BY <2>1, <2>2, <2>3, NobodyLooks DEF Reads, Held, Idle
  <2>5. tries' = [tries EXCEPT ![a] = @ + 1] /\ tries \in [Appts -> Nat]
    BY <1>3 DEF RunPushJob, Held, JobsHeld
  <2>6. tries' \in [Appts -> Nat] /\ \A b \in Appts \ {a} : tries'[b] = tries[b]
    BY <2>5
  <2>7. \A b \in Appts : tries'[b] # 0 => b \in jobs'
    BY <2>3, <2>6 DEF Held, JobsHeld
  <2>8. \A v \in Workers \ {w} : work[v].kind = "retry" => work[v].appt # a
    BY <1>3 DEF RunPushJob
  <2>9. /\ \A v \in Workers : work'[v].kind = "retry" => work'[v].appt \in jobs'
        /\ \A u, v \in Workers :
             work'[u].kind = "retry" /\ work'[v].kind = "retry" /\ work'[u].appt = work'[v].appt =>
               u = v
    BY <2>1, <2>2, <2>3, <2>8 DEF Held, JobsHeld
  <2> QED
    BY <2>4, <2>6, <2>7, <2>9 DEF Held, JobsHeld
<1> QED
  BY <1>1, <1>2, <1>3

LEMMA ReadTargetHeld ==
  ASSUME MeetingsTyped, Held, NEW w \in Workers, ReadTarget(w)
  PROVE  Held'
<1>1. PICK op \in Work, a \in Appts :
        /\ op = work[w] /\ op.appt = a /\ op \in Starting \cup Decided /\ op.kind \in Pushers
  BY AtWork DEF ReadTarget
<1>2. \A b \in Appts : ~Reads(w, b)
  BY <1>1, WhoReads DEF Reads
<1>3. UNCHANGED <<appt, stale>>
  BY DEF ReadTarget
<1>4. CASE Leave(w) /\ UNCHANGED old
  <2>1. JobsHeld' /\ (\A v \in Workers \ {w} : work'[v] = work[v]) /\ \A b \in Appts : ~Reads(w, b)'
    BY <1>1, <1>4, LeavesHeld DEF Held
  <2> QED
    BY <1>2, <1>3, <1>4, <2>1, NobodyLooks DEF Held
<1>5. CASE ~(Leave(w) /\ UNCHANGED old)
  <2>a. PICK row : row = IF "row" \in DOMAIN op THEN [appt[a] EXCEPT !.time = op.row.time]
                         ELSE appt[a]
    OBVIOUS
  <2>b. PICK at : at = IF MustTakeOut(row) THEN "take out" ELSE "put in"
    OBVIOUS
  <2>1. /\ work' = [work EXCEPT ![w] = [kind |-> op.kind, appt |-> a, saw |-> row, at |-> at]]
        /\ old' = IF row = appt[a] THEN old ELSE old \cup {w}
        /\ UNCHANGED queue
    BY <1>1, <1>5, <2>a, <2>b DEF ReadTarget
  <2>2. /\ work'[w] = [kind |-> op.kind, appt |-> a, saw |-> row, at |-> at]
        /\ \A v \in Workers \ {w} : work'[v] = work[v]
    BY <1>1, <2>1 DEF MeetingsTyped
  <2>c. PICK x : x = [kind |-> op.kind, appt |-> a, saw |-> row, at |-> at]
    OBVIOUS
  <2>3. /\ work'[w] = x /\ x.kind = op.kind /\ x.appt = a /\ x.saw = row /\ x.at = at
        /\ "saw" \in DOMAIN x /\ at # "refresh"
    BY <2>2, <2>b, <2>c
  <2>4. JobsHeld'
    BY <1>1, <2>1, <2>2, <2>3, JobsStay DEF Held, queue
  <2>5. op.kind # "idle"
    BY <1>1 DEF Pushers, Edits, Moving
  <2>6. Reads(w, a)' /\ \A b \in Appts : Reads(w, b)' => b = a
    BY <2>1, <2>3, <2>5 DEF Reads
  <2>7. w \notin old' => row = appt[a]
    BY <2>1
  <2>8. old \ {w} \subseteq old' /\ old' \subseteq old \cup {w}
    BY <2>1
  <2> QED
    BY <1>3, <2>2, <2>3, <2>4, <2>6, <2>7, <2>8, LooksStay DEF Held
<1> QED
  BY <1>4, <1>5

(* Google is told: who goes by a row goes on by it.                        *)
LEMMA GoogleToldHeld ==
  ASSUME MeetingsTyped, Held, NEW w \in Workers, TakeOut(w) \/ PutIn(w)
  PROVE  Held'
<1>1. PICK op \in Work, a \in Appts :
        /\ op = work[w] /\ op.appt = a /\ op \in Sending /\ op.kind \in Pushers
        /\ op.at \in {"take out", "put in"}
  BY AtWork DEF TakeOut, PutIn
<1>2. "saw" \in DOMAIN op /\ op.kind # "idle"
  BY <1>1, WhoReads DEF Pushers, Edits, Moving
<1>3. Reads(w, a)
  BY <1>1, <1>2 DEF Reads
<1>4. PICK x : /\ work' = [work EXCEPT ![w] = x] /\ x.kind = op.kind /\ x.appt = a
               /\ x.saw = op.saw /\ x.at \in {"taken out", "put"} /\ "saw" \in DOMAIN x
  <2>1. CASE TakeOut(w)
    <3>1. PICK x : x = [op EXCEPT !.at = "taken out"]
      OBVIOUS
    <3>2. work' = [work EXCEPT ![w] = x]
      BY <1>1, <2>1, <3>1 DEF TakeOut
    <3>3. x.kind = op.kind /\ x.appt = a /\ x.saw = op.saw /\ x.at = "taken out" /\ "saw" \in DOMAIN x
      BY <1>1, <1>2, <3>1 DEF Sending
    <3> QED
      BY <3>2, <3>3
  <2>2. CASE PutIn(w)
    <3>1. PICK e : work' = [work EXCEPT ![w] = [kind |-> op.kind, appt |-> op.appt,
                     saw |-> op.saw, at |-> "put", event |-> e]]
      BY <1>1, <2>2 DEF PutIn
    <3>2. PICK x : x = [kind |-> op.kind, appt |-> op.appt, saw |-> op.saw, at |-> "put",
                        event |-> e]
      OBVIOUS
    <3>3. x.kind = op.kind /\ x.appt = a /\ x.saw = op.saw /\ x.at = "put" /\ "saw" \in DOMAIN x
      BY <1>1, <3>2
    <3>4. work' = [work EXCEPT ![w] = x]
      BY <3>1, <3>2
    <3> QED
      BY <3>3, <3>4
  <2> QED
    BY <2>1, <2>2
<1>5. work'[w] = x /\ \A v \in Workers \ {w} : work'[v] = work[v]
  BY <1>4 DEF MeetingsTyped
<1>6. UNCHANGED <<appt, jobs, tries, old>> /\ stale \subseteq stale'
  BY DEF TakeOut, PutIn, queue, ghosts, Noted
<1>7. JobsHeld'
  <2>1. work'[w].kind = work[w].kind /\ work'[w].appt = work[w].appt /\ jobs \subseteq jobs'
    BY <1>1, <1>4, <1>5, <1>6
  <2> QED
    BY <1>5, <1>6, <2>1, JobsStay DEF Held
<1>8. Reads(w, a)' /\ \A b \in Appts : Reads(w, b)' => b = a
  BY <1>2, <1>4, <1>5 DEF Reads
<1>9. a \notin stale' /\ w \notin old' => x.saw = appt[a]
  BY <1>1, <1>3, <1>4, <1>6 DEF Held, Newest
<1> QED
  BY <1>5, <1>6, <1>7, <1>8, <1>9, LooksStay DEF Held

LEMMA RecordsHeld ==
  ASSUME MeetingsTyped, Held, NEW w \in Workers, RecordOut(w) \/ RecordIn(w)
  PROVE  Held'
<1>1. PICK op \in Work, a \in Appts :
        /\ op = work[w] /\ op.appt = a /\ op \in Sending \cup Putting /\ op.kind \in Pushers
        /\ op.at \in {"taken out", "put"}
  BY AtWork DEF RecordOut, RecordIn
<1>2. "saw" \in DOMAIN op /\ op.kind # "idle" /\ op.saw \in Row
  BY <1>1, WhoReads DEF Pushers, Edits, Moving, Sending, Putting
<1>3. Reads(w, a)
  BY <1>1, <1>2 DEF Reads
<1>4. Noted(w, a) /\ Overtakes(w, a) /\ stale \subseteq stale'
  BY <1>1 DEF RecordOut, RecordIn, Noted
<1>5. \A b \in Appts \ {a} : appt'[b] = appt[b]
  BY <1>1 DEF RecordOut, RecordIn, MeetingsTyped
<1>6. CASE Leave(w)
  <2>1. JobsHeld' /\ (\A v \in Workers \ {w} : work'[v] = work[v]) /\ \A b \in Appts : ~Reads(w, b)'
    BY <1>1, <1>6, LeavesHeld DEF Held
  <2> QED
    BY <1>4, <1>5, <2>1, WritesAreNoted DEF Held
<1>7. CASE ~Leave(w)
  <2>2. op \in Sending /\ RecordOut(w)
    BY <1>1, <1>7 DEF RecordOut, RecordIn, Pushing, Putting
  <2>a. PICK saw : saw = [[[op.saw EXCEPT !.event = None] EXCEPT !.owner = None] EXCEPT !.error = FALSE]
    OBVIOUS
  <2>b. PICK x : x = [[op EXCEPT !.at = "put in"] EXCEPT !.saw = saw]
    OBVIOUS
  <2>1. work' = [work EXCEPT ![w] = x] /\ UNCHANGED queue /\ MustPutIn(op.saw)
    BY <1>1, <1>2, <1>7, <2>2, <2>a, <2>b DEF RecordOut, MeetingsTyped, Row
  <2>3. /\ work'[w] = x /\ x.kind = op.kind /\ x.appt = a /\ x.saw = saw /\ x.at = "put in"
        /\ \A v \in Workers \ {w} : work'[v] = work[v]
    BY <1>1, <2>1, <2>2, <2>b DEF MeetingsTyped, Sending
  <2>c. work'[w].kind = work[w].kind /\ work'[w].appt = work[w].appt /\ UNCHANGED <<jobs, tries>>
    BY <1>1, <2>1, <2>3 DEF queue
  <2>4. JobsHeld'
    BY <2>3, <2>c, JobsStay DEF Held
  <2>5. ASSUME NEW b \in Appts \ stale', Reads(w, b)' PROVE work'[w].saw = appt'[b]
    <3>1. b = a
      BY <2>3, <2>5 DEF Reads
    <3>2. w \notin old /\ a \notin stale
      BY <1>4, <2>5, <3>1 DEF Noted
    <3>3. op.saw = appt[a]
      BY <1>1, <1>3, <3>2 DEF Held, Newest
    <3>4. op.saw.status \in {"booked", "confirmed"}
      BY <2>1 DEF MustPutIn
    <3>5. appt'[a] = [[[appt[a] EXCEPT !.error = FALSE] EXCEPT !.event = None] EXCEPT !.owner = None]
      BY <1>1, <2>2, <3>4 DEF RecordOut, MeetingsTyped
    <3>6. saw = appt'[a]
      BY <1>2, <2>a, <3>3, <3>5 DEF Row
    <3> QED
      BY <2>3, <3>1, <3>6
  <2> QED
    BY <1>4, <1>5, <2>3, <2>4, <2>5, WritesAreNoted DEF Held
<1> QED
  BY <1>6, <1>7

LEMMA GoogleFailsHeld ==
  ASSUME MeetingsTyped, Held, NEW w \in Workers, GoogleFails(w)
  PROVE  Held'
<1>1. PICK op \in Work, a \in Appts :
        /\ op = work[w] /\ op.appt = a /\ op \in Sending /\ op.kind \in Pushers
  BY AtWork DEF GoogleFails
<1>2. PICK x : /\ x = After(op) /\ x.kind # "retry" /\ (x.kind = "idle" \/ x.at = "refresh")
  BY <1>1, AfterIsWork DEF Idle
<1>3. work'[w] = x /\ \A v \in Workers \ {w} : work'[v] = work[v]
  BY <1>1, <1>2 DEF GoogleFails, MeetingsTyped
<1>4. Overtakes(w, a) /\ UNCHANGED stale /\ \A b \in Appts \ {a} : appt'[b] = appt[b]
  BY <1>1 DEF GoogleFails, MeetingsTyped
<1>5. \A b \in Appts : ~Reads(w, b)'
  BY <1>2, <1>3 DEF Reads
<1>6. Newest' /\ OldRead'
  BY <1>3, <1>4, <1>5, WritesAreNoted DEF Held
<1>7. ASSUME op.kind = "retry" PROVE JobsHeld'
  <2>1. JobThrows(a)
    BY <1>1, <1>7 DEF GoogleFails
  <2>a. work'[w].kind # "retry" /\ work[w].kind = "retry" /\ work[w].appt = a
    BY <1>1, <1>2, <1>3, <1>7
  <2>2. CASE EndJob(a)
    BY <1>3, <2>2, <2>a, JobEnds DEF Held
  <2>3. CASE UNCHANGED queue
    <3>1. UNCHANGED tries /\ jobs \subseteq jobs'
      BY <2>3 DEF queue
    <3> QED
      BY <1>3, <2>a, <3>1, JobsStay DEF Held
  <2> QED
    BY <2>1, <2>2, <2>3 DEF JobThrows
<1>8. ASSUME op.kind # "retry" PROVE JobsHeld'
  <2>1. Report(a) \/ TryAgain(a)
    BY <1>1, <1>8 DEF GoogleFails
  <2>2. UNCHANGED tries /\ jobs \subseteq jobs'
    BY <2>1 DEF Report, TryAgain
  <2>3. work'[w].kind # "retry"
    BY <1>2, <1>3
  <2> QED
    BY <1>3, <2>2, <2>3, JobsStay DEF Held
<1> QED
  BY <1>6, <1>7, <1>8 DEF Held

LEMMA CommitHeld ==
  ASSUME MeetingsTyped, Held, NEW w \in Workers, Commit(w)
  PROVE  Held'
<1>1. PICK op \in Work, a \in Appts :
        op = work[w] /\ op.appt = a /\ op.kind \notin {"idle", "sync"} /\ op.at = "commit"
  BY WorkOf, Shapes DEF Commit, Listing, Applying
<1>2. op \in Committing /\ op.kind # "retry"
  BY <1>1, Shapes DEF Committing, Edits, Moving
<1>3. PICK x : /\ work' = [work EXCEPT ![w] = x] /\ x.kind # "retry"
               /\ x.kind = "idle" \/ "saw" \notin DOMAIN x
  <2>1. CASE op.kind = "confirm"
    <3>1. work' = [work EXCEPT ![w] = Idle]
      BY <1>1, <2>1 DEF Commit
    <3>2. Idle.kind = "idle"
      BY DEF Idle
    <3> QED
      BY <3>1, <3>2
  <2>2. CASE op.kind # "confirm"
    <3>1. PICK at : work' = [work EXCEPT ![w] = [kind |-> op.kind, appt |-> a, at |-> at]]
      BY <1>1, <2>2 DEF Commit
    <3>2. PICK x : x = [kind |-> op.kind, appt |-> a, at |-> at]
      OBVIOUS
    <3>3. x.kind = op.kind /\ "saw" \notin DOMAIN x /\ work' = [work EXCEPT ![w] = x]
      BY <3>1, <3>2
    <3> QED
      BY <1>2, <3>3
  <2> QED
    BY <2>1, <2>2
<1>4. work'[w] = x /\ \A v \in Workers \ {w} : work'[v] = work[v]
  BY <1>3 DEF MeetingsTyped
<1>5. Overtakes(w, a) /\ stale \subseteq stale' /\ \A b \in Appts \ {a} : appt'[b] = appt[b]
  BY <1>1 DEF Commit, MeetingsTyped, Noted
<1>6. \A b \in Appts : ~Reads(w, b)'
  BY <1>3, <1>4 DEF Reads
<1>7. Newest' /\ OldRead'
  BY <1>4, <1>5, <1>6, WritesAreNoted DEF Held
<1>8. UNCHANGED <<jobs, tries>>
  BY DEF Commit, queue
<1> QED
  BY <1>3, <1>4, <1>7, <1>8, JobsStay DEF Held

(* A sync, and whoever looks for the next meeting.                         *)
LEMMA SyncHeld ==
  ASSUME MeetingsTyped, Held, NEW w \in Workers,
         Refresh(w) \/ (\E h \in Hosts : SyncList(w, h)) \/ (\E e \in Events : SyncFind(w, e))
           \/ SyncApply(w) \/ SyncCommit(w)
  PROVE  Held'
<1>0. PICK op \in Work : op = work[w]
  BY WorkOf
<1>1. UNCHANGED <<jobs, tries>>
  BY DEF Refresh, SyncList, SyncFind, SyncApply, SyncCommit, queue
<1>2. CASE SyncApply(w)
  <2>1. op \in Applying
    BY <1>0, <1>2, Shapes DEF SyncApply
  <2>2. PICK a \in Appts : op.appt = a
    BY <2>1 DEF Applying
  <2>a. PICK x : x = [op EXCEPT !.at = "refresh"]
    OBVIOUS
  <2>3. x = [op EXCEPT !.at = "refresh"] /\ x.kind = "sync" /\ x.at = "refresh"
    BY <2>1, <2>a DEF Applying
  <2>4. work'[w] = x /\ \A v \in Workers \ {w} : work'[v] = work[v]
    BY <1>0, <1>2, <2>3 DEF SyncApply, MeetingsTyped
  <2>5. Overtakes(w, a) /\ stale \subseteq stale' /\ \A b \in Appts \ {a} : appt'[b] = appt[b]
    BY <1>0, <1>2, <2>2 DEF SyncApply, MeetingsTyped, Noted
  <2>6. Newest' /\ OldRead'
    BY <2>3, <2>4, <2>5, WritesAreNoted DEF Reads, Held
  <2> QED
    BY <1>1, <2>3, <2>4, <2>6, JobsStay DEF Held
<1>3. CASE ~SyncApply(w)
  <2>1. UNCHANGED <<appt, old, stale>>
    BY <1>3 DEF Refresh, SyncList, SyncFind, SyncCommit, ghosts
  <2>2. \A a \in Appts : ~Reads(w, a)
    <3>1. op.kind = "idle" \/ op.at = "refresh" \/ (op.kind = "sync" /\ op.at = "list")
      <4>1. Idle.kind = "idle"
        BY DEF Idle
      <4> QED
        BY <1>0, <1>3, <4>1 DEF Refresh, SyncList, SyncFind, SyncCommit
    <3>2. op.kind = "sync" /\ op.at = "list" => "saw" \notin DOMAIN op
      BY Shapes, WhoReads
    <3> QED
      BY <1>0, <3>1, <3>2 DEF Reads
  <2>3. PICK x : /\ work' = [work EXCEPT ![w] = x] /\ x.kind # "retry"
                 /\ "saw" \in DOMAIN x => x.appt \in Appts /\ x.saw = appt[x.appt]
    <3>1. CASE Refresh(w)
      <4>1. CASE op.kind = "sync"
        <5>1. PICK x : x = [kind |-> "sync", at |-> "list", host |-> op.host,
                            todo |-> op.todo, listed |-> op.listed]
          OBVIOUS
        <5>2. x.kind = "sync" /\ "saw" \notin DOMAIN x
          BY <5>1
        <5>3. work' = [work EXCEPT ![w] = x]
          BY <1>0, <3>1, <4>1, <5>1 DEF Refresh
        <5> QED
          BY <5>2, <5>3
      <4>2. CASE op.kind # "sync"
        <5>1. work' = [work EXCEPT ![w] = Idle]
          BY <1>0, <3>1, <4>2 DEF Refresh
        <5>2. Idle.kind = "idle" /\ "saw" \notin DOMAIN Idle
          BY DEF Idle
        <5> QED
          BY <5>1, <5>2
      <4> QED
        BY <4>1, <4>2
    <3>2. CASE \E h \in Hosts : SyncList(w, h)
      <4>1. PICK h, todo, listed :
              work' = [work EXCEPT ![w] = [kind |-> "sync", at |-> "list", host |-> h,
                                           todo |-> todo, listed |-> listed]]
        BY <3>2 DEF SyncList
      <4>2. PICK x : x = [kind |-> "sync", at |-> "list", host |-> h, todo |-> todo,
                          listed |-> listed]
        OBVIOUS
      <4>3. x.kind = "sync" /\ "saw" \notin DOMAIN x /\ work' = [work EXCEPT ![w] = x]
        BY <4>1, <4>2
      <4> QED
        BY <4>3
    <3>3. CASE \E e \in Events : SyncFind(w, e)
      <4>1. op \in Listing
        BY <1>0, <3>3, Shapes DEF SyncFind
      <4>2. CASE \E a \in Appts, e \in Events :
                   work' = [work EXCEPT ![w] = [kind |-> "sync", at |-> "apply", host |-> op.host,
                              todo |-> op.todo \ {e}, listed |-> op.listed, appt |-> a,
                              event |-> e, saw |-> appt[a]]]
        <5>1. PICK a \in Appts, e \in Events :
                work' = [work EXCEPT ![w] = [kind |-> "sync", at |-> "apply", host |-> op.host,
                           todo |-> op.todo \ {e}, listed |-> op.listed, appt |-> a,
                           event |-> e, saw |-> appt[a]]]
          BY <4>2
        <5>2. PICK x : x = [kind |-> "sync", at |-> "apply", host |-> op.host,
                            todo |-> op.todo \ {e}, listed |-> op.listed, appt |-> a,
                            event |-> e, saw |-> appt[a]]
          OBVIOUS
        <5>3. /\ x.kind = "sync" /\ x.appt = a /\ x.saw = appt[a]
              /\ work' = [work EXCEPT ![w] = x]
          BY <5>1, <5>2
        <5> QED
          BY <5>3
      <4>3. CASE \E todo, listed : work' = [work EXCEPT ![w].todo = todo, ![w].listed = listed]
        <5>1. PICK todo, listed : work' = [work EXCEPT ![w].todo = todo, ![w].listed = listed]
          BY <4>3
        <5>2. PICK x : x = [op EXCEPT !.todo = todo, !.listed = listed]
          OBVIOUS
        <5>3. work' = [work EXCEPT ![w] = x]
          BY <1>0, <5>1, <5>2 DEF MeetingsTyped
        <5>4. x.kind = "sync" /\ DOMAIN x = DOMAIN op
          BY <4>1, <5>2 DEF Listing
        <5>5. "saw" \notin DOMAIN op
          BY <4>1, WhoReads DEF Work
        <5> QED
          BY <5>3, <5>4, <5>5
      <4> QED
        BY <1>0, <3>3, <4>2, <4>3 DEF SyncFind
    <3>4. CASE SyncCommit(w)
      <4>1. work' = [work EXCEPT ![w] = Idle]
        BY <3>4 DEF SyncCommit
      <4>2. Idle.kind = "idle" /\ "saw" \notin DOMAIN Idle
        BY DEF Idle
      <4> QED
        BY <4>1, <4>2
    <3> QED
      BY <1>3, <3>1, <3>2, <3>3, <3>4
  <2>4. work'[w] = x /\ \A v \in Workers \ {w} : work'[v] = work[v]
    BY <2>3 DEF MeetingsTyped
  <2>5. \A a \in Appts : Reads(w, a)' => work'[w].saw = appt[a]
    BY <2>3, <2>4 DEF Reads
  <2>6. Newest' /\ OldRead'
    BY <2>1, <2>2, <2>4, <2>5, NobodyLooks DEF Held
  <2> QED
    BY <1>1, <2>3, <2>4, <2>6, JobsStay DEF Held
<1> QED
  BY <1>2, <1>3

LEMMA StillHeld ==
  ASSUME Held, UNCHANGED <<appt, jobs, tries, work, old, stale>>
  PROVE  Held'
BY DEF Held, Newest, OldRead, JobsHeld, Reads

LEMMA TickHeld ==
  ASSUME MeetingsTyped, Held, AppointmentTick
  PROVE  Held'
<1>1. /\ \A a \in Appts : ~Due(a) => appt'[a] = appt[a]
      /\ old' = old \cup {w \in Workers : \E a \in Appts : Due(a) /\ Reads(w, a)}
      /\ UNCHANGED <<jobs, tries, work, stale>>
  BY DEF AppointmentTick, queue
<1>2. \A w \in Workers, a \in Appts : Reads(w, a)' <=> Reads(w, a)
  BY <1>1 DEF Reads
<1>3. Newest'
  BY <1>1, <1>2 DEF Held, Newest
<1>4. OldRead'
  BY <1>1, <1>2 DEF Held, OldRead
<1>5. JobsHeld'
  BY <1>1 DEF Held, JobsHeld
<1> QED
  BY <1>3, <1>4, <1>5 DEF Held

LEMMA ExitHeld ==
  ASSUME Held, Exit
  PROVE  Held'
<1>1. \A w \in Workers : work'[w].kind = "idle"
  BY DEF Exit, Idle
<1>2. old' = {} /\ UNCHANGED <<jobs, tries>>
  BY DEF Exit, queue
<1>3. Newest' /\ OldRead'
  BY <1>1, <1>2 DEF Newest, OldRead, Reads
<1>4. JobsHeld'
  BY <1>1, <1>2 DEF Held, JobsHeld
<1> QED
  BY <1>3, <1>4 DEF Held

LEMMA HeldBegins ==
  ASSUME Init
  PROVE  Held
<1>1. \A w \in Workers : work[w].kind = "idle"
  BY DEF Init, Idle
<1>2. Newest /\ OldRead
  BY <1>1 DEF Init, Newest, OldRead, Reads
<1>3. JobsHeld
  BY <1>1 DEF Init, JobsHeld
<1> QED
  BY <1>2, <1>3 DEF Held

LEMMA HeldKeeps ==
  ASSUME MeetingsInv, Held, [Next]_vars
  PROVE  Held'
<1>0. MeetingsTyped
  BY InvParts
<1>1. CASE UNCHANGED vars
  BY <1>1, StillHeld DEF vars
<1>2. ASSUME NEW w \in Workers, NEW a \in Appts, StaffAsks(w, a) PROVE Held'
  BY <1>0, <1>2, StaffAsksHeld
<1>3. ASSUME NEW w \in Workers, WorkerStep(w) PROVE Held'
  <2>1. CASE Commit(w) \/ DecideMove(w) \/ MoveFile(w) \/ \E a \in Appts : RunPushJob(w, a)
    BY <1>0, <2>1, CommitHeld, FileStepsHeld
  <2>2. CASE ReadTarget(w) \/ TakeOut(w) \/ RecordOut(w) \/ PutIn(w) \/ RecordIn(w)
    BY <1>0, <2>2, ReadTargetHeld, GoogleToldHeld, RecordsHeld
  <2>3. CASE GoogleFails(w)
    BY <1>0, <2>3, GoogleFailsHeld
  <2>4. CASE Refresh(w) \/ (\E h \in Hosts : SyncList(w, h)) \/ (\E e \in Events : SyncFind(w, e))
               \/ SyncApply(w) \/ SyncCommit(w)
    BY <1>0, <2>4, SyncHeld
  <2> QED
    BY <1>3, <2>1, <2>2, <2>3, <2>4 DEF WorkerStep
<1>4. ASSUME NEW e \in Events, NEW t \in Times, NEW live \in BOOLEAN, Touch(e, live, t)
      PROVE  Held'
  BY <1>4, StillHeld DEF Touch, queue, ghosts
<1>5. ASSUME NEW h \in Hosts, Disconnect(h) PROVE Held'
  BY <1>5, StillHeld DEF Disconnect, queue
<1>6. ASSUME NEW p \in Places, StaffMoves(p) PROVE Held'
  BY <1>6, StillHeld DEF StaffMoves, queue, ghosts
<1>7. CASE AppointmentTick
  BY <1>0, <1>7, TickHeld
<1>8. CASE Clock
  BY <1>8, StillHeld DEF Clock, queue, ghosts
<1>9. CASE Exit
  BY <1>9, ExitHeld
<1> QED
  BY <1>1, <1>2, <1>3, <1>4, <1>5, <1>6, <1>7, <1>8, <1>9 DEF Next

-----------------------------------------------------------------------------
LEMMA MeetingsBegin ==
  ASSUME AppointmentsAssumption, Init
  PROVE  MeetingsInv
<1>1. 1 \in Times /\ 0 \in 0 .. MaxTime /\ 1 \in Places
  BY DEF AppointmentsAssumption, Times, Places
<1>2. NoMeeting \in Row /\ ~NoMeeting.error /\ NoMeeting.event = None /\ NoMeeting.status = "none"
  BY <1>1 DEF NoMeeting, Row, Status
<1>3. \A a \in Appts : appt[a] = NoMeeting
  BY DEF Init
<1>4. \A e \in Events : events[e] = None
  BY DEF Init
<1>5. \A w \in Workers : work[w] = Idle /\ work[w].kind = "idle"
  BY DEF Init, Idle
<1>6. Idle \in Work
  BY DEF Work
<1>7. MeetingsTyped
  BY <1>1, <1>2, <1>6 DEF Init, MeetingsTyped
<1>8. OneSync
  BY <1>5 DEF OneSync, Syncs
<1>9. \A w \in Workers : HandSound(w) /\ NewAlone(w)
  BY <1>5 DEF HandSound, CommitSound, MoveSound, PushSound, PutSound, SyncSound,
    NewAlone, New, Saw,
    Puts, Syncs, Acts
<1>10. \A a \in Appts : ~Open(a)
  BY <1>2, <1>3 DEF Open
<1>11. NextKept
  <2>1. Upcoming = {}
    BY <1>10 DEF Upcoming
  <2> QED
    BY <2>1 DEF NextKept, FirstUpcoming, Init
<1>12. Announced
  BY <1>10 DEF Announced
<1>13. \A a \in Appts : MeetingSound(a)
  BY <1>2, <1>3, <1>4, <1>10 DEF MeetingSound, EventKnown, CalendarSound, OwnerKept, OneLive,
    ErrorOwed,
    LiveOpen, HostOwns, TimeAgrees, Live
<1> QED
  BY <1>7, <1>8, <1>9, <1>11, <1>12, <1>13 DEF MeetingsInv

LEMMA MeetingsKeep ==
  ASSUME AppointmentsAssumption, MeetingsInv, Held, [Next]_vars
  PROVE  MeetingsInv'
<1>0. 1 \in Places /\ Newest /\ JobsHeld
  BY DEF Places, Held
<1>1. CASE UNCHANGED vars
  BY <1>0, <1>1, StaffMovesKeeps
<1>2. ASSUME NEW w \in Workers, NEW a \in Appts, StaffAsks(w, a) PROVE MeetingsInv'
  BY <1>2, StaffAsksKeeps
<1>3. ASSUME NEW w \in Workers, WorkerStep(w) PROVE MeetingsInv'
  <2>1. CASE Commit(w) \/ DecideMove(w) \/ MoveFile(w)
    BY <1>0, <2>1, CommitKeeps, DecideMoveKeeps, MoveFileKeeps
  <2>2. CASE ReadTarget(w) \/ TakeOut(w) \/ RecordOut(w) \/ PutIn(w) \/ RecordIn(w)
    BY <1>0, <2>2, ReadTargetKeeps, TakeOutKeeps, RecordOutKeeps, PutInKeeps, RecordInKeeps
  <2>3. CASE GoogleFails(w) \/ Refresh(w)
    BY <1>0, <2>3, GoogleFailsKeeps, RefreshKeeps
  <2>4. CASE \E h \in Hosts : SyncList(w, h)
    BY <2>4, SyncListKeeps
  <2>5. CASE \E e \in Events : SyncFind(w, e)
    BY <2>5, SyncFindKeeps
  <2>6. CASE SyncApply(w) \/ SyncCommit(w)
    BY <1>0, <2>6, SyncApplyKeeps, SyncCommitKeeps
  <2>7. CASE \E a \in Appts : RunPushJob(w, a)
    BY <2>7, RunPushJobKeeps
  <2> QED
    BY <1>3, <2>1, <2>2, <2>3, <2>4, <2>5, <2>6, <2>7 DEF WorkerStep
<1>4. ASSUME NEW e \in Events, NEW t \in Times, NEW live \in BOOLEAN, Touch(e, live, t)
      PROVE  MeetingsInv'
  BY <1>4, TouchKeeps
<1>5. ASSUME NEW h \in Hosts, Disconnect(h) PROVE MeetingsInv'
  BY <1>5, DisconnectKeeps
<1>6. ASSUME NEW p \in Places, StaffMoves(p) PROVE MeetingsInv'
  BY <1>6, StaffMovesKeeps
<1>7. CASE AppointmentTick
  BY <1>7, TickKeeps
<1>8. CASE Clock
  BY <1>8, ClockKeeps
<1>9. CASE Exit
  BY <1>9, ExitKeeps
<1> QED
  BY <1>1, <1>2, <1>3, <1>4, <1>5, <1>6, <1>7, <1>8, <1>9 DEF Next

LEMMA MeetingsAreTyped ==
  ASSUME MeetingsInv, Held
  PROVE  TypeOK
<1>0. MeetingsTyped
  BY InvParts
<1>1. ASSUME NEW a \in Appts
      PROVE  /\ appt[a].status \in Status /\ appt[a].time \in Times
             /\ appt[a].event \in Events \cup {None} /\ appt[a].host \in Hosts \cup {None}
             /\ appt[a].event # None => events[appt[a].event] # None
  <2>1. appt[a] \in Row
    BY <1>0 DEF MeetingsTyped
  <2> QED
    BY <2>1, InvParts DEF Row, MeetingSound, EventKnown, Known
<1> QED
  BY <1>0, <1>1 DEF MeetingsTyped, TypeOK, Held, OldRead, JobsHeld

LEMMA CalendarsAreShown ==
  ASSUME MeetingsInv, AppointmentsAssumption
  PROVE  CalendarsAgree
<1> SUFFICES ASSUME NEW a \in Appts \ (stale \cup cut), ~Touched(a)
             PROVE  /\ appt[a].error /\ (MustTakeOut(appt[a]) \/ MustPutIn(appt[a])) =>
                         a \in jobs \cup spent
                    /\ a \notin jobs /\ ~appt[a].error =>
                         /\ \A e \in Events : events[e] # None /\ events[e].live /\ events[e].of = a =>
                              Open(a) /\ appt[a].event = e
                         /\ MustPutIn(appt[a]) => appt[a].event # None
                         /\ Open(a) /\ appt[a].event # None => LET e == events[appt[a].event] IN
                              e.dirty = "no" => e.live /\ e.time = appt[a].time /\ e.owner = appt[a].host
  BY DEF CalendarsAgree
<1>1. CalendarSound(a)
  BY InvParts DEF MeetingSound, Fine
<1>2. /\ \A w \in Workers : ~On(w, a) /\ ~Pushes(w, a)
      /\ \A w \in Workers : \A e : ~Applies(w, a, e)
  BY DEF Touched, On, Acts, Pushes, Applies, Syncs
<1>3. Owed(a) => a \in jobs
  BY <1>2 DEF Owed
<1>4. Excused(a) => a \in jobs \/ appt[a].error
  BY <1>3 DEF Excused
<1>5. appt[a].error /\ (MustTakeOut(appt[a]) \/ MustPutIn(appt[a])) => a \in jobs \cup spent
  BY <1>1, <1>3 DEF CalendarSound, ErrorOwed, Tried
<1>6. ASSUME a \notin jobs, ~appt[a].error, NEW e \in Events, events[e] # None, events[e].live, events[e].of = a
      PROVE  Open(a) /\ appt[a].event = e
  <2>1. appt[a].event = e
    BY <1>1, <1>2, <1>6 DEF CalendarSound, OneLive, Live
  <2> QED
    BY <1>1, <1>4, <1>6, <2>1 DEF CalendarSound, LiveOpen, Live, AppointmentsAssumption
<1>8. ASSUME a \notin jobs, ~appt[a].error, MustPutIn(appt[a]) PROVE appt[a].event # None
  BY <1>1, <1>4, <1>8 DEF CalendarSound, HostOwns, MustPutIn, Open
<1>7. ASSUME a \notin jobs, ~appt[a].error, Open(a), appt[a].event # None, events[appt[a].event].dirty = "no"
      PROVE  LET e == events[appt[a].event] IN
             e.live /\ e.time = appt[a].time /\ e.owner = appt[a].host
  <2>1. Told(appt[a].event)
    BY <1>7 DEF Told
  <2>2. events[appt[a].event].live /\ events[appt[a].event].time = appt[a].time
    BY <1>1, <1>2, <1>4, <1>7, <2>1 DEF CalendarSound, TimeAgrees, Coming
  <2>3. events[appt[a].event].owner = appt[a].host
    BY <1>1, <1>4, <1>7 DEF CalendarSound, OwnerKept, HostOwns
  <2> QED
    BY <2>2, <2>3
<1> QED
  BY <1>5, <1>6, <1>7, <1>8

LEMMA ClockIsRight ==
  ASSUME MeetingsInv
  PROVE  ClockIsKept
<1>1. NextKept /\ Announced
  BY InvParts
<1>2. (\A w \in Workers : work[w].kind = "idle") => \A w \in Workers : ~Refreshes(w)
  BY DEF Refreshes
<1> QED
  BY <1>1, <1>2 DEF ClockIsKept, NextKept, Announced

(* What one step may do to the place of the file.                          *)
FileStep ==
  (place' < place \/ Settled(place)) /\ place' # place =>
    \/ ~Settled(place) /\ place = PlaceOf.missed
    \/ \E w \in Workers : work[w].kind # "idle" /\ work[w].at = "move" /\ work[w].from # place

LEMMA WantedGoesOn ==
  ASSUME NEW kind \in Moving, NEW p \in Places
  PROVE  /\ Settled(p) => Wanted(kind, p) = p
         /\ ~Settled(p) /\ p # PlaceOf.missed => ~(Wanted(kind, p) < p)
BY DEF Wanted, Moving, Places, PlaceOf, Settled, BookedAt

LEMMA FileStepsOn ==
  ASSUME MeetingsInv, [Next]_vars
  PROVE  FileStep
<1>0. place \in Places /\ MeetingsTyped
  BY InvParts DEF MeetingsTyped
<1>1. CASE \E w \in Workers : MoveFile(w)
  <2>1. PICK w \in Workers : MoveFile(w)
    BY <1>1
  <2>2. PICK op \in Work : op = work[w]
    BY <1>0, WorkOf
  <2>3. op.kind # "idle" /\ op.at = "move" /\ place' = op.to
    BY <2>1, <2>2 DEF MoveFile
  <2>4. op.kind # "sync"
    BY <2>3, Shapes DEF Listing, Applying
  <2>5. op \in Decided
    BY <2>3, <2>4, Shapes
  <2>6. op.kind \in Moving /\ op.to = Wanted(op.kind, op.from)
    BY <2>2, <2>3, <2>4, <2>5, InvParts DEF HandSound, MoveSound, Acts, Decided
  <2>7. CASE op.from # place
    BY <2>2, <2>3, <2>7 DEF FileStep
  <2>8. CASE op.from = place
    BY <1>0, <2>3, <2>6, <2>8, WantedGoesOn DEF FileStep
  <2> QED
    BY <2>7, <2>8
<1>2. ASSUME NEW p \in Places, StaffMoves(p) PROVE FileStep
  BY <1>0, <1>2 DEF StaffMoves, FileStep, Settled, Places
<1>3. CASE UNCHANGED place
  BY <1>3 DEF FileStep
<1>4. ASSUME NEW w \in Workers, NEW a \in Appts, StaffAsks(w, a) PROVE UNCHANGED place
  BY <1>4 DEF StaffAsks, AskBook, AskReschedule, AskChangeHost, AskCancel, AskConfirm,
    AskOutcome, AskRetry, Ask
<1>5. ASSUME NEW w \in Workers, WorkerStep(w), ~MoveFile(w) PROVE UNCHANGED place
  <2>1. CASE Commit(w) \/ DecideMove(w)
    BY <2>1 DEF Commit, DecideMove
  <2>2. CASE ReadTarget(w) \/ TakeOut(w) \/ RecordOut(w) \/ PutIn(w) \/ RecordIn(w)
    BY <2>2 DEF ReadTarget, TakeOut, RecordOut, PutIn, RecordIn
  <2>3. CASE GoogleFails(w) \/ Refresh(w) \/ SyncApply(w) \/ SyncCommit(w)
    BY <2>3 DEF GoogleFails, Refresh, SyncApply, SyncCommit
  <2>4. CASE \E h \in Hosts : SyncList(w, h)
    BY <2>4 DEF SyncList
  <2>5. CASE \E e \in Events : SyncFind(w, e)
    BY <2>5 DEF SyncFind
  <2>6. CASE \E a \in Appts : RunPushJob(w, a)
    BY <2>6 DEF RunPushJob
  <2> QED
    BY <1>5, <2>1, <2>2, <2>3, <2>4, <2>5, <2>6 DEF WorkerStep
<1>6. CASE \E e \in Events, t \in Times, live \in BOOLEAN : Touch(e, live, t)
  BY <1>3, <1>6 DEF Touch
<1>7. CASE \E h \in Hosts : Disconnect(h)
  BY <1>3, <1>7 DEF Disconnect
<1>8. CASE AppointmentTick \/ Clock \/ Exit
  BY <1>3, <1>8 DEF AppointmentTick, Clock, Exit
<1>9. CASE UNCHANGED vars
  BY <1>3, <1>9 DEF vars
<1> QED
  BY <1>1, <1>2, <1>3, <1>4, <1>5, <1>6, <1>7, <1>8, <1>9 DEF Next


-----------------------------------------------------------------------------
(* The library as the board sees it.                                       *)
LEMMA BoardCounts ==
  ASSUME NEW S
  PROVE  (Board!IsFiniteSet(S) <=> IsFiniteSet(S)) /\ Board!Cardinality(S) = Cardinality(S)
BY DEF Board!IsFiniteSet, IsFiniteSet, Board!Cardinality, Cardinality

(* What is so of pipelines, stages, files, and of what those at work have  *)
(* in hand.                                                                *)

LiveAs(r, c) == r.state = "live" /\ r.active /\ r.cat = c

(* The stages of p, by the rows f, are all a pipeline needs.               *)
FullAs(f, p) ==
  \A c \in {"open", "won", "lost"} : \E s \in Stages : Home[s] = p /\ LiveAs(f[s], c)

(* The same without stage gone, or with a row r instead.                   *)
FullWithout(f, p, gone) ==
  \A c \in {"open", "won", "lost"} : \E s \in Stages \ {gone} : Home[s] = p /\ LiveAs(f[s], c)
FullWith(f, p, gone, r) ==
  \A c \in {"open", "won", "lost"} :
    \/ r.active /\ r.cat = c
    \/ \E s \in Stages \ {gone} : Home[s] = p /\ LiveAs(f[s], c)

TablesTyped ==
  /\ pipe \in [Pipes -> Board!Pipe] /\ stage \in [Stages -> Board!Stage] /\ file \in [Files -> Board!FileRow]
  /\ claim \in Pipes \cup {Board!NoPipe} /\ (claim # Board!NoPipe => pipe[claim].state = "live")
  /\ steps \in 0 .. MaxSteps /\ frayed \subseteq Pipes

StagesFollow ==
  \A s \in Stages :
    /\ stage[s].state = "live" => pipe[Home[s]].state = "live"
    /\ pipe[Home[s]].state = "new" => stage[s].state = "new"

DefaultStands ==
  \E p \in Pipes : /\ \A q \in Pipes : pipe[q].default <=> q = p
                   /\ pipe[p].state = "live" /\ pipe[p].active

WholeStand ==
  \A p \in Pipes \ frayed : pipe[p].state = "live" /\ pipe[p].active => FullAs(stage, p)

LockKinds == {"edit pipe", "delete pipe"}
Changes == {"activate", "deactivate", "make default", "claim"}

(* What an open transaction was let in with, and the lock it holds has     *)
(* kept so, with the pipelines ps.                                         *)
PipeHeld(op, ps) ==
  /\ op.kind # "idle" => ps[op.pipe].state # "new"
  /\ op.kind \in LockKinds =>
       /\ ps[op.pipe].state = "live"
       /\ op.kind = "edit pipe" => /\ op.change \in Changes
                                   /\ op.change = "make default" => ps[op.pipe].active
       /\ op.kind = "delete pipe" \/ op.change = "deactivate" => ~ps[op.pipe].default

(* What it saw let it in.                                                  *)
SawEnough(op) ==
  /\ op.kind = "edit pipe" /\ op.change = "activate" => FullAs(op.saw.rows, op.pipe)
  /\ op.kind = "edit stage" =>
       /\ op.stage \in Stages /\ op.new \in Board!Stage /\ op.pipe = Home[op.stage]
       /\ op.saw.rows[op.stage].state = "live"
       /\ op.saw.row.active => FullWith(op.saw.rows, op.pipe, op.stage, op.new)
  /\ op.kind = "delete stage" =>
       /\ op.stage \in Stages /\ op.pipe = Home[op.stage]
       /\ op.saw.row.active => FullWithout(op.saw.rows, op.pipe, op.stage)

(* Where the files of what goes are to be put, with the stages ss.         *)
AimStands(op, ss) ==
  op.kind \in {"delete pipe", "delete stage"} =>
    /\ op.target \in Stages /\ op.occupied \subseteq Stages
    /\ op.occupied # {} =>
         /\ ss[op.target].state # "new"
         /\ IF op.kind = "delete pipe" THEN Home[op.target] # op.pipe ELSE op.target # op.stage

OpStands(op, ps, ss) ==
  /\ op.kind \in {"idle", "edit pipe", "delete pipe", "edit stage", "delete stage"}
  /\ op.kind # "idle" => op.pipe \in Pipes
  /\ PipeHeld(op, ps) /\ SawEnough(op) /\ AimStands(op, ss)

WorkStands ==
  work = [a \in Admins |-> work[a]] /\ \A a \in Admins : OpStands(work[a], pipe, stage)
OnePerPipe ==
  \A a, b \in Admins :
    work[a].kind \in LockKinds /\ work[b].kind \in LockKinds /\ work[a].pipe = work[b].pipe => a = b

MoveStands(m, ss) ==
  /\ m.file \in Files /\ m.target \in Stages /\ m.kind \in {"move", "import", "fund"}
  /\ m.rows \in [Stages -> Board!Stage] /\ m.rows[m.target].state = "live" /\ m.disposition \in BOOLEAN
  /\ ss[m.target].state # "new"
MovesStand == \A m \in moves : MoveStands(m, stage)

(* A file that is here, and the marks it carries.                          *)
FileStands(r, ss) ==
  r.here => /\ r.on \in Stages /\ r.in = Home[r.on] /\ ss[r.on].state # "new"
            /\ ~r.late => ss[r.on].state = "live"
MarksTrue(r, ss) ==
  r.here /\ ~r.strayed =>
    LET cat == ss[r.on].cat IN
      /\ r.lost = (cat = "lost") /\ (r.disposition => cat = "lost")
      /\ r.automated => cat \notin {"won", "lost"}
FilesStand == \A f \in Files : FileStands(file[f], stage) /\ MarksTrue(file[f], stage)

BoardInv ==
  /\ TablesTyped /\ StagesFollow /\ DefaultStands /\ WholeStand
  /\ WorkStands /\ OnePerPipe /\ MovesStand /\ FilesStand

-----------------------------------------------------------------------------
(* The parts of it that a step leaves alone.                               *)

(* The lowest of some stages is one of them.                               *)
LEMMA FirstIsOne ==
  ASSUME IsFiniteSet(Stages), stage \in [Stages -> Board!Stage], NEW S \in SUBSET Stages, S # {}
  PROVE  Board!First(S) \in S
<1> DEFINE upTo(s) == {t \in S : stage[t].position <= stage[s].position}
           T == {upTo(s) : s \in S}
<1>1. IsWellFoundedOn(StrictSubsetOrdering(Stages), SUBSET Stages)
  BY FS_StrictSubsetOrderingWellFounded, FS_FiniteSubsetsOfFinite, Zenon
<1>2. T \subseteq SUBSET Stages /\ T # {}
  OBVIOUS
<1>3. PICK B \in T : \A C \in T : <<C, B>> \notin StrictSubsetOrdering(Stages)
  <2> HIDE DEF T
  <2> QED
    BY <1>1, <1>2, WFMin, Zenon
<1>4. \A C \in T : ~(C \subseteq B /\ C # B)
  BY <1>2, <1>3 DEF StrictSubsetOrdering
<1>5. PICK m \in S : B = upTo(m)
  OBVIOUS
<1>6. \A s \in S : stage[s].position \in Nat
  BY DEF Board!Stage
<1>7. ASSUME NEW s \in S, ~(stage[m].position <= stage[s].position) PROVE FALSE
  <2>1. upTo(s) \in T
    OBVIOUS
  <2>2. \A t \in upTo(s) : t \in upTo(m)
    BY <1>6, <1>7
  <2>3. m \in upTo(m) /\ m \notin upTo(s)
    BY <1>6, <1>7
  <2> QED
    BY <1>4, <1>5, <2>1, <2>2, <2>3
<1>8. \E s \in S : \A t \in S : stage[s].position <= stage[t].position
  BY <1>7
<1> QED
  BY <1>8 DEF Board!First

LEMMA FullIsComplete ==
  ASSUME NEW p
  PROVE  Board!Complete({stage[s] : s \in Board!StagesOf(p)}) <=> FullAs(stage, p)
BY DEF Board!Complete, FullAs, LiveAs, Board!StagesOf

(* What was seen of a pipeline, and is still so.                           *)
LEMMA SawSays ==
  ASSUME NEW op, NEW p \in Pipes, Board!Saw(p) = op.saw
  PROVE  /\ op.saw.row = pipe[p]
         /\ \A s \in Stages : Home[s] = p => op.saw.rows[s] = stage[s]
<1>1. Board!Saw(p).row = pipe[p] /\ \A s \in {t \in Stages : Home[t] = p} : Board!Saw(p).rows[s] = stage[s]
  BY DEF Board!Saw
<1> QED
  BY <1>1

(* Stages that are not new stay so, those in use stay, and the kind of a   *)
(* stage does not change.                                                  *)
StagesGrow ==
  \A s \in Stages : stage[s].state # "new" =>
    /\ stage'[s].state # "new" /\ stage'[s].cat = stage[s].cat
    /\ stage[s].state = "live" => stage'[s].state = "live"

LEMMA FilesStay ==
  ASSUME FilesStand, StagesGrow, UNCHANGED file
  PROVE  FilesStand'
BY DEF FilesStand, FileStands, MarksTrue, StagesGrow

LEMMA MovesStay ==
  ASSUME MovesStand, \A s \in Stages : stage[s].state # "new" => stage'[s].state # "new",
         moves' \subseteq moves
  PROVE  MovesStand'
BY DEF MovesStand, MoveStands

(* A transaction stays as it is when the pipelines and the stages do, as   *)
(* far as it looks at them.                                                *)
LEMMA OpStays ==
  ASSUME NEW op, NEW ps, NEW ss, NEW qs, NEW ts, OpStands(op, ps, ss), PipeHeld(op, qs),
         \A s \in Stages : ss[s].state # "new" => ts[s].state # "new"
  PROVE  OpStands(op, qs, ts)
BY DEF OpStands, AimStands

LEMMA IdleStands ==
  ASSUME NEW ps, NEW ss
  PROVE  OpStands(Board!Idle, ps, ss) /\ Board!Idle.kind \notin LockKinds
BY DEF OpStands, PipeHeld, SawEnough, AimStands, Board!Idle, LockKinds

(* Somebody is done: what the others hold is as it was.                    *)
LEMMA WorkStays ==
  ASSUME WorkStands, OnePerPipe, NEW a \in Admins, Board!Close(a) \/ UNCHANGED work,
         \A b \in Admins : work'[b] = work[b] => PipeHeld(work[b], pipe'),
         \A s \in Stages : stage[s].state # "new" => stage'[s].state # "new"
  PROVE  WorkStands' /\ OnePerPipe'
<1>1. \A b \in Admins : work'[b] = work[b] \/ work'[b] = Board!Idle
  BY DEF Board!Close, WorkStands
<1>2. work' = [b \in Admins |-> work'[b]]
  BY DEF Board!Close, WorkStands
<1>3. ASSUME NEW b \in Admins PROVE OpStands(work'[b], pipe', stage')
  <2>1. CASE work'[b] = work[b]
    BY <2>1, OpStays DEF WorkStands
  <2>2. CASE work'[b] = Board!Idle
    BY <2>2, IdleStands
  <2> QED
    BY <1>1, <2>1, <2>2
<1>4. WorkStands'
  BY <1>2, <1>3 DEF WorkStands
<1>5. Board!Idle.kind \notin LockKinds
  BY DEF Board!Idle, LockKinds
<1> QED
  BY <1>1, <1>4, <1>5 DEF OnePerPipe

-----------------------------------------------------------------------------
(* A transaction is opened.                                                *)

(* What is not in hand stays.                                              *)
LEMMA TablesStay ==
  ASSUME BoardInv, UNCHANGED <<pipe, stage, claim, file, moves, frayed>>,
         steps' \in 0 .. MaxSteps
  PROVE  (/\ TablesTyped /\ StagesFollow /\ DefaultStands /\ WholeStand
          /\ MovesStand /\ FilesStand)'
<1>1. TablesTyped'
  BY DEF BoardInv, TablesTyped
<1>2. StagesFollow' /\ DefaultStands'
  BY DEF BoardInv, StagesFollow, DefaultStands
<1>3. WholeStand'
  BY DEF BoardInv, WholeStand, FullAs
<1>4. MovesStand'
  BY MovesStay DEF BoardInv
<1>5. FilesStand'
  BY FilesStay DEF BoardInv, StagesGrow
<1> QED
  BY <1>1, <1>2, <1>3, <1>4, <1>5

LEMMA OpenKeeps ==
  ASSUME BoardInv, MaxSteps \in Nat, NEW a \in Admins, NEW op, Board!Open(a, op),
         OpStands(op, pipe, stage),
         op.kind \in LockKinds => ~Board!PipeLocked(op.pipe)
  PROVE  BoardInv'
<1>0. /\ WorkStands /\ OnePerPipe /\ steps \in 0 .. MaxSteps
      /\ work[a] = Board!Idle /\ steps < MaxSteps /\ steps' = steps + 1
      /\ work' = [work EXCEPT ![a] = op]
      /\ UNCHANGED <<pipe, stage, claim, file, moves, frayed>>
  BY DEF BoardInv, TablesTyped, Board!Open
<1>1. /\ work'[a] = op /\ \A b \in Admins : b # a => work'[b] = work[b]
      /\ work' = [b \in Admins |-> work'[b]]
  BY <1>0 DEF WorkStands
<1>2. WorkStands'
  <2>1. \A b \in Admins : OpStands(work'[b], pipe, stage)
    BY <1>0, <1>1 DEF WorkStands
  <2> QED
    BY <1>0, <1>1, <2>1 DEF WorkStands
<1>3. OnePerPipe'
  <2>1. op.kind \in LockKinds =>
          \A b \in Admins : work[b].kind \in LockKinds => work[b].pipe # op.pipe
    BY DEF Board!PipeLocked, LockKinds
  <2> QED
    BY <1>0, <1>1, <2>1 DEF OnePerPipe
<1>4. steps' \in 0 .. MaxSteps
  BY <1>0
<1>5. (/\ TablesTyped /\ StagesFollow /\ DefaultStands /\ WholeStand
       /\ MovesStand /\ FilesStand)'
  BY <1>0, <1>4, TablesStay
<1> QED
  BY <1>2, <1>3, <1>5 DEF BoardInv

SeenAs(f, p) == \A t \in Stages : Home[t] = p => f[t] = stage[t]

LEMMA CompleteSays ==
  ASSUME NEW p, NEW f, SeenAs(f, p), Board!Complete({stage[t] : t \in Board!StagesOf(p)})
  PROVE  FullAs(f, p)
BY DEF Board!Complete, FullAs, LiveAs, Board!StagesOf, SeenAs

LEMMA CompleteWithout ==
  ASSUME NEW p, NEW f, NEW s, SeenAs(f, p),
         Board!Complete({stage[t] : t \in Board!StagesOf(p) \ {s}})
  PROVE  FullWithout(f, p, s)
BY DEF Board!Complete, FullWithout, LiveAs, Board!StagesOf, SeenAs

LEMMA CompleteWith ==
  ASSUME NEW p, NEW f, NEW s, NEW r, SeenAs(f, p),
         Board!Complete({stage[t] : t \in Board!StagesOf(p) \ {s}} \cup {r})
  PROVE  FullWith(f, p, s, r)
BY DEF Board!Complete, FullWith, LiveAs, Board!StagesOf, SeenAs

LEMMA SawIs ==
  ASSUME NEW p \in Pipes
  PROVE  Board!Saw(p).row = pipe[p] /\ SeenAs(Board!Saw(p).rows, p)
BY DEF Board!Saw, SeenAs

LEMMA OpenEditPipeKeeps ==
  ASSUME BoardInv, Board!PipelinesAssumption, NEW a \in Admins, NEW p \in Pipes,
         NEW change \in Changes, Board!OpenEditPipe(a, p, change)
  PROVE  BoardInv'
<1> DEFINE op == [kind |-> "edit pipe", pipe |-> p, change |-> change, saw |-> Board!Saw(p)]
<1>1. /\ pipe[p].state = "live" /\ ~Board!PipeLocked(p) /\ Board!Open(a, op)
      /\ change = "activate" => Board!Complete({stage[s] : s \in Board!StagesOf(p)})
      /\ change = "deactivate" => ~pipe[p].default
      /\ change = "make default" => pipe[p].active
  BY DEF Board!OpenEditPipe, Changes
<1>2. op.kind = "edit pipe" /\ op.pipe = p /\ op.change = change /\ op.saw = Board!Saw(p)
  OBVIOUS
<1> HIDE DEF op
<1>3. change = "activate" => FullAs(op.saw.rows, p)
  BY <1>1, <1>2, SawIs, CompleteSays
<1>4. OpStands(op, pipe, stage)
  BY <1>1, <1>2, <1>3 DEF OpStands, PipeHeld, SawEnough, AimStands, LockKinds
<1> QED
  BY <1>1, <1>2, <1>4, OpenKeeps DEF Board!PipelinesAssumption

(* A file that is here is on a stage.                                      *)
LEMMA FileIsOn ==
  ASSUME BoardInv, NEW f \in Files, file[f].here
  PROVE  file[f].on \in Stages /\ file[f].in = Home[file[f].on]
         /\ stage[file[f].on].state # "new"
BY DEF BoardInv, FilesStand, FileStands

LEMMA OpenDeletePipeKeeps ==
  ASSUME BoardInv, Board!PipelinesAssumption, NEW a \in Admins, NEW p \in Pipes,
         NEW target \in Stages, Board!OpenDeletePipe(a, p, target)
  PROVE  BoardInv'
<1> DEFINE occupied == {s \in Stages : \E f \in Board!OnStage(s) : file[f].in = p}
           op == [kind |-> "delete pipe", pipe |-> p, target |-> target,
                  occupied |-> occupied, counted |-> UNION {Board!OnStage(s) : s \in occupied},
                  saw |-> Board!Saw(p), aim |-> stage[target]]
<1>1. /\ pipe[p].state = "live" /\ ~Board!PipeLocked(p) /\ ~pipe[p].default /\ Board!Open(a, op)
      /\ occupied # {} => Board!Usable(target) /\ Home[target] # p
  BY DEF Board!OpenDeletePipe
<1>2. op.kind = "delete pipe" /\ op.pipe = p /\ op.target = target /\ op.occupied = occupied
      /\ occupied \subseteq Stages
  OBVIOUS
<1> HIDE DEF op, occupied
<1>3. Board!Usable(target) => stage[target].state # "new"
  BY DEF Board!Usable
<1>4. OpStands(op, pipe, stage)
  BY <1>1, <1>2, <1>3 DEF OpStands, PipeHeld, SawEnough, AimStands, LockKinds
<1> QED
  BY <1>1, <1>2, <1>4, OpenKeeps DEF Board!PipelinesAssumption

LEMMA OpenEditStageKeeps ==
  ASSUME BoardInv, Board!PipelinesAssumption, NEW a \in Admins, NEW s \in Stages,
         NEW new \in Board!Stage, Board!OpenEditStage(a, s, new)
  PROVE  BoardInv'
<1> DEFINE p == Home[s]
           op == [kind |-> "edit stage", stage |-> s, pipe |-> p, new |-> new,
                  saw |-> Board!Saw(p)]
<1>0. p \in Pipes
  BY DEF Board!PipelinesAssumption
<1>1. /\ Board!Open(a, op) /\ pipe[p].state = "live" /\ stage[s].state = "live"
      /\ pipe[p].active => Board!Complete({stage[t] : t \in Board!StagesOf(p) \ {s}} \cup {new})
  BY DEF Board!OpenEditStage, Board!StageOpen
<1>2. op.kind = "edit stage" /\ op.pipe = p /\ op.stage = s /\ op.new = new
      /\ op.saw = Board!Saw(p) /\ p = Home[s]
  OBVIOUS
<1> HIDE DEF op, p
<1>3. op.saw.row = pipe[p] /\ (pipe[p].active => FullWith(op.saw.rows, p, s, new))
  BY <1>0, <1>1, <1>2, SawIs, CompleteWith
<1>6. op.saw.rows[s].state = "live"
  BY <1>0, <1>1, <1>2, SawIs DEF SeenAs
<1>4. OpStands(op, pipe, stage)
  BY <1>0, <1>1, <1>2, <1>3, <1>6 DEF OpStands, PipeHeld, SawEnough, AimStands,
    LockKinds
<1>5. op.kind \notin LockKinds
  BY <1>2 DEF LockKinds
<1> QED
  BY <1>1, <1>4, <1>5, OpenKeeps DEF Board!PipelinesAssumption

LEMMA OpenDeleteStageKeeps ==
  ASSUME BoardInv, Board!PipelinesAssumption, NEW a \in Admins, NEW s \in Stages,
         NEW target \in Stages, Board!OpenDeleteStage(a, s, target)
  PROVE  BoardInv'
<1> DEFINE p == Home[s]
           occupied == {t \in {s} : Board!OnStage(t) # {}}
           op == [kind |-> "delete stage", stage |-> s, pipe |-> p, target |-> target,
                  occupied |-> occupied, counted |-> Board!OnStage(s),
                  saw |-> Board!Saw(p), aim |-> stage[target]]
<1>0. p \in Pipes
  BY DEF Board!PipelinesAssumption
<1>1. /\ Board!Open(a, op) /\ pipe[p].state = "live"
      /\ pipe[p].active => Board!Complete({stage[t] : t \in Board!StagesOf(p) \ {s}})
      /\ Board!OnStage(s) # {} => target # s /\ Board!Usable(target)
  BY DEF Board!OpenDeleteStage, Board!StageOpen
<1>2. op.kind = "delete stage" /\ op.pipe = p /\ op.stage = s /\ op.target = target
      /\ op.saw = Board!Saw(p) /\ p = Home[s] /\ op.occupied = occupied
      /\ occupied \subseteq Stages /\ (occupied # {} => Board!OnStage(s) # {})
  OBVIOUS
<1> HIDE DEF op, p, occupied
<1>3. op.saw.row = pipe[p] /\ (pipe[p].active => FullWithout(op.saw.rows, p, s))
  BY <1>0, <1>1, <1>2, SawIs, CompleteWithout
<1>4. Board!Usable(target) => stage[target].state # "new"
  BY DEF Board!Usable
<1>5. OpStands(op, pipe, stage)
  BY <1>0, <1>1, <1>2, <1>3, <1>4 DEF OpStands, PipeHeld, SawEnough, AimStands,
    LockKinds
<1>6. op.kind \notin LockKinds
  BY <1>2 DEF LockKinds
<1> QED
  BY <1>1, <1>5, <1>6, OpenKeeps DEF Board!PipelinesAssumption

-----------------------------------------------------------------------------
(* ... and closed.                                                         *)

LEMMA PipeIsHeld ==
  ASSUME BoardInv, NEW a \in Admins, work[a].kind # "idle"
  PROVE  /\ OpStands(work[a], pipe, stage) /\ work[a].pipe \in Pipes
         /\ pipe[work[a].pipe].state # "new"
BY DEF BoardInv, WorkStands, OpStands, PipeHeld

LEMMA FrayGrows ==
  ASSUME BoardInv, NEW op, op.pipe \in Pipes, frayed' = Board!Fray(op)
  PROVE  /\ frayed' \subseteq Pipes /\ frayed \subseteq frayed'
         /\ op.pipe \notin frayed' => Board!Saw(op.pipe) = op.saw
BY DEF Board!Fray, BoardInv, TablesTyped

(* The pipelines that others hold are others.                              *)
LEMMA OthersHold ==
  ASSUME BoardInv, NEW a \in Admins, work[a].kind # "idle", Board!Close(a),
         NEW b \in Admins, work'[b] = work[b], work[b].kind # "idle"
  PROVE  /\ PipeHeld(work[b], pipe) /\ work[b].pipe \in Pipes
         /\ work[a].kind \in LockKinds /\ work[b].kind \in LockKinds =>
              work[b].pipe # work[a].pipe
<1>1. b # a
  BY DEF Board!Close, Board!Idle, BoardInv, WorkStands
<1> QED
  BY <1>1 DEF BoardInv, WorkStands, OpStands, OnePerPipe

LEMMA CommitEditPipeKeeps ==
  ASSUME BoardInv, Board!PipelinesAssumption, NEW a \in Admins, Board!CommitEditPipe(a)
  PROVE  BoardInv'
<1> DEFINE op == work[a]
           p == op.pipe
<1>1. /\ op.kind = "edit pipe" /\ frayed' = Board!Fray(op) /\ Board!Close(a)
      /\ UNCHANGED <<stage, file, moves, steps>>
  BY DEF Board!CommitEditPipe
<1>2. /\ p \in Pipes /\ OpStands(op, pipe, stage)
      /\ pipe[p].state = "live" /\ op.change \in Changes
      /\ op.change = "make default" => pipe[p].active
      /\ op.change = "deactivate" => ~pipe[p].default
      /\ op.change = "activate" => FullAs(op.saw.rows, p)
  BY <1>1, PipeIsHeld DEF OpStands, PipeHeld, SawEnough, LockKinds
<1>3. /\ op.change = "make default" =>
           /\ pipe' = [q \in Pipes |-> [pipe[q] EXCEPT !.default = (q = p)]]
           /\ UNCHANGED claim
      /\ op.change = "claim" => claim' = p /\ UNCHANGED pipe
      /\ op.change \in {"activate", "deactivate"} =>
           /\ pipe' = [pipe EXCEPT ![p].active = (op.change = "activate")]
           /\ UNCHANGED claim
  BY <1>2 DEF Board!CommitEditPipe, Changes
<1>4. pipe \in [Pipes -> Board!Pipe] /\ \A q \in Pipes : pipe[q] \in Board!Pipe
  BY DEF BoardInv, TablesTyped
<1> HIDE DEF op, p
<1>5. /\ pipe' \in [Pipes -> Board!Pipe]
      /\ \A q \in Pipes : /\ pipe'[q].state = pipe[q].state
                          /\ q # p => pipe'[q].active = pipe[q].active
      /\ op.change # "make default" => \A q \in Pipes : pipe'[q].default = pipe[q].default
      /\ op.change = "make default" =>
           \A q \in Pipes : (pipe'[q].default <=> q = p) /\ pipe'[q].active = pipe[q].active
      /\ op.change = "activate" => pipe'[p].active
      /\ op.change = "deactivate" => ~pipe'[p].active
      /\ op.change = "claim" => pipe' = pipe
  <2>1. CASE op.change = "make default"
    <3>1. \A q \in Pipes : pipe'[q] = [pipe[q] EXCEPT !.default = (q = p)]
      BY <1>3, <2>1
    <3>2. \A q \in Pipes : /\ pipe'[q].state = pipe[q].state /\ pipe'[q].active = pipe[q].active
                           /\ (pipe'[q].default <=> q = p) /\ pipe'[q] \in Board!Pipe
      <4> TAKE q \in Pipes
      <4> DEFINE is == q = p
      <4>1. is \in BOOLEAN /\ pipe'[q] = [pipe[q] EXCEPT !.default = is]
        BY <3>1
      <4> HIDE DEF is
      <4>2. /\ pipe'[q].state = pipe[q].state /\ pipe'[q].active = pipe[q].active
            /\ pipe'[q].default = is /\ pipe'[q] \in Board!Pipe
        BY <1>4, <4>1 DEF Board!Pipe
      <4> QED
        BY <4>2 DEF is
    <3>3. pipe' \in [Pipes -> Board!Pipe]
      BY <1>3, <2>1, <3>2
    <3> QED
      BY <2>1, <3>2, <3>3
  <2>2. CASE op.change = "claim"
    BY <1>2, <1>3, <1>4, <2>2 DEF Board!Pipe
  <2>3. CASE op.change \in {"activate", "deactivate"}
    <3> DEFINE on == op.change = "activate"
    <3>1. on \in BOOLEAN
      OBVIOUS
    <3>2. pipe' = [pipe EXCEPT ![p].active = on]
      BY <1>3, <2>3
    <3> HIDE DEF on
    <3>3. /\ pipe' \in [Pipes -> Board!Pipe] /\ pipe'[p].active = on
          /\ \A q \in Pipes : /\ pipe'[q].state = pipe[q].state
                              /\ pipe'[q].default = pipe[q].default
                              /\ q # p => pipe'[q].active = pipe[q].active
      BY <1>2, <1>4, <3>1, <3>2 DEF Board!Pipe
    <3> QED
      BY <2>3, <3>3 DEF on
  <2> QED
    BY <1>2, <2>1, <2>2, <2>3 DEF Changes
<1>6. frayed' \subseteq Pipes /\ frayed \subseteq frayed' /\ (p \notin frayed' => Board!Saw(p) = op.saw)
  BY <1>1, <1>2, FrayGrows DEF op, p
<1>7. TablesTyped'
  <2>0. claim \in Pipes \cup {Board!NoPipe} /\ (claim # Board!NoPipe => pipe[claim].state = "live")
    BY DEF BoardInv, TablesTyped
  <2>3. claim' = claim \/ claim' = p
    BY <1>2, <1>3 DEF Changes
  <2>1. claim' \in Pipes \cup {Board!NoPipe} /\ (claim' # Board!NoPipe => pipe'[claim'].state = "live")
    BY <1>2, <1>5, <2>0, <2>3
  <2> QED
    BY <1>1, <1>5, <1>6, <2>1 DEF BoardInv, TablesTyped
<1>8. StagesFollow'
  BY <1>1, <1>5 DEF BoardInv, StagesFollow, Board!PipelinesAssumption
<1>9. DefaultStands'
  BY <1>2, <1>5 DEF BoardInv, DefaultStands, Changes
<1>10. WholeStand'
  <2> SUFFICES ASSUME NEW q \in Pipes \ frayed', pipe'[q].state = "live", pipe'[q].active
               PROVE  FullAs(stage, q)
    BY <1>1 DEF WholeStand, FullAs
  <2>1. CASE q = p /\ op.change = "activate"
    BY <1>2, <1>6, <2>1, SawSays DEF FullAs
  <2>2. CASE ~(q = p /\ op.change = "activate")
    BY <1>2, <1>5, <1>6, <2>2 DEF BoardInv, WholeStand, Changes
  <2> QED
    BY <2>1, <2>2
<1>11. WorkStands' /\ OnePerPipe'
  <2>1. ASSUME NEW b \in Admins, work'[b] = work[b] PROVE PipeHeld(work[b], pipe')
    <3>1. CASE work[b].kind = "idle"
      BY <3>1 DEF PipeHeld, LockKinds
    <3>2. CASE work[b].kind # "idle"
      <4>1. /\ PipeHeld(work[b], pipe) /\ work[b].pipe \in Pipes
            /\ work[b].kind \in LockKinds => work[b].pipe # p
        BY <1>1, <2>1, <3>2, OthersHold DEF op, p, LockKinds
      <4> QED
        BY <1>5, <4>1 DEF PipeHeld
    <3> QED
      BY <3>1, <3>2
  <2> QED
    BY <1>1, <2>1, WorkStays DEF BoardInv
<1>12. MovesStand' /\ FilesStand'
  BY <1>1, MovesStay, FilesStay DEF BoardInv, StagesGrow
<1> QED
  BY <1>7, <1>8, <1>9, <1>10, <1>11, <1>12 DEF BoardInv

(* Files are put elsewhere: those left behind are marked as late.          *)
LEMMA PlacedKeeps ==
  ASSUME BoardInv, Board!PipelinesAssumption, NEW gone \in SUBSET Stages, NEW op, Board!Placed(gone, op),
         op.occupied # {} =>
           op.target \in Stages /\ op.target \notin gone /\ stage[op.target].state # "new",
         \A s \in Stages : IF s \in gone THEN stage'[s].state = "archived" /\ stage'[s].cat = stage[s].cat
                                         ELSE stage'[s] = stage[s]
  PROVE  FilesStand' /\ file' \in [Files -> Board!FileRow]
<1>0. file \in [Files -> Board!FileRow] /\ FilesStand
  BY DEF BoardInv, TablesTyped
<1>1. SUFFICES ASSUME NEW f \in Files
               PROVE  /\ file'[f] \in Board!FileRow
                      /\ FileStands(file'[f], stage') /\ MarksTrue(file'[f], stage')
  <2>1. file' = [f \in Files |-> file'[f]]
    BY DEF Board!Placed
  <2> QED
    BY <1>1, <2>1 DEF FilesStand
<1>2. /\ file[f] \in Board!FileRow /\ FileStands(file[f], stage) /\ MarksTrue(file[f], stage)
  BY <1>0 DEF FilesStand
<1>3. CASE file[f].here /\ file[f].on \in gone \cap op.occupied
  <2> DEFINE r == file'[f]
  <2>1. r = Board!Moved(f, op.target, op.aim)
    BY <1>3 DEF Board!Placed
  <2>2. op.target \in Stages /\ op.target \notin gone /\ stage[op.target].state # "new"
    BY <1>3
  <2>3. Home[op.target] \in Pipes
    BY <2>2 DEF Board!PipelinesAssumption
  <2>4. /\ r \in Board!FileRow /\ r.here /\ r.on = op.target /\ r.in = Home[op.target]
        /\ ~r.strayed => ~file[f].strayed /\ stage[file[f].on].cat = stage[op.target].cat
        /\ ~r.late => Board!Usable(op.target)
        /\ r.lost = file[f].lost /\ r.disposition = file[f].disposition
        /\ r.automated = file[f].automated
    BY <1>2, <1>3, <2>1, <2>2, <2>3 DEF Board!Moved, Board!FileRow
  <2>5. stage'[op.target] = stage[op.target]
    BY <2>2
  <2> HIDE DEF r
  <2>6. FileStands(r, stage') /\ MarksTrue(r, stage')
    BY <1>2, <1>3, <2>2, <2>4, <2>5 DEF FileStands, MarksTrue, Board!Usable
  <2> QED
    BY <2>4, <2>6 DEF r
<1>4. CASE file[f].here /\ file[f].on \in gone \ op.occupied
  <2> DEFINE r == file'[f]
  <2>1. r = [file[f] EXCEPT !.late = TRUE]
    BY <1>4 DEF Board!Placed
  <2>2. /\ r \in Board!FileRow /\ r.here /\ r.late /\ r.on = file[f].on /\ r.in = file[f].in
        /\ r.strayed = file[f].strayed
        /\ r.lost = file[f].lost /\ r.disposition = file[f].disposition
        /\ r.automated = file[f].automated
    BY <1>2, <1>4, <2>1 DEF Board!FileRow
  <2> HIDE DEF r
  <2>3. FileStands(r, stage') /\ MarksTrue(r, stage')
    BY <1>2, <1>4, <2>2 DEF FileStands, MarksTrue
  <2> QED
    BY <2>2, <2>3 DEF r
<1>5. CASE ~(file[f].here /\ file[f].on \in gone)
  <2>1. file'[f] = file[f]
    BY <1>5 DEF Board!Placed
  <2>2. file[f].here => stage'[file[f].on] = stage[file[f].on]
    BY <1>2, <1>5 DEF FileStands
  <2> QED
    BY <1>2, <2>1, <2>2 DEF FileStands, MarksTrue
<1> QED
  BY <1>3, <1>4, <1>5

LEMMA CommitDeletePipeKeeps ==
  ASSUME BoardInv, Board!PipelinesAssumption, NEW a \in Admins, Board!CommitDeletePipe(a)
  PROVE  BoardInv'
<1> DEFINE op == work[a]
           p == op.pipe
           gone == Board!StagesOf(p)
<1>1. /\ op.kind = "delete pipe" /\ frayed' = Board!Fray(op) /\ Board!Close(a) /\ Board!Placed(gone, op)
      /\ stage' = [s \in Stages |-> IF s \in gone
                     THEN [stage[s] EXCEPT !.state = "archived", !.active = FALSE] ELSE stage[s]]
      /\ pipe' = [pipe EXCEPT ![p] = [state |-> "archived", default |-> FALSE, active |-> FALSE]]
      /\ claim' = Board!Freed(p)
      /\ UNCHANGED <<moves, steps>>
  BY DEF Board!CommitDeletePipe
<1>2. /\ p \in Pipes /\ OpStands(op, pipe, stage) /\ pipe[p].state = "live" /\ ~pipe[p].default
      /\ op.occupied # {} =>
           op.target \in Stages /\ stage[op.target].state # "new" /\ Home[op.target] # p
      /\ gone \subseteq Stages /\ \A s \in gone : Home[s] = p /\ stage[s].state = "live"
  BY <1>1, PipeIsHeld DEF OpStands, PipeHeld, AimStands, LockKinds, Board!StagesOf
<1>3. /\ pipe \in [Pipes -> Board!Pipe] /\ stage \in [Stages -> Board!Stage]
  BY DEF BoardInv, TablesTyped
<1>4. /\ pipe' \in [Pipes -> Board!Pipe]
      /\ pipe'[p].state = "archived" /\ ~pipe'[p].default /\ ~pipe'[p].active
      /\ \A q \in Pipes : q # p => pipe'[q] = pipe[q]
  BY <1>1, <1>2, <1>3 DEF Board!Pipe
<1>5. ASSUME NEW s \in Stages
      PROVE  /\ s \notin gone => stage'[s] = stage[s]
             /\ s \in gone => stage'[s].state = "archived" /\ stage'[s].cat = stage[s].cat
             /\ stage'[s] \in Board!Stage
  BY <1>1, <1>3 DEF Board!Stage
<1>6. frayed' \subseteq Pipes /\ frayed \subseteq frayed'
  BY <1>1, <1>2, FrayGrows
<1>7. FilesStand' /\ file' \in [Files -> Board!FileRow]
  BY <1>1, <1>2, <1>5, PlacedKeeps
<1>8. \A s \in Stages : stage[s].state # "new" => stage'[s].state # "new"
  BY <1>5
<1>9. \A s \in Stages : Home[s] # p => stage'[s] = stage[s]
  BY <1>2, <1>5
<1>10. ASSUME NEW b \in Admins, work'[b] = work[b] PROVE PipeHeld(work[b], pipe')
  <2>1. CASE work[b].kind = "idle"
    BY <2>1 DEF PipeHeld, LockKinds
  <2>2. CASE work[b].kind # "idle"
    <3>1. /\ PipeHeld(work[b], pipe) /\ work[b].pipe \in Pipes
          /\ work[b].kind \in LockKinds => work[b].pipe # p
      BY <1>1, <1>10, <2>2, OthersHold DEF LockKinds
    <3> QED
      BY <1>4, <3>1 DEF PipeHeld
  <2> QED
    BY <2>1, <2>2
<1>11. WorkStands' /\ OnePerPipe'
  BY <1>1, <1>8, <1>10, WorkStays DEF BoardInv
<1>12. claim' \in Pipes \cup {Board!NoPipe} /\ (claim' # Board!NoPipe => pipe'[claim'].state = "live")
  BY <1>1, <1>4 DEF Board!Freed, BoardInv, TablesTyped
<1>13. stage' \in [Stages -> Board!Stage]
  <2>1. stage' = [s \in Stages |-> stage'[s]]
    BY <1>1
  <2> QED
    BY <1>5, <2>1
<1> HIDE DEF op, p, gone
<1>14. TablesTyped'
  BY <1>1, <1>4, <1>6, <1>7, <1>12, <1>13 DEF BoardInv, TablesTyped
<1>15. StagesFollow'
  <2> SUFFICES ASSUME NEW s \in Stages
               PROVE  /\ stage'[s].state = "live" => pipe'[Home[s]].state = "live"
                      /\ pipe'[Home[s]].state = "new" => stage'[s].state = "new"
    BY DEF StagesFollow
  <2>0. Home[s] \in Pipes
    BY DEF Board!PipelinesAssumption
  <2>1. CASE Home[s] = p
    <3>1. stage'[s].state # "live"
      BY <1>5, <2>1 DEF gone, Board!StagesOf
    <3> QED
      BY <1>4, <2>1, <3>1
  <2>2. CASE Home[s] # p
    BY <1>4, <1>9, <2>0, <2>2 DEF BoardInv, StagesFollow
  <2> QED
    BY <2>1, <2>2
<1>16. DefaultStands'
  BY <1>2, <1>4 DEF BoardInv, DefaultStands
<1>17. WholeStand'
  BY <1>4, <1>6, <1>9 DEF BoardInv, WholeStand, FullAs, LiveAs
<1>18. MovesStand'
  BY <1>1, <1>8, MovesStay DEF BoardInv
<1> QED
  BY <1>7, <1>11, <1>14, <1>15, <1>16, <1>17, <1>18 DEF BoardInv

(* Where no pipeline changes, those at work hold what they held.           *)
LEMMA WorkStaysPut ==
  ASSUME BoardInv, UNCHANGED pipe, NEW a \in Admins, Board!Close(a) \/ UNCHANGED work,
         \A s \in Stages : stage[s].state # "new" => stage'[s].state # "new"
  PROVE  WorkStands' /\ OnePerPipe'
<1>1. \A b \in Admins : PipeHeld(work[b], pipe')
  BY DEF BoardInv, WorkStands, OpStands
<1> QED
  BY <1>1, WorkStays DEF BoardInv

LEMMA CommitEditStageKeeps ==
  ASSUME BoardInv, Board!PipelinesAssumption, NEW a \in Admins, Board!CommitEditStage(a)
  PROVE  BoardInv'
<1> DEFINE op == work[a]
           p == op.pipe
           x == op.stage
           new == op.new
<1>1. /\ op.kind = "edit stage" /\ frayed' = Board!Fray(op) /\ Board!Close(a)
      /\ stage' = [stage EXCEPT ![x].cat = new.cat, ![x].active = new.active]
      /\ file' = [f \in Files |-> [file[f] EXCEPT !.strayed =
                    @ \/ (file[f].on = x /\ new.cat # stage[x].cat)]]
      /\ UNCHANGED <<pipe, claim, moves, steps>>
  BY DEF Board!CommitEditStage
<1>2. /\ p \in Pipes /\ OpStands(op, pipe, stage) /\ x \in Stages /\ new \in Board!Stage
      /\ p = Home[x] /\ op.saw.rows[x].state = "live"
      /\ op.saw.row.active => FullWith(op.saw.rows, p, x, new)
  BY <1>1, PipeIsHeld DEF OpStands, SawEnough
<1>3. stage \in [Stages -> Board!Stage] /\ file \in [Files -> Board!FileRow]
  BY DEF BoardInv, TablesTyped
<1> HIDE DEF op, p, x, new
<1>4. /\ stage' \in [Stages -> Board!Stage]
      /\ \A s \in Stages : s # x => stage'[s] = stage[s]
      /\ \A s \in Stages : stage'[s].state = stage[s].state
      /\ stage'[x].cat = new.cat /\ stage'[x].active = new.active
  <2>1. stage[x] \in Board!Stage /\ [[stage[x] EXCEPT !.cat = new.cat] EXCEPT !.active = new.active] \in Board!Stage
    BY <1>2, <1>3 DEF Board!Stage
  <2> QED
    BY <1>1, <1>2, <1>3, <2>1 DEF Board!Stage
<1>5. ASSUME NEW f \in Files
      PROVE  /\ file'[f] \in Board!FileRow
             /\ FileStands(file'[f], stage') /\ MarksTrue(file'[f], stage')
  <2> DEFINE r == file'[f]
             turned == file[f].on = x /\ new.cat # stage[x].cat
             strays == file[f].strayed \/ turned
  <2>1. file[f] \in Board!FileRow /\ FileStands(file[f], stage) /\ MarksTrue(file[f], stage)
    BY <1>3 DEF BoardInv, FilesStand
  <2>2. r = [file[f] EXCEPT !.strayed = strays] /\ strays \in BOOLEAN
    BY <1>1
  <2>3. strays <=> file[f].strayed \/ turned
    OBVIOUS
  <2> HIDE DEF r, strays
  <2>4. /\ r \in Board!FileRow /\ r.here = file[f].here /\ r.late = file[f].late
        /\ r.on = file[f].on /\ r.in = file[f].in /\ r.strayed = strays
        /\ r.lost = file[f].lost /\ r.disposition = file[f].disposition
        /\ r.automated = file[f].automated
    BY <2>1, <2>2 DEF Board!FileRow
  <2>5. FileStands(r, stage')
    BY <1>4, <2>1, <2>4 DEF FileStands
  <2>6. ASSUME r.here, ~r.strayed PROVE stage'[r.on].cat = stage[r.on].cat /\ ~file[f].strayed
    <3>1. r.on \in Stages
      BY <2>1, <2>4, <2>6 DEF FileStands
    <3>2. ~turned /\ ~file[f].strayed
      BY <2>3, <2>4, <2>6
    <3> QED
      BY <1>4, <2>4, <3>1, <3>2
  <2>7. MarksTrue(r, stage')
    BY <2>1, <2>4, <2>6 DEF MarksTrue
  <2> QED
    BY <2>4, <2>5, <2>7 DEF r
<1>6. FilesStand' /\ file' \in [Files -> Board!FileRow]
  <2>1. file' = [f \in Files |-> file'[f]]
    BY <1>1
  <2>2. file' \in [Files -> Board!FileRow]
    BY <1>5, <2>1
  <2> QED
    BY <1>5, <2>2 DEF FilesStand
<1>7. frayed' \subseteq Pipes /\ frayed \subseteq frayed' /\ (p \notin frayed' => Board!Saw(p) = op.saw)
  BY <1>1, <1>2, FrayGrows DEF op, p
<1>8. TablesTyped'
  BY <1>1, <1>4, <1>6, <1>7 DEF BoardInv, TablesTyped
<1>9. StagesFollow' /\ DefaultStands'
  <2>1. DefaultStands'
    BY <1>1 DEF BoardInv, DefaultStands
  <2>2. StagesFollow'
    BY <1>1, <1>4 DEF BoardInv, StagesFollow
  <2> QED
    BY <2>1, <2>2
<1>10. WholeStand'
  <2> SUFFICES ASSUME NEW q \in Pipes \ frayed', pipe[q].state = "live", pipe[q].active
               PROVE  FullAs(stage', q)
    BY <1>1 DEF WholeStand, FullAs
  <2>1. CASE q = p
    <3>1. op.saw.row = pipe[p] /\ \A s \in Stages : Home[s] = p => op.saw.rows[s] = stage[s]
      BY <1>2, <1>7, <2>1, SawSays
    <3>2. FullWith(stage, p, x, new) /\ stage'[x].state = "live"
      BY <1>2, <1>4, <2>1, <3>1 DEF FullWith, LiveAs
    <3> QED
      BY <1>2, <1>4, <2>1, <3>2 DEF FullWith, FullAs, LiveAs
  <2>2. CASE q # p
    <3>1. FullAs(stage, q)
      BY <1>7 DEF BoardInv, WholeStand
    <3>2. \A s \in Stages : Home[s] = q => stage'[s] = stage[s]
      BY <1>2, <1>4, <2>2
    <3> QED
      BY <3>1, <3>2 DEF FullAs
  <2> QED
    BY <2>1, <2>2
<1>11. WorkStands' /\ OnePerPipe'
  BY <1>1, <1>4, WorkStaysPut
<1>12. MovesStand'
  BY <1>1, <1>4, MovesStay DEF BoardInv
<1> QED
  BY <1>6, <1>8, <1>9, <1>10, <1>11, <1>12 DEF BoardInv

LEMMA CommitDeleteStageKeeps ==
  ASSUME BoardInv, Board!PipelinesAssumption, NEW a \in Admins, Board!CommitDeleteStage(a)
  PROVE  BoardInv'
<1> DEFINE op == work[a]
           p == op.pipe
           x == op.stage
<1>1. /\ op.kind = "delete stage" /\ frayed' = Board!Fray(op) /\ Board!Close(a) /\ Board!Placed({x}, op)
      /\ stage' = [stage EXCEPT ![x].state = "archived", ![x].active = FALSE]
      /\ UNCHANGED <<pipe, claim, moves, steps>>
  BY DEF Board!CommitDeleteStage
<1>0. OpStands(op, pipe, stage) /\ p \in Pipes /\ pipe[p].state # "new"
  BY <1>1, PipeIsHeld
<1>2. /\ x \in Stages /\ p = Home[x]
      /\ op.saw.row.active => FullWithout(op.saw.rows, p, x)
      /\ op.occupied # {} =>
           op.target \in Stages /\ stage[op.target].state # "new" /\ op.target # x
  <2>1. SawEnough(op) /\ AimStands(op, stage)
    BY <1>0 DEF OpStands
  <2>2. /\ x \in Stages /\ p = Home[x]
        /\ op.saw.row.active => FullWithout(op.saw.rows, p, x)
    BY <1>1, <2>1 DEF SawEnough
  <2>3. op.occupied # {} =>
           op.target \in Stages /\ stage[op.target].state # "new" /\ op.target # x
    BY <1>1, <2>1 DEF AimStands
  <2> QED
    BY <2>2, <2>3
<1>3. stage \in [Stages -> Board!Stage]
  BY DEF BoardInv, TablesTyped
<1> HIDE DEF op, p, x
<1>4. /\ stage' \in [Stages -> Board!Stage]
      /\ \A s \in Stages : s # x => stage'[s] = stage[s]
      /\ stage'[x].state = "archived" /\ stage'[x].cat = stage[x].cat
  <2>1. [[stage[x] EXCEPT !.state = "archived"] EXCEPT !.active = FALSE] \in Board!Stage
    BY <1>2, <1>3 DEF Board!Stage
  <2> QED
    BY <1>1, <1>2, <1>3, <2>1 DEF Board!Stage
<1>5. FilesStand' /\ file' \in [Files -> Board!FileRow]
  <2>1. {x} \in SUBSET Stages
    BY <1>2
  <2>2. \A s \in Stages :
          IF s \in {x} THEN stage'[s].state = "archived" /\ stage'[s].cat = stage[s].cat
                       ELSE stage'[s] = stage[s]
    BY <1>4
  <2>3. op.occupied # {} =>
          op.target \in Stages /\ op.target \notin {x} /\ stage[op.target].state # "new"
    BY <1>2
  <2> QED
    BY <1>1, <2>1, <2>2, <2>3, PlacedKeeps
<1>6. frayed' \subseteq Pipes /\ frayed \subseteq frayed' /\ (p \notin frayed' => Board!Saw(p) = op.saw)
  BY <1>0, <1>1, FrayGrows DEF op, p
<1>7. TablesTyped'
  BY <1>1, <1>4, <1>5, <1>6 DEF BoardInv, TablesTyped
<1>8. StagesFollow' /\ DefaultStands'
  <2>1. DefaultStands'
    BY <1>1 DEF BoardInv, DefaultStands
  <2>2. StagesFollow'
    BY <1>0, <1>1, <1>2, <1>4 DEF BoardInv, StagesFollow
  <2> QED
    BY <2>1, <2>2
<1>9. \A s \in Stages : stage[s].state # "new" => stage'[s].state # "new"
  BY <1>4
<1>10. WholeStand'
  <2> SUFFICES ASSUME NEW q \in Pipes \ frayed', pipe[q].state = "live", pipe[q].active
               PROVE  FullAs(stage', q)
    BY <1>1 DEF WholeStand, FullAs
  <2>1. CASE q = p
    <3>1. op.saw.row = pipe[p] /\ \A s \in Stages : Home[s] = p => op.saw.rows[s] = stage[s]
      BY <1>0, <1>6, <2>1, SawSays
    <3>2. FullWithout(stage, p, x)
      BY <1>2, <2>1, <3>1 DEF FullWithout
    <3> QED
      BY <1>4, <2>1, <3>2 DEF FullWithout, FullAs
  <2>2. CASE q # p
    <3>1. FullAs(stage, q)
      BY <1>6 DEF BoardInv, WholeStand
    <3>2. \A s \in Stages : Home[s] = q => stage'[s] = stage[s]
      BY <1>2, <1>4, <2>2
    <3> QED
      BY <3>1, <3>2 DEF FullAs
  <2> QED
    BY <2>1, <2>2
<1>11. WorkStands' /\ OnePerPipe'
  BY <1>1, <1>9, WorkStaysPut
<1>12. MovesStand'
  BY <1>1, <1>9, MovesStay DEF BoardInv
<1> QED
  BY <1>5, <1>7, <1>8, <1>10, <1>11, <1>12 DEF BoardInv

LEMMA RollbackKeeps ==
  ASSUME BoardInv, Board!PipelinesAssumption, NEW a \in Admins, Board!Rollback(a)
  PROVE  BoardInv'
<1>1. Board!Close(a) /\ UNCHANGED <<pipe, stage, claim, file, moves, steps, frayed>>
  BY DEF Board!Rollback
<1>2. steps \in 0 .. MaxSteps
  BY DEF BoardInv, TablesTyped
<1>3. (/\ TablesTyped /\ StagesFollow /\ DefaultStands /\ WholeStand
       /\ MovesStand /\ FilesStand)'
  BY <1>1, <1>2, TablesStay
<1>4. WorkStands' /\ OnePerPipe'
  BY <1>1, WorkStaysPut
<1> QED
  BY <1>3, <1>4 DEF BoardInv

-----------------------------------------------------------------------------
(* What is one step.                                                       *)

LEMMA StepsCount ==
  ASSUME BoardInv, Board!PipelinesAssumption, steps < MaxSteps, steps' = steps + 1
  PROVE  steps' \in 0 .. MaxSteps
BY DEF BoardInv, TablesTyped, Board!PipelinesAssumption

LEMMA CreateStageKeeps ==
  ASSUME BoardInv, Board!PipelinesAssumption, NEW x \in Stages, NEW cat \in Board!Category,
         Board!CreateStage(x, cat)
  PROVE  BoardInv'
<1>1. /\ stage[x].state = "new" /\ pipe[Home[x]].state = "live"
      /\ stage' = [stage EXCEPT ![x] = [state |-> "live", cat |-> cat, active |-> TRUE,
                                        position |-> x]]
      /\ UNCHANGED <<pipe, claim, file, work, moves, frayed>>
      /\ steps < MaxSteps /\ steps' = steps + 1
  BY DEF Board!CreateStage
<1>2. x \in Nat /\ stage \in [Stages -> Board!Stage]
  BY DEF BoardInv, TablesTyped, Board!PipelinesAssumption
<1>3. /\ stage' \in [Stages -> Board!Stage] /\ stage'[x].state = "live"
      /\ \A s \in Stages : s # x => stage'[s] = stage[s]
  BY <1>1, <1>2 DEF Board!Stage
<1>4. StagesGrow /\ \A s \in Stages : stage[s].state # "new" => stage'[s].state # "new"
  BY <1>1, <1>3 DEF StagesGrow
<1>5. TablesTyped'
  BY <1>1, <1>3, StepsCount DEF BoardInv, TablesTyped
<1>6. DefaultStands'
  BY <1>1 DEF BoardInv, DefaultStands
<1>7. StagesFollow'
  BY <1>1, <1>3 DEF BoardInv, StagesFollow
<1>8. WholeStand'
  BY <1>1, <1>3 DEF BoardInv, WholeStand, FullAs, LiveAs
<1>9. WorkStands' /\ OnePerPipe'
  <2>1. CASE Admins = {}
    BY <1>1, <2>1 DEF BoardInv, WorkStands, OnePerPipe
  <2>2. CASE Admins # {}
    BY <1>1, <1>4, <2>2, WorkStaysPut
  <2> QED
    BY <2>1, <2>2
<1>10. MovesStand' /\ FilesStand'
  BY <1>1, <1>4, MovesStay, FilesStay DEF BoardInv
<1> QED
  BY <1>5, <1>6, <1>7, <1>8, <1>9, <1>10 DEF BoardInv

LEMMA MoveStageKeeps ==
  ASSUME BoardInv, Board!PipelinesAssumption, NEW x \in Stages, NEW y \in Stages, Board!MoveStage(x, y)
  PROVE  BoardInv'
<1>1. /\ x # y
      /\ stage' = [stage EXCEPT ![x].position = stage[y].position,
                                ![y].position = stage[x].position]
      /\ UNCHANGED <<pipe, claim, file, work, moves, frayed>>
      /\ steps < MaxSteps /\ steps' = steps + 1
  BY DEF Board!MoveStage
<1>2. stage \in [Stages -> Board!Stage] /\ stage[x] \in Board!Stage /\ stage[y] \in Board!Stage
  BY DEF BoardInv, TablesTyped
<1>3. /\ stage' \in [Stages -> Board!Stage]
      /\ \A s \in Stages : /\ stage'[s].state = stage[s].state /\ stage'[s].cat = stage[s].cat
                           /\ stage'[s].active = stage[s].active
  <2>1. /\ [stage[x] EXCEPT !.position = stage[y].position] \in Board!Stage
        /\ [stage[y] EXCEPT !.position = stage[x].position] \in Board!Stage
    BY <1>2 DEF Board!Stage
  <2>2. stage' \in [Stages -> Board!Stage]
    BY <1>1, <1>2, <2>1
  <2>3. ASSUME NEW s \in Stages
        PROVE  /\ stage'[s].state = stage[s].state /\ stage'[s].cat = stage[s].cat
               /\ stage'[s].active = stage[s].active
    BY <1>1, <1>2 DEF Board!Stage
  <2> QED
    BY <2>2, <2>3
<1>4. StagesGrow /\ \A s \in Stages : stage[s].state # "new" => stage'[s].state # "new"
  BY <1>3 DEF StagesGrow
<1>5. TablesTyped'
  BY <1>1, <1>3, StepsCount DEF BoardInv, TablesTyped
<1>6. DefaultStands' /\ StagesFollow'
  BY <1>1, <1>3 DEF BoardInv, DefaultStands, StagesFollow
<1>7. WholeStand'
  BY <1>1, <1>3 DEF BoardInv, WholeStand, FullAs, LiveAs
<1>8. WorkStands' /\ OnePerPipe'
  <2>1. CASE Admins = {}
    BY <1>1, <2>1 DEF BoardInv, WorkStands, OnePerPipe
  <2>2. CASE Admins # {}
    BY <1>1, <1>4, <2>2, WorkStaysPut
  <2> QED
    BY <2>1, <2>2
<1>9. MovesStand' /\ FilesStand'
  BY <1>1, <1>4, MovesStay, FilesStay DEF BoardInv
<1> QED
  BY <1>5, <1>6, <1>7, <1>8, <1>9 DEF BoardInv

(* A pipeline is created: the rows it is made of become some of its stages. *)
LEMMA TemplateRows ==
  ASSUME stage \in [Stages -> Board!Stage], NEW from, NEW x \in DOMAIN Board!Template(from)
  PROVE  Board!Template(from)[x] \in Board!Stage /\ Board!Template(from)[x].state = "live"
<1>1. CASE from = Board!NoPipe
  <2>1. x \in 1 .. 3 /\ Board!Template(from)[x] = [state |-> "live", cat |-> <<"open", "won", "lost">>[x],
                                             active |-> TRUE, position |-> x]
    BY <1>1 DEF Board!Template, Board!Starter
  <2>2. <<"open", "won", "lost">>[x] \in Board!Category /\ x \in Nat
    <3>1. x = 1 \/ x = 2 \/ x = 3
      BY <2>1
    <3> QED
      BY <3>1 DEF Board!Category
  <2> QED
    BY <2>1, <2>2 DEF Board!Stage
<1>2. CASE from # Board!NoPipe
  <2>1. x \in Board!StagesOf(from) /\ Board!Template(from)[x] = stage[x]
    BY <1>2 DEF Board!Template
  <2> QED
    BY <2>1 DEF Board!StagesOf
<1> QED
  BY <1>1, <1>2

LEMMA CreatePipelineKeeps ==
  ASSUME BoardInv, Board!PipelinesAssumption, NEW p \in Pipes, NEW from, NEW default \in BOOLEAN,
         Board!CreatePipeline(p, from, default)
  PROVE  BoardInv'
<1> DEFINE rows == Board!Template(from)
           made(at) == [s \in Stages |-> IF \E x \in DOMAIN rows : at[x] = s
                 THEN [rows[CHOOSE x \in DOMAIN rows : at[x] = s] EXCEPT !.position = s]
                 ELSE stage[s]]
<1>0. /\ pipe \in [Pipes -> Board!Pipe] /\ stage \in [Stages -> Board!Stage]
      /\ \A s \in Stages : Home[s] = p => stage[s].state = "new"
  BY DEF BoardInv, TablesTyped, StagesFollow, Board!CreatePipeline
<1>1. /\ steps < MaxSteps /\ steps' = steps + 1 /\ pipe[p].state = "new"
      /\ pipe' = [q \in Pipes |-> IF q = p
           THEN [state |-> "live", default |-> default, active |-> TRUE]
           ELSE [pipe[q] EXCEPT !.default = @ /\ ~default]]
      /\ frayed' = IF Board!Complete({rows[x] : x \in DOMAIN rows}) THEN frayed ELSE frayed \cup {p}
      /\ UNCHANGED <<claim, file, work, moves>>
  BY DEF Board!CreatePipeline
<1>2. PICK at \in Board!Injection(DOMAIN rows, {s \in Stages : Home[s] = p}) : stage' = made(at)
  BY DEF Board!CreatePipeline
<1>3. /\ \A x \in DOMAIN rows : at[x] \in Stages /\ Home[at[x]] = p
      /\ \A x, y \in DOMAIN rows : at[x] = at[y] => x = y
  BY <1>2 DEF Board!Injection, Board!IsInjective
<1>4. \A x \in DOMAIN rows : rows[x] \in Board!Stage /\ rows[x].state = "live"
  BY <1>0, TemplateRows
<1> HIDE DEF rows
<1>5. ASSUME NEW x \in DOMAIN rows
      PROVE  /\ stage'[at[x]] \in Board!Stage /\ stage'[at[x]].state = "live"
             /\ stage'[at[x]].cat = rows[x].cat /\ stage'[at[x]].active = rows[x].active
  <2>1. at[x] \in Stages /\ at[x] \in Nat
    BY <1>3 DEF Board!PipelinesAssumption
  <2>2. (CHOOSE y \in DOMAIN rows : at[y] = at[x]) = x
    BY <1>3
  <2>3. stage'[at[x]] = [rows[x] EXCEPT !.position = at[x]]
    BY <1>2, <2>1, <2>2
  <2> QED
    BY <1>4, <2>1, <2>3 DEF Board!Stage
<1>6. ASSUME NEW s \in Stages, \A x \in DOMAIN rows : at[x] # s
      PROVE  stage'[s] = stage[s]
  BY <1>2, <1>6
<1>7. \A s \in Stages : stage'[s] = stage[s] \/ (Home[s] = p /\ stage'[s] \in Board!Stage /\ stage'[s].state = "live")
  BY <1>3, <1>5, <1>6
<1>8. \A s \in Stages : Home[s] # p \/ stage[s].state # "new" => stage'[s] = stage[s]
  BY <1>0, <1>3, <1>6
<1>9. stage' \in [Stages -> Board!Stage]
  <2>1. stage' = [s \in Stages |-> stage'[s]]
    BY <1>2
  <2> QED
    BY <1>0, <1>7, <2>1
<1>10. ASSUME NEW q \in Pipes
       PROVE  /\ pipe'[q] \in Board!Pipe
              /\ q = p => pipe'[q].state = "live" /\ pipe'[q].active /\ pipe'[q].default = default
              /\ q # p => /\ pipe'[q].state = pipe[q].state /\ pipe'[q].active = pipe[q].active
                          /\ pipe'[q].default = (pipe[q].default /\ ~default)
  <2>1. CASE q = p
    BY <1>1, <2>1 DEF Board!Pipe
  <2>2. CASE q # p
    <3> DEFINE is == pipe[q].default /\ ~default
    <3>1. is \in BOOLEAN /\ pipe'[q] = [pipe[q] EXCEPT !.default = is]
      BY <1>1, <2>2
    <3>2. pipe[q] \in Board!Pipe
      BY <1>0
    <3> HIDE DEF is
    <3>3. /\ pipe'[q] \in Board!Pipe /\ pipe'[q].state = pipe[q].state
          /\ pipe'[q].active = pipe[q].active /\ pipe'[q].default = is
      BY <3>1, <3>2 DEF Board!Pipe
    <3> QED
      BY <2>2, <3>3 DEF is
  <2> QED
    BY <2>1, <2>2
<1>11. pipe' \in [Pipes -> Board!Pipe]
  BY <1>1, <1>10
<1>12. frayed' \subseteq Pipes /\ frayed \subseteq frayed'
  BY <1>1 DEF BoardInv, TablesTyped
<1>13. TablesTyped'
  <2>1. claim' \in Pipes \cup {Board!NoPipe} /\ (claim' # Board!NoPipe => pipe'[claim'].state = "live")
    BY <1>1, <1>10 DEF BoardInv, TablesTyped
  <2> QED
    BY <1>1, <1>9, <1>11, <1>12, <2>1, StepsCount DEF BoardInv, TablesTyped
<1>14. StagesFollow'
  <2> SUFFICES ASSUME NEW s \in Stages
               PROVE  /\ stage'[s].state = "live" => pipe'[Home[s]].state = "live"
                      /\ pipe'[Home[s]].state = "new" => stage'[s].state = "new"
    BY DEF StagesFollow
  <2>0. Home[s] \in Pipes
    BY DEF Board!PipelinesAssumption
  <2>1. CASE Home[s] = p
    BY <1>10, <2>0, <2>1
  <2>2. CASE Home[s] # p
    BY <1>8, <1>10, <2>0, <2>2 DEF BoardInv, StagesFollow
  <2> QED
    BY <2>1, <2>2
<1>15. DefaultStands'
  <2>1. CASE default
    BY <1>10, <2>1 DEF DefaultStands
  <2>2. CASE ~default
    <3>1. PICK d \in Pipes : /\ \A q \in Pipes : pipe[q].default <=> q = d
                             /\ pipe[d].state = "live" /\ pipe[d].active
      BY DEF BoardInv, DefaultStands
    <3>2. d # p
      BY <1>1, <3>1
    <3>3. \A q \in Pipes : pipe'[q].default <=> q = d
      BY <1>10, <2>2, <3>1, <3>2
    <3> QED
      BY <1>10, <3>1, <3>2, <3>3 DEF DefaultStands
  <2> QED
    BY <2>1, <2>2
<1>16. WholeStand'
  <2> SUFFICES ASSUME NEW q \in Pipes \ frayed', pipe'[q].state = "live", pipe'[q].active
               PROVE  FullAs(stage', q)
    BY DEF WholeStand, FullAs
  <2>1. CASE q = p
    <3>1. Board!Complete({rows[x] : x \in DOMAIN rows})
      BY <1>1, <2>1
    <3>2. ASSUME NEW c \in {"open", "won", "lost"}
          PROVE  \E s \in Stages : Home[s] = q /\ LiveAs(stage'[s], c)
      <4>1. PICK x \in DOMAIN rows : rows[x].active /\ rows[x].cat = c
        BY <3>1 DEF Board!Complete
      <4> QED
        BY <1>3, <1>5, <2>1, <4>1 DEF LiveAs
    <3> QED
      BY <3>2 DEF FullAs
  <2>2. CASE q # p
    <3>1. FullAs(stage, q)
      BY <1>10, <1>12, <2>2 DEF BoardInv, WholeStand
    <3> QED
      BY <1>8, <2>2, <3>1 DEF FullAs
  <2> QED
    BY <2>1, <2>2
<1>17. \A s \in Stages : stage[s].state # "new" => stage'[s].state # "new"
  BY <1>8
<1>18. WorkStands' /\ OnePerPipe'
  <2>1. CASE Admins = {}
    BY <1>1, <2>1 DEF BoardInv, WorkStands, OnePerPipe
  <2>2. CASE Admins # {}
    <3>1. ASSUME NEW b \in Admins PROVE PipeHeld(work[b], pipe')
      <4>1. OpStands(work[b], pipe, stage)
        BY DEF BoardInv, WorkStands
      <4>2. work[b].kind # "idle" => work[b].pipe \in Pipes /\ work[b].pipe # p
        BY <1>1, <4>1 DEF OpStands, PipeHeld
      <4>3. work[b].kind \in LockKinds => work[b].kind # "idle"
        BY DEF LockKinds
      <4> QED
        BY <1>10, <4>1, <4>2, <4>3 DEF OpStands, PipeHeld
    <3> QED
      BY <1>1, <1>17, <2>2, <3>1, WorkStays DEF BoardInv
  <2> QED
    BY <2>1, <2>2
<1>19. StagesGrow
  BY <1>8, <1>17 DEF StagesGrow
<1>20. MovesStand' /\ FilesStand'
  BY <1>1, <1>17, <1>19, MovesStay, FilesStay DEF BoardInv
<1> QED
  BY <1>13, <1>14, <1>15, <1>16, <1>18, <1>20 DEF BoardInv

-----------------------------------------------------------------------------
(* The files.                                                              *)

LEMMA EntryIsLive ==
  ASSUME BoardInv, Board!PipelinesAssumption, NEW p, Board!EntryStageOf(p) # Board!NoStage
  PROVE  Board!EntryStageOf(p) \in Stages /\ stage[Board!EntryStageOf(p)].state = "live"
<1> DEFINE open == {s \in Board!StagesOf(p) : stage[s].active /\ stage[s].cat = "open"}
<1>1. open # {} /\ Board!EntryStageOf(p) = Board!First(open)
  BY DEF Board!EntryStageOf
<1>2. open \in SUBSET Stages /\ \A s \in open : stage[s].state = "live"
  BY DEF Board!StagesOf
<1>3. IsFiniteSet(Stages) /\ stage \in [Stages -> Board!Stage]
  BY BoardCounts DEF Board!PipelinesAssumption, BoardInv, TablesTyped
<1> HIDE DEF open
<1> QED
  BY <1>1, <1>2, <1>3, FirstIsOne

LEMMA TargetIsLive ==
  ASSUME BoardInv, Board!PipelinesAssumption, NEW f \in Files, NEW kind \in {"move", "import", "fund"},
         NEW t \in Stages, Board!Target(f, kind, t)
  PROVE  stage[t].state = "live"
<1>0. t # Board!NoStage
  BY DEF Board!PipelinesAssumption
<1>1. CASE kind = "move"
  BY <1>1 DEF Board!Target
<1>2. CASE kind = "import"
  <2>1. PICK claiming \in BOOLEAN : t = Board!EntryStage(claiming)
    BY <1>2 DEF Board!Target
  <2>2. \E p : t = Board!EntryStageOf(p)
    BY <2>1 DEF Board!EntryStage
  <2> QED
    BY <1>0, <2>2, EntryIsLive
<1>3. CASE kind = "fund"
  <2> DEFINE won == {s \in Board!StagesOf(file[f].in) : stage[s].active /\ stage[s].cat = "won"}
  <2>1. won # {} /\ t = Board!First(won)
    BY <1>3 DEF Board!Target
  <2>2. won \in SUBSET Stages /\ \A s \in won : stage[s].state = "live"
    BY DEF Board!StagesOf
  <2>3. IsFiniteSet(Stages) /\ stage \in [Stages -> Board!Stage]
    BY BoardCounts DEF Board!PipelinesAssumption, BoardInv, TablesTyped
  <2> HIDE DEF won
  <2> QED
    BY <2>1, <2>2, <2>3, FirstIsOne
<1> QED
  BY <1>1, <1>2, <1>3

(* What a step that only looks at files, or writes one, leaves alone.      *)
LEMMA BoardStays ==
  ASSUME BoardInv, Board!PipelinesAssumption, UNCHANGED <<pipe, stage, claim, work, frayed>>,
         steps' \in 0 .. MaxSteps, file' \in [Files -> Board!FileRow], MovesStand', FilesStand'
  PROVE  BoardInv'
<1>1. TablesTyped' /\ StagesFollow'
  BY DEF BoardInv, TablesTyped, StagesFollow
<1>2. DefaultStands'
  BY DEF BoardInv, DefaultStands
<1>3. WholeStand'
  BY DEF BoardInv, WholeStand, FullAs
<1>4. WorkStands' /\ OnePerPipe'
  BY DEF BoardInv, WorkStands, OnePerPipe
<1> QED
  BY <1>1, <1>2, <1>3, <1>4 DEF BoardInv

(* One file is written, by one of the moves or by none of them.            *)
LEMMA OneFileWritten ==
  ASSUME BoardInv, Board!PipelinesAssumption, NEW f \in Files, NEW r \in Board!FileRow,
         file' = [file EXCEPT ![f] = r],
         FileStands(r, stage), MarksTrue(r, stage),
         UNCHANGED <<pipe, stage, claim, work, frayed>>, moves' \subseteq moves,
         steps' \in 0 .. MaxSteps
  PROVE  BoardInv'
<1>1. file \in [Files -> Board!FileRow] /\ FilesStand
  BY DEF BoardInv, TablesTyped
<1>2. file' \in [Files -> Board!FileRow] /\ \A g \in Files : file'[g] = IF g = f THEN r ELSE file[g]
  BY <1>1
<1>3. FilesStand'
  BY <1>1, <1>2 DEF FilesStand
<1>4. MovesStand'
  BY MovesStay DEF BoardInv
<1> QED
  BY <1>2, <1>3, <1>4, BoardStays

LEMMA LookKeeps ==
  ASSUME BoardInv, Board!PipelinesAssumption, NEW f \in Files, NEW kind \in {"move", "import", "fund"},
         NEW t \in Stages, NEW force \in BOOLEAN, NEW disposition \in BOOLEAN,
         Board!Look(f, kind, t, force, disposition)
  PROVE  BoardInv'
<1> DEFINE new == [file |-> f, kind |-> kind, target |-> t, force |-> force,
                   disposition |-> disposition, rows |-> stage, used |-> Board!Usable(t)]
<1>1. /\ steps < MaxSteps /\ steps' = steps + 1 /\ Board!Target(f, kind, t)
      /\ moves' = moves \cup {new}
      /\ UNCHANGED <<pipe, stage, claim, file, work, frayed>>
  BY DEF Board!Look
<1>2. stage[t].state = "live" /\ stage \in [Stages -> Board!Stage] /\ file \in [Files -> Board!FileRow]
  BY <1>1, TargetIsLive DEF BoardInv, TablesTyped
<1>3. MoveStands(new, stage)
  BY <1>2 DEF MoveStands
<1> HIDE DEF new
<1>4. MovesStand'
  BY <1>1, <1>3 DEF BoardInv, MovesStand
<1>5. FilesStand'
  BY <1>1, FilesStay DEF BoardInv, StagesGrow
<1> QED
  BY <1>1, <1>2, <1>4, <1>5, StepsCount, BoardStays

LEMMA MoveFacts ==
  ASSUME BoardInv, Board!PipelinesAssumption, NEW m \in moves
  PROVE  /\ m.file \in Files /\ m.target \in Stages /\ Home[m.target] \in Pipes
         /\ m.rows[m.target].state = "live" /\ m.disposition \in BOOLEAN
         /\ stage[m.target].state # "new" /\ Board!Outdated(m) \in BOOLEAN
         /\ ~Board!Outdated(m) => stage[m.target].state = "live"
         /\ file[m.file] \in Board!FileRow /\ FileStands(file[m.file], stage)
         /\ MarksTrue(file[m.file], stage) /\ steps \in 0 .. MaxSteps
<1>1. MoveStands(m, stage)
  BY DEF BoardInv, MovesStand
<1>2. m.file \in Files /\ m.target \in Stages
  BY <1>1 DEF MoveStands
<1>3. /\ file[m.file] \in Board!FileRow /\ FileStands(file[m.file], stage)
      /\ MarksTrue(file[m.file], stage) /\ steps \in 0 .. MaxSteps
  BY <1>2 DEF BoardInv, FilesStand, TablesTyped
<1> QED
  BY <1>1, <1>2, <1>3 DEF MoveStands, Board!Outdated, Board!PipelinesAssumption

(* What leaving a stage and entering another does keeps the marks true.    *)
LEMMA EffectsAreTrue ==
  ASSUME BoardInv, Board!PipelinesAssumption, NEW m \in moves,
         NEW r, r = [Board!Effects(m) EXCEPT !.late = Board!Outdated(m)]
  PROVE  r \in Board!FileRow /\ FileStands(r, stage) /\ MarksTrue(r, stage)
<1> DEFINE was == file[m.file]
           from == m.rows[was.on]
           to == m.rows[m.target]
           fromLost == from.state = "live" /\ from.cat = "lost"
           stops == \/ to.cat \in {"lost", "won"}
                    \/ fromLost /\ to.cat # "lost"
                    \/ from.state = "live" /\ from.cat = "open" /\ to.cat = "parked"
           lost == IF to.cat = "lost" THEN TRUE ELSE was.lost /\ ~fromLost
           disposition == IF to.cat = "lost" THEN was.disposition \/ m.disposition
                                             ELSE was.disposition /\ ~fromLost
           automated == was.automated /\ ~stops
           strayed == \/ was.strayed \/ from.state # "live" \/ from.cat # stage[was.on].cat
                      \/ to.cat # stage[m.target].cat
           late == Board!Outdated(m)
<1>1. r = [[[[[[[was EXCEPT !.on = m.target] EXCEPT !.in = Home[m.target]] EXCEPT !.lost = lost]
             EXCEPT !.disposition = disposition] EXCEPT !.automated = automated]
           EXCEPT !.strayed = strayed] EXCEPT !.late = late]
  BY DEF Board!Effects
<1>2. /\ was \in Board!FileRow /\ FileStands(was, stage) /\ MarksTrue(was, stage)
      /\ m.target \in Stages /\ Home[m.target] \in Pipes /\ m.disposition \in BOOLEAN
      /\ stage[m.target].state # "new" /\ late \in BOOLEAN
      /\ ~late => stage[m.target].state = "live"
  BY MoveFacts
<1>3. was.lost \in BOOLEAN /\ was.disposition \in BOOLEAN /\ was.automated \in BOOLEAN
  BY <1>2 DEF Board!FileRow
<1>4. lost \in BOOLEAN /\ disposition \in BOOLEAN /\ automated \in BOOLEAN /\ strayed \in BOOLEAN
  BY <1>2, <1>3
<1>5. ~strayed => /\ ~was.strayed /\ from.state = "live" /\ from.cat = stage[was.on].cat
                  /\ to.cat = stage[m.target].cat
  OBVIOUS
<1>6. ASSUME was.here, ~strayed
      PROVE  LET cat == stage[m.target].cat IN
               /\ lost = (cat = "lost") /\ (disposition => cat = "lost")
               /\ automated => cat \notin {"won", "lost"}
  <2>1. /\ was.lost = (from.cat = "lost") /\ (was.disposition => from.cat = "lost")
        /\ was.automated => from.cat \notin {"won", "lost"}
    BY <1>2, <1>5, <1>6 DEF MarksTrue
  <2> QED
    BY <1>3, <1>5, <1>6, <2>1
<1> HIDE DEF lost, disposition, automated, strayed, late, was
<1>7. /\ r \in Board!FileRow /\ r.here = was.here /\ r.on = m.target /\ r.in = Home[m.target]
      /\ r.lost = lost /\ r.disposition = disposition /\ r.automated = automated
      /\ r.strayed = strayed /\ r.late = late
  BY <1>1, <1>2, <1>4 DEF Board!FileRow
<1>8. FileStands(r, stage)
  BY <1>2, <1>7 DEF FileStands
<1>9. MarksTrue(r, stage)
  BY <1>6, <1>7 DEF MarksTrue
<1> QED
  BY <1>7, <1>8, <1>9

LEMMA BoardMoveFileKeeps ==
  ASSUME BoardInv, Board!PipelinesAssumption, NEW m \in moves, Board!MoveFile(m)
  PROVE  BoardInv'
<1> DEFINE r == [Board!Effects(m) EXCEPT !.late = Board!Outdated(m)]
<1>1. /\ moves' = moves \ {m} /\ UNCHANGED <<pipe, stage, claim, work, steps, frayed>>
      /\ UNCHANGED file \/ file' = [file EXCEPT ![m.file] = r]
  BY DEF Board!MoveFile
<1>2. m.file \in Files /\ steps' \in 0 .. MaxSteps /\ moves' \subseteq moves
  BY <1>1, MoveFacts
<1>3. r \in Board!FileRow /\ FileStands(r, stage) /\ MarksTrue(r, stage)
  BY EffectsAreTrue
<1>4. file \in [Files -> Board!FileRow]
  BY DEF BoardInv, TablesTyped
<1> HIDE DEF r
<1>5. CASE UNCHANGED file
  <2>1. MovesStand' /\ FilesStand'
    BY <1>1, <1>2, <1>5, MovesStay, FilesStay DEF BoardInv, StagesGrow
  <2> QED
    BY <1>1, <1>2, <1>4, <1>5, <2>1, BoardStays
<1>6. CASE file' = [file EXCEPT ![m.file] = r]
  BY <1>1, <1>2, <1>3, <1>6, OneFileWritten
<1> QED
  BY <1>1, <1>5, <1>6

LEMMA ImportFileKeeps ==
  ASSUME BoardInv, Board!PipelinesAssumption, NEW m \in moves, Board!ImportFile(m)
  PROVE  BoardInv'
<1> DEFINE late == Board!Outdated(m)
           strayed == stage[m.target].cat # "open"
           r == [Board!NotHere EXCEPT !.here = TRUE, !.on = m.target, !.in = Home[m.target],
                                !.automated = TRUE, !.late = late, !.strayed = strayed]
<1>1. /\ moves' = moves \ {m} /\ UNCHANGED <<pipe, stage, claim, work, steps, frayed>>
      /\ file' = [file EXCEPT ![m.file] = r]
  BY DEF Board!ImportFile
<1>2. /\ m.file \in Files /\ m.target \in Stages /\ Home[m.target] \in Pipes
      /\ stage[m.target].state # "new" /\ late \in BOOLEAN
      /\ ~late => stage[m.target].state = "live"
      /\ steps' \in 0 .. MaxSteps /\ moves' \subseteq moves
  BY <1>1, MoveFacts
<1>3. strayed \in BOOLEAN /\ (~strayed => stage[m.target].cat = "open")
  OBVIOUS
<1> HIDE DEF late, strayed
<1>4. /\ r \in Board!FileRow /\ r.here /\ r.on = m.target /\ r.in = Home[m.target]
      /\ r.lost = FALSE /\ r.disposition = FALSE /\ r.strayed = strayed /\ r.late = late
  BY <1>2, <1>3 DEF Board!NotHere, Board!FileRow
<1> HIDE DEF r
<1>5. FileStands(r, stage)
  BY <1>2, <1>4 DEF FileStands
<1>6. MarksTrue(r, stage)
  BY <1>3, <1>4 DEF MarksTrue
<1> QED
  BY <1>1, <1>2, <1>4, <1>5, <1>6, OneFileWritten

LEMMA ConfirmFundingKeeps ==
  ASSUME BoardInv, Board!PipelinesAssumption, NEW m \in moves, Board!ConfirmFunding(m)
  PROVE  BoardInv'
<1> DEFINE late == Board!Outdated(m)
           was == file[m.file]
           r == [[[[was EXCEPT !.on = m.target] EXCEPT !.in = Home[m.target]]
                  EXCEPT !.strayed = TRUE] EXCEPT !.late = late]
<1>1. /\ moves' = moves \ {m} /\ UNCHANGED <<pipe, stage, claim, work, steps, frayed>>
      /\ file' = [file EXCEPT ![m.file].on = m.target, ![m.file].in = Home[m.target],
                    ![m.file].strayed = TRUE, ![m.file].late = late]
  BY DEF Board!ConfirmFunding
<1>2. /\ m.file \in Files /\ m.target \in Stages /\ Home[m.target] \in Pipes
      /\ stage[m.target].state # "new" /\ late \in BOOLEAN
      /\ ~late => stage[m.target].state = "live" /\ was \in Board!FileRow
      /\ steps' \in 0 .. MaxSteps /\ moves' \subseteq moves
  BY <1>1, MoveFacts
<1>3. was \in Board!FileRow /\ file \in [Files -> Board!FileRow]
  BY <1>2 DEF BoardInv, TablesTyped
<1>4. file' = [file EXCEPT ![m.file] = r]
  BY <1>1, <1>2, <1>3
<1> HIDE DEF late, was
<1>5. /\ r \in Board!FileRow /\ r.on = m.target /\ r.in = Home[m.target] /\ r.strayed
      /\ r.late = late
  BY <1>2, <1>3 DEF Board!FileRow
<1> HIDE DEF r
<1>6. FileStands(r, stage) /\ MarksTrue(r, stage)
  BY <1>2, <1>5 DEF FileStands, MarksTrue
<1> QED
  BY <1>1, <1>2, <1>4, <1>5, <1>6, OneFileWritten

LEMMA LearnKeeps ==
  ASSUME BoardInv, Board!PipelinesAssumption, NEW f \in Files, Board!Learn(f)
  PROVE  BoardInv'
<1> DEFINE a == [file[f] EXCEPT !.facts = TRUE]
           b == [file[f] EXCEPT !.pushed = TRUE]
<1>1. /\ steps < MaxSteps /\ steps' = steps + 1
      /\ UNCHANGED <<pipe, stage, claim, work, moves, frayed>>
      /\ file' = [file EXCEPT ![f].facts = TRUE] \/ file' = [file EXCEPT ![f].pushed = TRUE]
  BY DEF Board!Learn
<1>2. file[f] \in Board!FileRow /\ FileStands(file[f], stage) /\ MarksTrue(file[f], stage)
  BY DEF BoardInv, TablesTyped, FilesStand
<1>3. PICK r \in {a, b} : file' = [file EXCEPT ![f] = r]
  BY <1>1
<1>4. /\ r \in Board!FileRow /\ r.here = file[f].here /\ r.on = file[f].on /\ r.in = file[f].in
      /\ r.lost = file[f].lost /\ r.disposition = file[f].disposition
      /\ r.automated = file[f].automated /\ r.strayed = file[f].strayed
      /\ r.late = file[f].late
  BY <1>2, <1>3 DEF Board!FileRow
<1> HIDE DEF a, b
<1>5. FileStands(r, stage) /\ MarksTrue(r, stage)
  BY <1>2, <1>4 DEF FileStands, MarksTrue
<1> QED
  BY <1>1, <1>3, <1>4, <1>5, StepsCount, OneFileWritten

-----------------------------------------------------------------------------
(* The invariant, and what follows from it.                                *)

LEMMA BoardBegins ==
  ASSUME Board!PipelinesAssumption, Board!StartAssumption, Board!Init
  PROVE  BoardInv
<1>1. /\ pipe = StartPipes /\ stage = StartStages /\ claim = Board!NoPipe /\ file \in StartFiles
      /\ work = [a \in Admins |-> Board!Idle] /\ moves = {} /\ steps = 0 /\ frayed = {}
  BY DEF Board!Init
<1>2. TablesTyped
  BY <1>1 DEF TablesTyped, Board!StartAssumption, Board!PipelinesAssumption
<1>3. StagesFollow
  BY <1>1 DEF StagesFollow, Board!StartAssumption
<1>4. DefaultStands
  BY <1>1 DEF DefaultStands, Board!StartAssumption
<1>5. WholeStand
  BY <1>1 DEF WholeStand, FullAs, LiveAs, Board!StartAssumption
<1>6. WorkStands /\ OnePerPipe
  BY <1>1, IdleStands DEF WorkStands, OnePerPipe
<1>7. MovesStand
  BY <1>1 DEF MovesStand
<1>8. FilesStand
  BY <1>1 DEF FilesStand, FileStands, MarksTrue, Board!StartAssumption
<1> QED
  BY <1>2, <1>3, <1>4, <1>5, <1>6, <1>7, <1>8 DEF BoardInv

LEMMA AdminOpensKeeps ==
  ASSUME BoardInv, Board!PipelinesAssumption, NEW a \in Admins, Board!AdminOpens(a)
  PROVE  BoardInv'
<1>1. ASSUME NEW p \in Pipes, NEW change \in Changes, Board!OpenEditPipe(a, p, change) PROVE BoardInv'
  BY <1>1, OpenEditPipeKeeps
<1>2. ASSUME NEW p \in Pipes, NEW t \in Stages, Board!OpenDeletePipe(a, p, t) PROVE BoardInv'
  BY <1>2, OpenDeletePipeKeeps
<1>3. ASSUME NEW s \in Stages, NEW new \in Board!Stage, Board!OpenEditStage(a, s, new) PROVE BoardInv'
  BY <1>3, OpenEditStageKeeps
<1>4. ASSUME NEW s \in Stages, NEW t \in Stages, Board!OpenDeleteStage(a, s, t) PROVE BoardInv'
  BY <1>4, OpenDeleteStageKeeps
<1>5. \A s \in Stages : /\ [stage[s] EXCEPT !.active = ~@] \in Board!Stage
                        /\ \A cat \in Board!Category : [stage[s] EXCEPT !.cat = cat] \in Board!Stage
  BY DEF BoardInv, TablesTyped, Board!Stage
<1> QED
  BY <1>1, <1>2, <1>3, <1>4, <1>5 DEF Board!AdminOpens, Changes

LEMMA BoardKeeps ==
  ASSUME BoardInv, Board!PipelinesAssumption, [Board!Next]_(Board!vars)
  PROVE  BoardInv'
<1>1. ASSUME NEW a \in Admins, Board!AdminOpens(a) PROVE BoardInv'
  BY <1>1, AdminOpensKeeps
<1>2. ASSUME NEW a \in Admins, Board!AdminCloses(a) PROVE BoardInv'
  BY <1>2, CommitEditPipeKeeps, CommitDeletePipeKeeps, CommitEditStageKeeps,
     CommitDeleteStageKeeps, RollbackKeeps DEF Board!AdminCloses
<1>3. ASSUME NEW p \in Pipes, NEW from, NEW default \in BOOLEAN,
             Board!CreatePipeline(p, from, default)
      PROVE  BoardInv'
  BY <1>3, CreatePipelineKeeps
<1>4. ASSUME NEW s \in Stages, NEW cat \in Board!Category, Board!CreateStage(s, cat) PROVE BoardInv'
  BY <1>4, CreateStageKeeps
<1>5. ASSUME NEW s \in Stages, NEW t \in Stages, Board!MoveStage(s, t) PROVE BoardInv'
  BY <1>5, MoveStageKeeps
<1>6. ASSUME NEW f \in Files, Board!FileStep(f) PROVE BoardInv'
  BY <1>6, LookKeeps, LearnKeeps DEF Board!FileStep
<1>7. ASSUME NEW m \in moves, Board!MoveStep(m) PROVE BoardInv'
  BY <1>7, BoardMoveFileKeeps, ImportFileKeeps, ConfirmFundingKeeps DEF Board!MoveStep
<1>8. ASSUME UNCHANGED Board!vars PROVE BoardInv'
  <2>1. /\ UNCHANGED <<pipe, stage, claim, work, frayed, file, moves, steps>>
        /\ steps \in 0 .. MaxSteps /\ file \in [Files -> Board!FileRow]
    BY <1>8 DEF Board!vars, BoardInv, TablesTyped
  <2>2. MovesStand' /\ FilesStand'
    BY <2>1, MovesStay, FilesStay DEF BoardInv, StagesGrow
  <2> QED
    BY <2>1, <2>2, BoardStays
<1> QED
  BY <1>1, <1>2, <1>3, <1>4, <1>5, <1>6, <1>7, <1>8 DEF Board!Next

LEMMA BoardIsTyped ==
  ASSUME BoardInv
  PROVE  Board!TypeOK
<1>1. \A a \in Admins : work[a].kind \in
        {"idle", "edit pipe", "delete pipe", "edit stage", "delete stage"}
  BY DEF BoardInv, WorkStands, OpStands
<1>2. \A m \in moves : m.file \in Files /\ m.target \in Stages
  BY DEF BoardInv, MovesStand, MoveStands
<1> QED
  BY <1>1, <1>2 DEF BoardInv, TablesTyped, Board!TypeOK

LEMMA BoardSays ==
  ASSUME BoardInv, Board!PipelinesAssumption
  PROVE  Board!OneDefault /\ Board!NothingInUseGoes /\ Board!FilesTellTheTruth
<1>1. Board!OneDefault
  <2>1. PICK p \in Pipes : /\ \A q \in Pipes : pipe[q].default <=> q = p
                           /\ pipe[p].state = "live" /\ pipe[p].active
    BY DEF BoardInv, DefaultStands
  <2>2. {q \in Pipes : pipe[q].default} = {p}
    BY <2>1
  <2>3. Board!Cardinality({p}) = 1
    BY FS_Singleton, BoardCounts
  <2> QED
    BY <2>1, <2>2, <2>3 DEF Board!OneDefault
<1>2. Board!NothingInUseGoes
  <2>1. ASSUME NEW f \in Files, file[f].here, ~file[f].late
        PROVE  stage[file[f].on].state = "live" /\ pipe[file[f].in].state = "live"
    BY <2>1 DEF BoardInv, FilesStand, FileStands, StagesFollow
  <2>2. ASSUME NEW p \in Pipes \ frayed, pipe[p].state = "live", pipe[p].active
        PROVE  Board!Complete({stage[s] : s \in Board!StagesOf(p)})
    BY <2>2, FullIsComplete DEF BoardInv, WholeStand
  <2> QED
    BY <2>1, <2>2 DEF Board!NothingInUseGoes
<1>3. Board!FilesTellTheTruth
  BY DEF Board!FilesTellTheTruth, BoardInv, FilesStand, MarksTrue
<1> QED
  BY <1>1, <1>2, <1>3


-----------------------------------------------------------------------------
(* The stories together: the one that is told keeps its invariant, and the *)
(* other stands still.                                                     *)

FilesInv ==
  (story = "meetings" => MeetingsInv /\ Held) /\ (story = "stages" => BoardInv)

StoryIsOne == story \in {"meetings", "stages"}

LEMMA FilesBegin == ASSUME MCInit PROVE FilesInv /\ StoryIsOne
<1>1. CASE story = "meetings" /\ Init
  BY <1>1, FilesAssumption, MeetingsBegin, HeldBegins DEF FilesInv, StoryIsOne
<1>2. CASE story = "stages" /\ Board!Init
  BY <1>2, FilesAssumption, BoardBegins DEF FilesInv, StoryIsOne
<1> QED
  BY <1>1, <1>2 DEF MCInit

LEMMA FilesKeep ==
  ASSUME FilesInv, StoryIsOne, [MCNext]_<<story, vars, boardVars>>
  PROVE  FilesInv' /\ StoryIsOne'
<1>1. story' = story
  BY DEF MCNext
<1>2. story = "meetings" => [Next]_vars
  BY DEF MCNext
<1>3. story = "stages" => [Board!Next]_(Board!vars)
  BY DEF MCNext, Board!vars, boardVars, vars
<1>4. story = "meetings" => MeetingsInv' /\ Held'
  BY <1>2, FilesAssumption, MeetingsKeep, HeldKeeps DEF FilesInv
<1>5. story = "stages" => BoardInv'
  BY <1>3, FilesAssumption, BoardKeeps DEF FilesInv
<1> QED
  BY <1>1, <1>4, <1>5 DEF FilesInv, StoryIsOne

LEMMA FilesAlways == MCSpec => [](FilesInv /\ StoryIsOne)
<1>1. FilesInv /\ StoryIsOne /\ [MCNext]_<<story, vars, boardVars>> => FilesInv' /\ StoryIsOne'
  BY FilesKeep
<1> QED
  BY <1>1, FilesBegin, PTL DEF MCSpec

(* Appointments, events, jobs and what a worker has read of them are well  *)
(* typed, and so are pipelines, stages, files and open transactions.       *)
THEOREM FilesTyped == MCSpec => []TypesOK
<1>1. FilesInv /\ StoryIsOne => TypesOK
  BY MeetingsAreTyped, BoardIsTyped DEF FilesInv, StoryIsOne, TypesOK
<1> QED
  BY <1>1, FilesAlways, PTL

(* There is one default pipeline; but for what changed between somebody's  *)
(* look and their write, no file stands on a stage that is gone and no     *)
(* active pipeline lacks a stage to start, to win or to lose on; and the   *)
(* marks of a file that went through the stage machine say how it left its *)
(* pipeline: whoever edits, deletes, claims and moves at the same time.    *)
THEOREM BoardStands == MCSpec => []PipelinesHold
<1>1. FilesInv => PipelinesHold
  BY FilesAssumption, BoardSays DEF FilesInv, PipelinesHold
<1> QED
  BY <1>1, FilesAlways, PTL

(* However requests, pushes, retries, syncs and the clock cross: where no  *)
(* older row was written over a newer and neither the process nor the      *)
(* connection ended in between, once nobody works on a meeting and no job  *)
(* of it is left, a calendar shows it, at its time, exactly while it is    *)
(* open, or its row shows an error; and that a job will try to mend, unless*)
(* the last one used up its attempts or somebody tried by hand in vain.    *)
(* The file's next meeting is the first to come, and none began            *)
(* unannounced.                                                            *)
THEOREM CalendarsStayTrue == MCSpec => []MeetingsStand
<1>1. FilesInv => MeetingsStand
  BY FilesAssumption, CalendarsAreShown, ClockIsRight DEF FilesInv, MeetingsStand
<1> QED
  BY <1>1, FilesAlways, PTL

(* No meeting takes a file back, or out of Funded, except from the stage   *)
(* of those who missed one, or where somebody moved the file between the   *)
(* decision and the move.                                                  *)
THEOREM FilesGoOn == MCSpec => FileMovesOn
<1>1. FilesInv /\ StoryIsOne /\ [MCNext]_<<story, vars, boardVars>> => [FileStep]_vars
  <2> SUFFICES ASSUME FilesInv, StoryIsOne, [MCNext]_<<story, vars, boardVars>>
               PROVE  [FileStep]_vars
    OBVIOUS
  <2>1. CASE story = "meetings"
    <3>1. [Next]_vars /\ MeetingsInv
      BY <2>1 DEF MCNext, FilesInv
    <3> QED
      BY <3>1, FilesAssumption, FileStepsOn
  <2>2. CASE story = "stages"
    <3>1. place' = place
      BY <2>2 DEF MCNext, meetingVars, vars
    <3> QED
      BY <3>1 DEF FileStep
  <2> QED
    BY <2>1, <2>2 DEF StoryIsOne
<1>2. FileMovesOn <=> [][FileStep]_vars
  BY DEF FileMovesOn, FileStep
<1> QED
  BY <1>1, <1>2, FilesAlways, PTL DEF MCSpec
=============================================================================
