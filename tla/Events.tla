-------------------------------- MODULE Events --------------------------------
(***************************************************************************)
(* How clients come into one workflow: the event table (src/services/      *)
(* events.ts), the tick that raises the events of time, consumes the table *)
(* and enrols (src/services/automation-engine.ts: emitTimeEvents,          *)
(* processEvents, enrol, sweepDueEnrollments, called in that order by      *)
(* src/jobs/handlers/automation.ts), and the people who enrol by hand and  *)
(* publish, pause and archive it (src/http/routes/automations.ts).         *)
(*                                                                         *)
(* The queue runs one tick at a time and runs it again when it died (see   *)
(* JobQueue); every statement of the tick is a step of its own.  What the  *)
(* steps of an enrolment do is Enrollment's matter.                        *)
(***************************************************************************)
EXTENDS Integers, Sequences, FiniteSets

CONSTANTS
  Clients,
  Limit,          \* events consumed by one tick
  SweepLimit,     \* files one time trigger looks at
  MaxEvents, MaxChanges, MaxTroubles, MaxHands   \* bounds

EventsAssumption ==
  /\ Limit \in Nat \ {0} /\ SweepLimit \in Nat \ {0}
  /\ {MaxEvents, MaxChanges, MaxTroubles, MaxHands} \subseteq Nat

VARIABLES
  flow,       \* automations: status, published version, and may it be re-entered?
  quiet,      \* applications.last_activity_at, as far as the trigger looks
  past,       \* clients whose file satisfies a stop condition
  events,     \* domain_events, in the order of their ids
  enrolled,   \* automation_enrollments, in the order of their ids
  tick,       \* the run of automation.tick, if there is one
  swept,      \* has lastTimeSweep been set less than five minutes ago?
  hand,       \* the request that enrols by hand, or changes the status
  changes, troubles, hands

vars == <<flow, quiet, past, events, enrolled, tick, swept, hand,
          changes, troubles, hands>>
counts == <<changes, troubles, hands>>

None == 0

(* `version` 0: never published.                                           *)
Flow == [status : {"active", "paused", "archived"}, version : Nat,
         again : {"never", "later", "always"}]

(* A file's present spell without activity; `crossed`: the version that was *)
(* published when it had lasted long enough.                               *)
Quiet == [spell : Nat, long : BOOLEAN, crossed : Nat]

(* `spell` is what the dedupe key of a time event says besides the file.   *)
Event == [kind : {"fact", "own", "quiet"}, client : Clients, spell : Nat,
          crossed : Nat, processed : BOOLEAN, error : BOOLEAN, missed : BOOLEAN]

Enrolled == [client : Clients, by : Nat, state : {"active", "over"},
             job : BOOLEAN, recent : BOOLEAN]

(* `flow` is the workflow as it was loaded; `batch` the ids still to do.   *)
Unread == [status |-> "archived", version |-> 0, again |-> "never"]
Idle == [pc |-> "idle", flow |-> Unread, rows |-> {}, batch |-> <<>>, row |-> None,
         error |-> FALSE]
NoHand == [pc |-> "none", client |-> None, row |-> None]

At(pc) == tick.pc = pc

Running(f) == f.status = "active" /\ f.version > 0

Init ==
  /\ \E a \in {"never", "later", "always"} :
       flow = [status |-> "paused", version |-> 0, again |-> a]
  /\ quiet \in {[c \in Clients |-> [spell |-> 0, long |-> l, crossed |-> 0]] : l \in BOOLEAN}
  /\ past = {} /\ events = <<>> /\ enrolled = <<>>
  /\ tick = Idle /\ swept = FALSE /\ hand = NoHand
  /\ changes = 0 /\ troubles = 0 /\ hands = 0

Of(c) == {i \in DOMAIN enrolled : enrolled[i].client = c}
Live(c) == {i \in Of(c) : enrolled[i].state = "active"}

-----------------------------------------------------------------------------
(* emitEvent: a key is inserted once.                                      *)

(* Fault: no unique index.                                                 *)
EmitAlways(e) == events' = Append(events, e)

Emit(e) ==
  events' = IF e.kind = "quiet" /\ \E i \in DOMAIN events :
                 events[i].kind = "quiet" /\ events[i].client = e.client
                 /\ events[i].spell = e.spell
            THEN events ELSE Append(events, e)

NewEvent(kind, c) ==
  [kind |-> kind, client |-> c,
   spell |-> IF kind = "quiet" THEN quiet[c].spell ELSE 0,
   crossed |-> IF kind = "quiet" THEN quiet[c].crossed ELSE 0,
   processed |-> FALSE, error |-> FALSE, missed |-> FALSE]

(* Something happens to a client that the workflow listens for, in one     *)
(* transaction with its event.                                             *)
Happens(c) ==
  /\ Len(events) < MaxEvents
  /\ Emit(NewEvent("fact", c))
  /\ UNCHANGED <<flow, quiet, past, enrolled, tick, swept, hand, counts>>

(* A step of the workflow itself does what the workflow listens for.       *)
DoneByItself(c) ==
  /\ Len(events) < MaxEvents /\ Live(c) # {}
  /\ Emit(NewEvent("own", c))
  /\ UNCHANGED <<flow, quiet, past, enrolled, tick, swept, hand, counts>>

GoesQuiet(c) ==
  /\ ~quiet[c].long
  /\ quiet' = [quiet EXCEPT ![c].long = TRUE, ![c].crossed = flow.version]
  /\ UNCHANGED <<flow, past, events, enrolled, tick, swept, hand, counts>>

Stirs(c) ==
  /\ quiet[c].long /\ changes < MaxChanges
  /\ quiet' = [quiet EXCEPT ![c] = [spell |-> @.spell + 1, long |-> FALSE, crossed |-> 0]]
  /\ changes' = changes + 1
  /\ UNCHANGED <<flow, past, events, enrolled, tick, swept, hand, troubles, hands>>

GetsPastIt(c) ==
  /\ c \notin past /\ changes < MaxChanges
  /\ past' = past \cup {c} /\ changes' = changes + 1
  /\ UNCHANGED <<flow, quiet, events, enrolled, tick, swept, hand, troubles, hands>>

-----------------------------------------------------------------------------
(* enrol: the look, the insert and the job are statements of their own.    *)

(* Fault: only those still in it are looked for.                           *)
RefusedIfLive(f, c) == Live(c) # {}

Refused(f, c) ==
  CASE f.again = "never" -> Of(c) # {}
    [] f.again = "later" -> \E i \in Of(c) : enrolled[i].recent
    [] OTHER -> FALSE

(* The unique index lets one active or paused enrolment through.           *)
InsertEnrolled(c, by) ==
  enrolled' = IF Live(c) # {} THEN enrolled
              ELSE Append(enrolled, [client |-> c, by |-> by, state |-> "active",
                                     job |-> FALSE, recent |-> TRUE])

PlantStep(i) == enrolled' = [enrolled EXCEPT ![i].job = TRUE]

-----------------------------------------------------------------------------
(* automation.tick.                                                        *)

StartTick ==
  /\ tick.pc = "idle"
  /\ tick' = [Idle EXCEPT !.pc = IF swept THEN "load" ELSE "sweep"]
  /\ swept' = TRUE
  /\ UNCHANGED <<flow, quiet, past, events, enrolled, hand, counts>>

(* Fault: whatever is quiet counts, since when it may.                     *)
QuietAtAll(c) == quiet[c].long

(* Fault: the moment of publication is not since.                          *)
QualifiesLater(c) == quiet[c].long /\ quiet[c].crossed > flow.version

(* It crossed the line after the version went live.                        *)
Qualifies(c) == quiet[c].long /\ quiet[c].crossed >= flow.version

TimeTriggerRows ==
  /\ At("sweep")
  /\ LET all == {c \in Clients : Running(flow) /\ Qualifies(c)}
     IN  \E rows \in SUBSET all :
           /\ Cardinality(rows) = IF Cardinality(all) > SweepLimit THEN SweepLimit
                                  ELSE Cardinality(all)
           /\ tick' = [tick EXCEPT !.rows = {NewEvent("quiet", c) : c \in rows},
                                   !.pc = IF rows = {} THEN "load" ELSE "raise"]
  /\ UNCHANGED <<flow, quiet, past, events, enrolled, swept, hand, counts>>

Raise ==
  /\ At("raise")
  /\ \E e \in tick.rows :
       /\ Emit(e)
       /\ tick' = [tick EXCEPT !.rows = @ \ {e},
                               !.pc = IF tick.rows = {e} THEN "load" ELSE "raise"]
  /\ UNCHANGED <<flow, quiet, past, enrolled, swept, hand, counts>>

(* `order by id`: the one list of these ids that ascends.                  *)
Ascending(ids) ==
  {list \in [1 .. Cardinality(ids) -> ids] :
     \A x, y \in 1 .. Cardinality(ids) : x < y => list[x] < list[y]}

Unprocessed == {i \in DOMAIN events : ~events[i].processed}

(* Fault: what was processed is read again.                                *)
LoadAnyEvents ==
  /\ At("load")
  /\ \/ events = <<>> /\ tick' = [tick EXCEPT !.pc = "requeue"]
     \/ /\ events # <<>>
        /\ \E list \in Ascending(DOMAIN events) :
             tick' = [tick EXCEPT !.batch = list, !.flow = flow, !.pc = "match"]
  /\ UNCHANGED <<flow, quiet, past, events, enrolled, swept, hand, counts>>

(* Fault: a batch is waited for until it is full.                          *)
LoadFullBatches ==
  /\ At("load")
  /\ LET first == {i \in Unprocessed :
                     Cardinality({k \in Unprocessed : k < i}) < Limit}
     IN  \/ Cardinality(first) < Limit /\ tick' = [tick EXCEPT !.pc = "requeue"]
         \/ /\ Cardinality(first) >= Limit
            /\ \E list \in Ascending(first) :
                 tick' = [tick EXCEPT !.batch = list, !.flow = flow, !.pc = "match"]
  /\ UNCHANGED <<flow, quiet, past, events, enrolled, swept, hand, counts>>

(* The first unprocessed events, oldest id first; what is published is     *)
(* read once for all of them.                                              *)
LoadEvents ==
  /\ At("load")
  /\ LET first == {i \in Unprocessed :
                     Cardinality({k \in Unprocessed : k < i}) < Limit}
     IN  \/ first = {} /\ tick' = [tick EXCEPT !.pc = "requeue"]
         \/ /\ first # {}
            /\ \E list \in Ascending(first) :
                 tick' = [tick EXCEPT !.batch = list, !.flow = flow, !.pc = "match"]
  /\ UNCHANGED <<flow, quiet, past, events, enrolled, swept, hand, counts>>

Now == Head(tick.batch)

(* Fault: an event starts the workflow whoever raised it.                  *)
MatchesAnyones(e) == TRUE

(* Fault: an event that names no trigger matches none.                     *)
MatchesNamed(e) == e.kind = "quiet"

Matches(e) == e.kind # "own"

(* matchingTrigger and firstStopReason, on the facts as they are now, and  *)
(* where they let the client in, enrol's look.                             *)
Look ==
  /\ At("match")
  /\ LET e == events[Now]
     IN  tick' = [tick EXCEPT !.pc =
            IF /\ Running(tick.flow) /\ Matches(e) /\ e.client \notin past
               /\ ~Refused(tick.flow, e.client)
            THEN "insert" ELSE "mark"]
  /\ UNCHANGED <<flow, quiet, past, events, enrolled, swept, hand, counts>>

Insert ==
  /\ At("insert")
  /\ InsertEnrolled(events[Now].client, Now)
  /\ tick' = IF enrolled' = enrolled THEN [tick EXCEPT !.pc = "mark"]
             ELSE [tick EXCEPT !.row = Len(enrolled) + 1, !.pc = "plant"]
  /\ UNCHANGED <<flow, quiet, past, events, swept, hand, counts>>

Plant ==
  /\ At("plant")
  /\ PlantStep(tick.row)
  /\ tick' = [tick EXCEPT !.row = None, !.pc = "mark"]
  /\ UNCHANGED <<flow, quiet, past, events, swept, hand, counts>>

(* `missed` notes an event that ought to have brought the client in: it    *)
(* was read by a tick that found the workflow running, and nobody had.     *)
Mark ==
  /\ At("mark")
  /\ events' = [events EXCEPT ![Now].processed = TRUE, ![Now].error = tick.error,
       ![Now].missed = /\ ~tick.error /\ Running(tick.flow) /\ events[Now].kind # "own"
                       /\ events[Now].client \notin past /\ Of(events[Now].client) = {}]
  /\ tick' = [tick EXCEPT !.batch = Tail(@), !.error = FALSE, !.row = None,
                          !.flow = IF Len(tick.batch) = 1 THEN Unread ELSE @,
                          !.pc = IF Len(tick.batch) = 1 THEN "requeue" ELSE "match"]
  /\ UNCHANGED <<flow, quiet, past, enrolled, swept, hand, counts>>

(* A statement throws: the event is marked with the error, and where that  *)
(* throws as well, or there is no event yet, the tick fails.               *)
Throw ==
  /\ troubles < MaxTroubles /\ troubles' = troubles + 1
  /\ \/ /\ tick.pc \in {"match", "insert", "plant", "mark"}
        /\ tick' = [tick EXCEPT !.error = TRUE, !.row = None, !.pc = "mark"]
     \/ /\ tick.pc \notin {"idle", "match", "insert", "plant"}
        /\ tick' = Idle
  /\ UNCHANGED <<flow, quiet, past, events, enrolled, swept, hand, changes, hands>>

(* Fault: nobody looks for those whose job is not there.                   *)
RequeueNobody ==
  /\ At("requeue")
  /\ tick' = Idle
  /\ UNCHANGED <<flow, quiet, past, events, enrolled, swept, hand, counts>>

(* sweepDueEnrollments: those whose job is not there get one.              *)
Requeue ==
  /\ At("requeue")
  /\ enrolled' = [i \in DOMAIN enrolled |->
       [enrolled[i] EXCEPT !.job = @ \/ enrolled[i].state = "active"]]
  /\ tick' = Idle
  /\ UNCHANGED <<flow, quiet, past, events, swept, hand, counts>>

FiveMinutesPass ==
  /\ swept /\ tick.pc = "idle"
  /\ swept' = FALSE
  /\ UNCHANGED <<flow, quiet, past, events, enrolled, tick, hand, counts>>

(* The process ends; the queue returns the tick's job to whoever is next.  *)
Exit ==
  /\ troubles < MaxTroubles /\ troubles' = troubles + 1
  /\ tick' = Idle /\ swept' = FALSE /\ hand' = NoHand
  /\ UNCHANGED <<flow, quiet, past, events, enrolled, changes, hands>>

-----------------------------------------------------------------------------
(* The enrolment's own life, as far as it matters here.                    *)

RunsOut(i) ==
  /\ enrolled[i].state = "active" /\ enrolled[i].job
  /\ enrolled' = [enrolled EXCEPT ![i].state = "over", ![i].job = FALSE]
  /\ UNCHANGED <<flow, quiet, past, events, tick, swept, hand, counts>>

CooldownPasses(i) ==
  /\ enrolled[i].recent /\ flow.again = "later" /\ changes < MaxChanges
  /\ enrolled' = [enrolled EXCEPT ![i].recent = FALSE]
  /\ changes' = changes + 1
  /\ UNCHANGED <<flow, quiet, past, events, tick, swept, hand, troubles, hands>>

-----------------------------------------------------------------------------
(* Requests.                                                               *)

Publish ==
  /\ changes < MaxChanges /\ changes' = changes + 1
  /\ flow' = [flow EXCEPT !.status = "active", !.version = @ + 1]
  /\ UNCHANGED <<quiet, past, events, enrolled, tick, swept, hand, troubles, hands>>

(* The status route: the workflow, then, where it was asked for, those in  *)
(* it.                                                                     *)
SetStatus(s) ==
  /\ hand.pc = "none" /\ changes < MaxChanges
  /\ s = "active" => flow.version > 0
  /\ flow' = [flow EXCEPT !.status = s]
  /\ \E stop \in BOOLEAN :
       hand' = [NoHand EXCEPT !.pc = IF stop \/ s = "archived" THEN "stop" ELSE "none"]
  /\ changes' = changes + 1
  /\ UNCHANGED <<quiet, past, events, enrolled, tick, swept, troubles, hands>>

StopRunning ==
  /\ hand.pc = "stop"
  /\ enrolled' = [i \in DOMAIN enrolled |->
       [enrolled[i] EXCEPT !.state = "over"]]
  /\ hand' = NoHand
  /\ UNCHANGED <<flow, quiet, past, events, tick, swept, counts>>

AskByHand(c) ==
  /\ hand.pc = "none" /\ hands < MaxHands /\ hands' = hands + 1
  /\ Running(flow)
  /\ hand' = [NoHand EXCEPT !.pc = "look", !.client = c]
  /\ UNCHANGED <<flow, quiet, past, events, enrolled, tick, swept, changes, troubles>>

LookByHand ==
  /\ hand.pc = "look"
  /\ hand' = IF Refused(flow, hand.client) THEN NoHand ELSE [hand EXCEPT !.pc = "insert"]
  /\ UNCHANGED <<flow, quiet, past, events, enrolled, tick, swept, counts>>

InsertByHand ==
  /\ hand.pc = "insert"
  /\ InsertEnrolled(hand.client, None)
  /\ hand' = IF enrolled' = enrolled THEN NoHand
             ELSE [hand EXCEPT !.row = Len(enrolled) + 1, !.pc = "plant"]
  /\ UNCHANGED <<flow, quiet, past, events, tick, swept, counts>>

PlantByHand ==
  /\ hand.pc = "plant"
  /\ PlantStep(hand.row)
  /\ hand' = NoHand
  /\ UNCHANGED <<flow, quiet, past, events, tick, swept, counts>>

-----------------------------------------------------------------------------
TickStep ==
  \/ TimeTriggerRows \/ Raise \/ LoadEvents
  \/ Look \/ Insert \/ Plant \/ Mark \/ Requeue

HandStep == StopRunning \/ LookByHand \/ InsertByHand \/ PlantByHand

Next ==
  \/ \E c \in Clients : Happens(c) \/ DoneByItself(c) \/ GoesQuiet(c) \/ Stirs(c)
                        \/ GetsPastIt(c) \/ AskByHand(c)
  \/ StartTick \/ TickStep \/ Throw \/ FiveMinutesPass \/ Exit
  \/ \E i \in DOMAIN enrolled : RunsOut(i) \/ CooldownPasses(i)
  \/ Publish \/ HandStep
  \/ \E s \in {"active", "paused", "archived"} : SetStatus(s)

(* The tick comes back for ever and its statements end; time goes on.      *)
Fairness == WF_vars(StartTick) /\ WF_vars(TickStep) /\ SF_vars(FiveMinutesPass)

Spec == Init /\ [][Next]_vars /\ Fairness

-----------------------------------------------------------------------------
TypeOK ==
  /\ flow \in Flow /\ quiet \in [Clients -> Quiet] /\ past \subseteq Clients
  /\ events \in Seq(Event) /\ enrolled \in Seq(Enrolled)
  /\ tick.pc \in {"idle", "sweep", "raise", "load", "match",
                  "insert", "plant", "mark", "requeue"}
  /\ tick.rows \subseteq Event /\ tick.batch \in Seq(DOMAIN events)
  /\ hand.pc \in {"none", "stop", "look", "insert", "plant"}

(* automation-engine.ts:361, enrol: a workflow that may not be entered     *)
(* again takes a client once however many events there are and however     *)
(* often the tick dies, unless a person was at it at the same moment; one  *)
(* with a cooldown not within it.                                          *)
TakenOnce ==
  \A c \in Clients :
    LET ByTick == {i \in Of(c) : enrolled[i].by # None}
        recent == {i \in ByTick : enrolled[i].recent}
    IN  /\ flow.again = "never" =>
             Cardinality(ByTick) <= 1 /\ Cardinality(Of(c)) <= 1 + hands
        /\ flow.again = "later" => Cardinality(recent) <= 1

(* events.ts:9: a key is consumed once: one event brings a client in twice *)
(* only if the tick that handled it died before it said so.                *)
ConsumedOnce ==
  \A i, k \in DOMAIN enrolled :
    i # k /\ enrolled[i].by = enrolled[k].by /\ enrolled[i].by # None =>
      troubles > 0

(* events.ts:9: one quiet spell of a file is one occurrence, and takes the *)
(* client once, however many ticks see it.                                 *)
OneEventPerSpell ==
  \A i, k \in DOMAIN events :
    i # k /\ events[i].kind = "quiet" /\ events[k].kind = "quiet"
    /\ events[i].client = events[k].client => events[i].spell # events[k].spell

(* automation-engine.ts:208, "only from the moment it was published": a    *)
(* spell that was long enough before there was a version is never an event *)
(* of it, and nobody is taken into a workflow because of its own steps.    *)
TakenForAReason ==
  /\ \A i \in DOMAIN events : events[i].kind = "quiet" => events[i].crossed > 0
  /\ \A i \in DOMAIN enrolled :
       enrolled[i].by # None => events[enrolled[i].by].kind # "own"

(* automation-engine.ts:183: an event is marked only after it was acted    *)
(* on, so one that was handled without an error while the workflow ran has *)
(* brought the client in, or somebody had before.                          *)
HandledMeansTaken == \A i \in DOMAIN events : ~events[i].missed

(* As long as no more files are quiet than one look takes: it takes those  *)
(* that were raised before as readily as the others, so that with more     *)
(* some may never be looked at.                                            *)
Overlooked(c) ==
  /\ Running(flow) /\ Qualifies(c)
  /\ Cardinality({d \in Clients : Qualifies(d)}) <= SweepLimit
  /\ \A i \in DOMAIN events : events[i].kind = "quiet" /\ events[i].client = c
                              => events[i].spell # quiet[c].spell

Idling(i) == enrolled[i].state = "active" /\ ~enrolled[i].job

CaughtUp ==
  /\ Unprocessed = {}
  /\ \A c \in Clients : ~Overlooked(c)
  /\ \A i \in DOMAIN enrolled : ~Idling(i)

(* handlers/automation.ts:30: whatever the ticks before it met with, every *)
(* event is consumed, who was enrolled by a process that died before it    *)
(* planted the step is given one, and every file that went quiet since the *)
(* publication is noticed, at the latest when those that are quiet beside  *)
(* it fit into one look.                                                   *)
TickCatchesUp == []<>CaughtUp

Noticed(c) ==
  \E i \in DOMAIN events :
    events[i].kind = "quiet" /\ events[i].client = c /\ events[i].spell = quiet[c].spell

(* automation-engine.ts:208 "Only from the moment it was published": the   *)
(* only files left out.  Not so: 500 are looked at, raised or not, and     *)
(* with more of them quiet the same may be looked at every time.           *)
QuietIsNoticed == []<>(\A c \in Clients : Running(flow) /\ Qualifies(c) => Noticed(c))

(* automations.ts:458, "Pausing stops NEW enrollments".  Not so: the tick  *)
(* works through a batch with what was published when it began.            *)
PausedTakesNobody ==
  [][\A i \in DOMAIN enrolled' \ DOMAIN enrolled : Running(flow)]_vars
=============================================================================
