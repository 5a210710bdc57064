----------------------------- MODULE MCWorkflow -----------------------------
(* A workflow from both ends: what brings clients into it (the story       *)
(* "entry") and what carries one of them through its steps (the story      *)
(* "steps").  The other story stands still, with nothing fair to do.       *)
EXTENDS MCEnrollment

CONSTANTS
  Clients, Limit, SweepLimit, MaxEvents, MaxChanges, MaxTroubles, MaxHands

VARIABLES
  story,
  flow, quiet, past, events, enrolled, tick, swept, hand, changes, troubles, hands

Door == INSTANCE Events

ASSUME WorkflowAssumption == Door!EventsAssumption

doorVars == <<flow, quiet, past, events, enrolled, tick, swept, hand, changes, troubles,
              hands>>

\* What the variables of the door are in the other story.
Still == 0

MCInit ==
  \/ /\ story = "steps" /\ Init
     /\ flow = Still /\ quiet = Still /\ past = Still /\ events = Still
     /\ enrolled = Still /\ tick = Still /\ swept = Still /\ hand = Still
     /\ changes = Still /\ troubles = Still /\ hands = Still
  \/ /\ story = "entry" /\ Door!Init /\ \A c \in Clients : ~quiet[c].long
     /\ status = "stopped" /\ node = End /\ steps = 0 /\ due = "none" /\ claim = "free"
     /\ jobs = {} /\ tasks = {} /\ ran = [n \in Nodes |-> 0] /\ skipped = {}
     /\ sent = {} /\ resolved = FALSE /\ late = 0
     /\ asks = 0 /\ faults = 0 /\ exits = 0

MCNext ==
  /\ UNCHANGED story
  /\ \/ story = "steps" /\ Next /\ UNCHANGED doorVars
     \/ story = "entry" /\ Door!Next /\ UNCHANGED vars

\* Door!Fairness, where the door is there to be fair to.
DoorFairness ==
  /\ WF_doorVars(story = "entry" /\ Door!StartTick)
  /\ WF_doorVars(story = "entry" /\ Door!TickStep)
  /\ SF_doorVars(story = "entry" /\ Door!FiveMinutesPass)

MCSpec ==
  MCInit /\ [][MCNext]_<<story, vars, doorVars>> /\ Fairness /\ DoorFairness

(* To every client but one nothing happens but that the file goes quiet    *)
(* beside the one's; nobody asks by hand then, and nothing else is told.   *)
Touched(c) ==
  \/ c \in past \/ quiet[c].spell > 0 \/ quiet[c].long \/ hand.client = c
  \/ \E i \in DOMAIN events : events[i].client = c

One == CHOOSE c \in Clients : TRUE

BesideOnlyQuiet ==
  story = "entry" /\ (\E c \in Clients \ {One} : Touched(c)) =>
    /\ past = {} /\ hands = 0
    /\ \A i \in DOMAIN events : events[i].kind = "quiet"

SmallWorkflow == OneTrouble /\ BesideOnlyQuiet

-----------------------------------------------------------------------------
(* events.ts, automation-engine.ts: an event is raised once for what it    *)
(* tells of and brings a client in once, for a reason; none is dropped.    *)
(* What the engine holds of a client who is in is well formed.             *)
EntryIsOrderly ==
  /\ TypeOK
  /\ story = "entry" =>
    /\ Door!TypeOK /\ Door!TakenOnce /\ Door!ConsumedOnce
    /\ Door!OneEventPerSpell /\ Door!TakenForAReason /\ Door!HandledMeansTaken

(* handlers/automation.ts:30: whatever the ticks before it met with, each  *)
(* event is consumed, who is in without a job gets one, and each file that *)
(* went quiet is noticed once no more are quiet than one look takes.       *)
TickCatchesUp == []<>(story = "entry" => Door!CaughtUp)
=============================================================================
