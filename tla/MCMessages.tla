---------------------------- MODULE MCMessages ----------------------------
(* The ways a text takes, out and in, and the table of the queue under     *)
(* slow handlers, one by one: a story is chosen at the start and the       *)
(* others stand still, at what their properties hold of.                   *)
EXTENDS MCMessaging, Consent, JobTable, TLC

CONSTANTS
  ann, bob, cat, cell, home,
  FirstPhone, StaffAtOnce, MaxDeliveries, MaxEdits,
  Workers, Keys, Tick, MaxClaims

VARIABLES
  story,
  said, hook, stored, held, applied, tasks, asks, deliveries, edits,
  phase, toPrime

\* Ann has the number the texts come from; the others have another one.
MCBobElsewhere == [c \in Customers |-> IF c = ann THEN cell ELSE home]

\* Out: two calls of `send` with one dedupe key, by the definitions this
\* module extends.  All stories use the variable `exits`.
In == INSTANCE Inbound

\* Two workers, and handlers that outlive the reclaim limit.
Late == INSTANCE JobQueue WITH
  RecurringKeys <- {Tick}, UnknownKeys <- {}, AskedKeys <- {NoKey},
  Concurrency <- 1, Batch <- 2, Overruns <- TRUE, PrimeErrors <- FALSE

ASSUME In!InboundAssumption /\ Late!QueueAssumption

outVars == <<msg, asked, job, attempts, blankJob, work, stopped, keywords, received,
             refused, losses>>
inVars == <<phone, merged, said, hook, stored, held, consents, suppressions, applied,
            tasks, asks, deliveries, edits>>
queueVars == <<rows, runs, phase, toPrime>>

\* What the variables of the other stories are.  Those the properties of
\* Messaging, Consent and JobTable read are as they begin.
Still == 0

NothingGoesOut ==
  /\ msg = Still /\ asked = Still /\ job = Still /\ attempts = Still
  /\ blankJob = Still /\ work = {} /\ stopped = Still
  /\ keywords = Still /\ refused = Still
  /\ received = [r \in Requests |-> 0] /\ losses = [r \in Requests |-> 0]

NothingComesIn ==
  /\ phone = Still /\ merged = [c \in Customers |-> Nobody] /\ consents = <<>>
  /\ suppressions = Still /\ said = Still /\ hook = Still
  /\ stored = Still /\ held = Still /\ applied = Still /\ tasks = Still
  /\ asks = Still /\ deliveries = Still /\ edits = Still

MCInit ==
  /\ Late!Init
  /\ \/ story = "out" /\ Init /\ NothingComesIn
     \/ story = "in" /\ In!Init /\ NothingGoesOut
     \/ story = "late" /\ NothingGoesOut /\ NothingComesIn

MCNext ==
  /\ UNCHANGED story
  /\ \/ story = "out" /\ Next /\ UNCHANGED <<inVars, queueVars>>
     \/ story = "in" /\ In!Next /\ UNCHANGED <<outVars, queueVars>>
     \/ story = "late" /\ Late!Next /\ UNCHANGED <<outVars, inVars>>

MCSpec == MCInit /\ [][MCNext]_<<story, vars, inVars, queueVars>>

MCSymmetry == Permutations(Jobs) \cup Permutations(Workers)
=============================================================================
