------------------------------ MODULE Campaign ------------------------------
(***************************************************************************)
(* One campaign: the staff's buttons (src/http/routes/campaigns.ts), the   *)
(* frozen audience (src/services/campaigns.ts) and the chain of            *)
(* `campaign.send` jobs that walks it (src/jobs/handlers/campaign.ts).     *)
(*                                                                         *)
(* Each statement of a request and of the handler is a step.  `send` is    *)
(* three: it reads the gate and the hour, records the message under the    *)
(* recipient's dedupe key, hands it to the provider (Messaging has the     *)
(* detail).  A resumed campaign has a chain of its own beside one that has *)
(* not noticed the pause, and the process may exit between any two steps.  *)
(***************************************************************************)
EXTENDS Naturals, FiniteSets, FiniteSetsExt

CONSTANTS
  Recipients,    \* whom the segment matches; the order is that of the rows
  Unmergeable,   \* those for whom the merge leaves no subject or no text
  OptingOut,     \* those who may unsubscribe on the way
  Jobs,          \* bound: rows of `campaign.send` that are not settled; settled
                 \* ones (succeeded or dead) are read by nobody
  Batch,         \* throttle_per_minute
  MaxAttempts,   \* max_attempts of a job
  Allowance,     \* bound: Allowance[k] requests of kind k
  StaffAtOnce,   \* bound: requests under way at the same time
  MaxExits       \* bound: exits of the process

Kinds == {"audience", "send", "pause", "resume"}

ASSUME CampaignAssumption ==
  /\ Recipients \subseteq Nat /\ Jobs \subseteq Nat
  /\ IsFiniteSet(Recipients) /\ IsFiniteSet(Jobs)
  /\ Unmergeable \subseteq Recipients /\ OptingOut \subseteq Recipients
  /\ Batch \in Nat \ {0} /\ MaxAttempts \in Nat \ {0}
  /\ Allowance \in [Kinds -> Nat]
  /\ StaffAtOnce \in Nat \ {0} /\ MaxExits \in Nat

VARIABLES
  status,      \* campaigns.status
  rec,         \* rec[r]: campaign_recipients.status, "none" before the freeze
  frozen,      \* how often the audience was frozen: rows are new each time
  msg,         \* msg[r]: status of the message with dedupe key campaign:<id>:<r>
  received,    \* received[r]: times the provider accepted it
  job,         \* job[j]: a row of the queue
  runs,        \* handlers in memory
  requests,    \* requests in memory
  left,        \* left[k]: requests of kind k still to come
  optedOut,    \* who has unsubscribed
  inHand,      \* while it is paused: the jobs whose handlers were at a batch then
  afterPause,  \* afterPause[j]: rows taken up for job j since
  lost,        \* ghost: how a start, or what it planted, has come to nothing since
  exits

vars == <<status, rec, frozen, msg, received, job, runs, requests, left, optedOut,
          inHand, afterPause, lost, exits>>

rows == <<status, rec, frozen>>
messages == <<msg, received>>
ghosts == <<inHand, afterPause, lost>>

Free == [state |-> "free", own |-> TRUE, attempts |-> 0]
Cause == {"dropped", "dead", "never planted"}
Way == {"none", "refused", "later", "now"}
Outcome == {"none", "sent", "suppressed", "failed"}
Request == [kind : Kinds, n : Nat, pc : {"asked", "write", "enqueue"}, saw : SUBSET Recipients]

(* `batch` is what is left of the rows the handler read; `gen` the freeze  *)
(* they belong to; `id` the message id in `send`'s answer: the message's   *)
(* own, none, or ''.                                                       *)
Run == [job : Jobs, gen : Nat, batch : SUBSET Recipients,
        pc : {"status", "fetch", "complete", "gate", "record", "deliver", "note",
              "chain", "succeed", "throw"},
        way : Way, out : Outcome, id : {"own", "null", "blank"}]

Init ==
  /\ status = "draft" /\ frozen = 0
  /\ rec = [r \in Recipients |-> "none"]
  /\ msg = [r \in Recipients |-> "none"]
  /\ received = [r \in Recipients |-> 0]
  /\ job = [j \in Jobs |-> Free]
  /\ runs = {} /\ requests = {}
  /\ left = Allowance
  /\ optedOut = {}
  /\ inHand = {} /\ afterPause = [j \in Jobs |-> 0] /\ lost = {}
  /\ exits = 0

Pending == {r \in Recipients : rec[r] = "pending"}

-----------------------------------------------------------------------------
(* enqueue: the first job's key is campaign.send:<id>, every other one's   *)
(* ends in the time, so it never meets another.                            *)
FirstKeyTaken == \E j \in Jobs : job[j].state \in {"pending", "running"} /\ ~job[j].own

Plant(own) ==
  IF ~own /\ FirstKeyTaken
    THEN UNCHANGED job
    ELSE /\ \E j \in Jobs : job[j].state = "free"
         /\ LET j == Min({i \in Jobs : job[i].state = "free"}) IN
              job' = [job EXCEPT ![j] = [state |-> "pending", own |-> own, attempts |-> 0]]

-----------------------------------------------------------------------------
(* The requests.                                                           *)

(* The status each one reads and refuses on.                               *)
Allowed(k) ==
  \/ k = "audience" /\ status = "draft"
  \/ k = "send" /\ status \notin {"sending", "completed"}
  \/ k = "pause" /\ status = "sending"
  \/ k = "resume" /\ status = "paused"

Ask(k) ==
  /\ left[k] > 0 /\ Cardinality(requests) < StaffAtOnce
  /\ Allowed(k)
  /\ left' = [left EXCEPT ![k] = @ - 1]
  /\ requests' = requests \cup {[kind |-> k, n |-> left[k], pc |-> "asked", saw |-> {}]}
  /\ UNCHANGED <<rows, messages, job, runs, optedOut, ghosts, exits>>

Answer(q) == requests' = requests \ {q}
Onward(q, pc) == requests' = (requests \ {q}) \cup {[q EXCEPT !.pc = pc]}

(* freezeAudience: everybody the segment matches, judged by the gate, and  *)
(* then the rows written anew in one transaction.                          *)
BuildAudience(q) ==
  /\ q.kind = "audience" /\ q.pc = "asked"
  /\ requests' = (requests \ {q}) \cup
       {[q EXCEPT !.pc = "write", !.saw = Recipients \ optedOut]}
  /\ UNCHANGED <<rows, messages, job, runs, left, optedOut, ghosts, exits>>

FreezeAudience(q) ==
  /\ q.kind = "audience" /\ q.pc = "write"
  /\ rec' = [r \in Recipients |-> IF r \in q.saw THEN "pending" ELSE "suppressed"]
  /\ frozen' = frozen + 1
  /\ Answer(q)
  /\ UNCHANGED <<status, messages, job, runs, left, optedOut, ghosts, exits>>

CountPending(q) ==
  /\ q.kind = "send" /\ q.pc = "asked"
  /\ IF Pending = {} THEN Answer(q) ELSE Onward(q, "write")
  /\ UNCHANGED <<rows, messages, job, runs, left, optedOut, ghosts, exits>>

(* The ghosts of a pause, from a change of the status on.                  *)
Watch(held) == inHand' = held /\ afterPause' = [j \in Jobs |-> 0]

MarkSending(q) ==
  /\ \/ q.kind = "send" /\ q.pc = "write"
     \/ q.kind = "resume" /\ q.pc = "asked"
  /\ status' = "sending"
  /\ Watch({}) /\ lost' = {}
  /\ Onward(q, "enqueue")
  /\ UNCHANGED <<rec, frozen, messages, job, runs, left, optedOut, exits>>

(* Dropped for a job that has nothing left to do but to settle.            *)
DroppedForNothing(q) ==
  /\ q.kind = "send"
  /\ \E t \in runs : job[t.job].state = "running" /\ ~job[t.job].own /\ t.pc = "succeed"

EnqueueFirstBatch(q) ==
  /\ q.pc = "enqueue"
  /\ Plant(q.kind = "resume")
  /\ Answer(q)
  /\ lost' = IF DroppedForNothing(q) THEN lost \cup {"dropped"} ELSE lost
  /\ UNCHANGED <<rows, messages, runs, left, optedOut, inHand, afterPause, exits>>

(* From the status it found to the last row of its batch.                  *)
AtBatch(t) == t.pc \in {"fetch", "gate", "record", "deliver", "note"}

Pause(q) ==
  /\ q.kind = "pause" /\ q.pc = "asked"
  /\ status' = "paused"
  /\ Watch({t.job : t \in {u \in runs : AtBatch(u)}}) /\ UNCHANGED lost
  /\ Answer(q)
  /\ UNCHANGED <<rec, frozen, messages, job, runs, left, optedOut, exits>>

-----------------------------------------------------------------------------
(* The handler, from the queue's claim on.                                 *)

Claim(j) ==
  /\ job[j].state = "pending"
  /\ job' = [job EXCEPT ![j].state = "running", ![j].attempts = @ + 1]
  /\ runs' = runs \cup {[job |-> j, gen |-> 0, batch |-> {}, pc |-> "status",
                         way |-> "none", out |-> "none", id |-> "own"]}
  /\ UNCHANGED <<rows, messages, requests, left, optedOut, ghosts, exits>>

Replace(t, u) == runs' = (runs \ {t}) \cup {u}
Goto(t, pc) == Replace(t, [t EXCEPT !.pc = pc])

(* The row the loop is at, and the loop's next turn.                       *)
At(t) == Min(t.batch)
NextRow(t) ==
  LET rest == t.batch \ {At(t)} IN
    Replace(t, [t EXCEPT !.batch = rest, !.pc = IF rest = {} THEN "chain" ELSE "gate",
                         !.way = "none", !.out = "none", !.id = "own"])

ReadCampaign(t) ==
  /\ t.pc = "status"
  /\ Goto(t, IF status = "sending" THEN "fetch" ELSE "succeed")
  /\ UNCHANGED <<rows, messages, job, requests, left, optedOut, ghosts, exits>>

FirstPending == {r \in Pending : Cardinality({s \in Pending : s < r}) < Batch}

(* Fault: rows another chain holds are passed over, and none left is the   *)
(* end.                                                                    *)
FetchUnheld(t) ==
  LET held == UNION {u.batch : u \in runs} IN
  /\ t.pc = "fetch"
  /\ Replace(t, [t EXCEPT !.batch = FirstPending \ held, !.gen = frozen,
                          !.pc = IF FirstPending \subseteq held THEN "complete" ELSE "gate"])
  /\ UNCHANGED <<rows, messages, job, requests, left, optedOut, ghosts, exits>>

FetchBatch(t) ==
  /\ t.pc = "fetch"
  /\ Replace(t, [t EXCEPT !.batch = FirstPending, !.gen = frozen,
                          !.pc = IF Pending = {} THEN "complete" ELSE "gate"])
  /\ UNCHANGED <<rows, messages, job, requests, left, optedOut, ghosts, exits>>

Complete(t) ==
  /\ t.pc = "complete"
  /\ status' = "completed"
  /\ Watch({}) /\ UNCHANGED lost
  /\ Goto(t, "succeed")
  /\ UNCHANGED <<rec, frozen, messages, job, requests, left, optedOut, exits>>

TakenUp(t) ==
  /\ afterPause' = IF status = "paused" THEN [afterPause EXCEPT ![t.job] = @ + 1]
                                        ELSE afterPause
  /\ UNCHANGED <<inHand, lost>>

(* An UPDATE by the row's id: rows of an audience frozen since are others. *)
WriteRow(t, value) ==
  rec' = IF t.gen = frozen THEN [rec EXCEPT ![At(t)] = value] ELSE rec

SkipUnmergeable(t) ==
  /\ t.pc = "gate" /\ At(t) \in Unmergeable
  /\ WriteRow(t, "suppressed")
  /\ NextRow(t)
  /\ TakenUp(t)
  /\ UNCHANGED <<status, frozen, messages, job, requests, left, optedOut, exits>>

(* Within quiet hours the message is put off.                              *)
ReadGate(t) ==
  /\ t.pc = "gate" /\ At(t) \notin Unmergeable
  /\ \E way \in IF At(t) \in optedOut THEN {"refused"} ELSE {"later", "now"} :
       Replace(t, [t EXCEPT !.pc = "record", !.way = way])
  /\ TakenUp(t)
  /\ UNCHANGED <<rows, messages, job, requests, left, optedOut, exits>>

Recorded(t, value) ==
  /\ msg' = [msg EXCEPT ![At(t)] = value]
  /\ UNCHANGED received

(* Fault: the campaign sends without a dedupe key.                         *)
RecordEvery(t) ==
  /\ t.pc = "record"
  /\ \/ /\ t.way = "refused"
        /\ Recorded(t, "suppressed")
        /\ Replace(t, [t EXCEPT !.pc = "note", !.out = "suppressed"])
     \/ /\ t.way = "later"
        /\ Recorded(t, "scheduled")
        /\ Replace(t, [t EXCEPT !.pc = "note", !.out = "sent"])
     \/ /\ t.way = "now"
        /\ Recorded(t, "sending")
        /\ Goto(t, "deliver")
  /\ UNCHANGED <<rows, job, requests, left, optedOut, ghosts, exits>>

(* Nothing is written for a duplicate.  Only the branch that sends now     *)
(* notices; the other two answer with the message id ''.                   *)
RecordDuplicate(t) ==
  /\ t.pc = "record" /\ msg[At(t)] # "none"
  /\ Replace(t, [t EXCEPT !.pc = "note",
       !.out = IF t.way = "refused" THEN "suppressed" ELSE "sent",
       !.id = IF t.way = "now" THEN "null" ELSE "blank"])
  /\ UNCHANGED <<rows, messages, job, requests, left, optedOut, ghosts, exits>>

RecordNew(t) ==
  /\ t.pc = "record" /\ msg[At(t)] = "none"
  /\ \/ /\ t.way = "refused"
        /\ Recorded(t, "suppressed")
        /\ Replace(t, [t EXCEPT !.pc = "note", !.out = "suppressed"])
     \/ /\ t.way = "later"
        /\ Recorded(t, "scheduled")
        /\ Replace(t, [t EXCEPT !.pc = "note", !.out = "sent"])
     \/ /\ t.way = "now"
        /\ Recorded(t, "sending")
        /\ Goto(t, "deliver")
  /\ UNCHANGED <<rows, job, requests, left, optedOut, ghosts, exits>>

(* deliver reads the gate again; the provider accepts or refuses.          *)
Delivered(r, out) ==
  /\ IF r \in optedOut THEN out = "suppressed" ELSE out \in {"sent", "failed"}
  /\ msg' = [msg EXCEPT ![r] = out]
  /\ received' = [received EXCEPT ![r] = IF out = "sent" THEN @ + 1 ELSE @]

DeliverNow(t) ==
  /\ t.pc = "deliver"
  /\ \E out \in Outcome :
       Delivered(At(t), out) /\ Replace(t, [t EXCEPT !.pc = "note", !.out = out])
  /\ UNCHANGED <<rows, job, requests, left, optedOut, ghosts, exits>>

(* The message's own job: it was scheduled, or refused for now.            *)
DeliverLater(r) ==
  /\ msg[r] \in {"scheduled", "failed"}
  /\ \E out \in Outcome : Delivered(r, out)
  /\ UNCHANGED <<rows, job, runs, requests, left, optedOut, ghosts, exits>>

(* Fault: a message put off is noted as queued.                            *)
NoteQueued(t) ==
  /\ t.pc = "note"
  /\ IF t.id = "blank"
       THEN Goto(t, "throw") /\ UNCHANGED rec
       ELSE WriteRow(t, IF t.way = "later" THEN "queued" ELSE t.out) /\ NextRow(t)
  /\ UNCHANGED <<status, frozen, messages, job, requests, left, optedOut, ghosts, exits>>

(* message_id is a uuid: '' cannot be stored and the statement throws.     *)
NoteOutcome(t) ==
  /\ t.pc = "note"
  /\ IF t.id = "blank"
       THEN Goto(t, "throw") /\ UNCHANGED rec
       ELSE WriteRow(t, t.out) /\ NextRow(t)
  /\ UNCHANGED <<status, frozen, messages, job, requests, left, optedOut, ghosts, exits>>

(* Fault: the next batch under the first one's key.                        *)
ChainUnderFirstKey(t) ==
  /\ t.pc = "chain"
  /\ Plant(FALSE)
  /\ Goto(t, "succeed")
  /\ UNCHANGED <<rows, messages, requests, left, optedOut, ghosts, exits>>

EnqueueNextBatch(t) ==
  /\ t.pc = "chain"
  /\ Plant(TRUE)
  /\ Goto(t, "succeed")
  /\ UNCHANGED <<rows, messages, requests, left, optedOut, ghosts, exits>>

Settle(t) ==
  LET dead == t.pc = "throw" /\ job[t.job].attempts >= MaxAttempts IN
  /\ t.pc \in {"succeed", "throw"}
  /\ job' = [job EXCEPT ![t.job] =
               IF t.pc = "succeed" \/ dead THEN Free ELSE [@ EXCEPT !.state = "pending"]]
  /\ lost' = IF dead THEN lost \cup {"dead"} ELSE lost
  /\ runs' = runs \ {t}
  /\ UNCHANGED <<rows, messages, requests, left, optedOut, inHand, afterPause, exits>>

Reclaim(j) ==
  /\ job[j].state = "running" /\ ~\E t \in runs : t.job = j
  /\ job' = [job EXCEPT ![j].state = "pending"]
  /\ UNCHANGED <<rows, messages, runs, requests, left, optedOut, ghosts, exits>>

Exit ==
  /\ exits < MaxExits
  /\ exits' = exits + 1
  /\ runs' = {} /\ requests' = {}
  /\ lost' = IF \E q \in requests : q.pc = "enqueue" THEN lost \cup {"never planted"} ELSE lost
  /\ UNCHANGED <<rows, messages, job, left, optedOut, inHand, afterPause>>

-----------------------------------------------------------------------------
(* The client.                                                             *)

Unsubscribe(r) ==
  /\ r \in OptingOut \ optedOut
  /\ optedOut' = optedOut \cup {r}
  /\ UNCHANGED <<rows, messages, job, runs, requests, left, ghosts, exits>>

-----------------------------------------------------------------------------
RequestStep(q) ==
  \/ BuildAudience(q) \/ FreezeAudience(q) \/ CountPending(q)
  \/ MarkSending(q) \/ EnqueueFirstBatch(q) \/ Pause(q)

RunStep(t) ==
  \/ ReadCampaign(t) \/ FetchBatch(t) \/ Complete(t) \/ SkipUnmergeable(t)
  \/ ReadGate(t) \/ RecordDuplicate(t) \/ RecordNew(t) \/ DeliverNow(t)
  \/ NoteOutcome(t) \/ EnqueueNextBatch(t) \/ Settle(t)

Next ==
  \/ \E k \in Kinds : Ask(k)
  \/ \E q \in requests : RequestStep(q)
  \/ \E j \in Jobs : Claim(j) \/ Reclaim(j)
  \/ \E t \in runs : RunStep(t)
  \/ \E r \in Recipients : DeliverLater(r) \/ Unsubscribe(r)
  \/ Exit

Spec == Init /\ [][Next]_vars

(* Handlers and requests run to their end; the queue claims and reclaims   *)
(* (JobQueue: StrandedReturns, EveryJobSettles).                           *)
Fairness ==
  /\ WF_vars(\E q \in requests : RequestStep(q))
  /\ \A j \in Jobs :
       /\ WF_vars(Claim(j)) /\ WF_vars(Reclaim(j))
       /\ WF_vars(\E t \in runs : t.job = j /\ RunStep(t))

FairSpec == Spec /\ Fairness

-----------------------------------------------------------------------------
(* Properties.                                                             *)

TypeOK ==
  /\ status \in {"draft", "sending", "paused", "completed"}
  /\ frozen \in Nat
  /\ rec \in [Recipients -> {"none", "pending", "sent", "suppressed", "failed"}]
  /\ msg \in [Recipients -> {"none", "scheduled", "sending", "sent", "failed", "suppressed"}]
  /\ received \in [Recipients -> Nat]
  /\ job \in [Jobs -> [state : {"free", "pending", "running"}, own : BOOLEAN, attempts : Nat]]
  /\ runs \subseteq Run /\ requests \subseteq Request
  /\ left \in [Kinds -> Nat]
  /\ optedOut \subseteq OptingOut
  /\ inHand \subseteq Jobs /\ afterPause \in [Jobs -> Nat] /\ exits \in Nat
  /\ lost \subseteq Cause

(* Each client gets the campaign at most once, with two chains walking the *)
(* same rows and a batch begun again after an exit.  (A provider whose     *)
(* answer is lost is Messaging's subject, not a campaign's.)               *)
OncePerRecipient == \A r \in Recipients : received[r] <= 1

(* A row that says a client was held back is never one of a client who got *)
(* the message: not even when the second of two chains finds, after an     *)
(* unsubscribe, what the first had sent.                                   *)
HeldBackMeansNotSent == \A r \in Recipients : rec[r] = "suppressed" => received[r] = 0

(* "Completed" is never said over rows nobody has walked.                  *)
CompletedMeansWalked == status = "completed" => Pending = {}

(* A pause lets each handler that is at a batch finish that one and no     *)
(* more; no other takes a row up, neither one that has not looked yet nor  *)
(* one that begins later.                                                  *)
PauseStopsTheNextBatch ==
  status = "paused" =>
    \A j \in Jobs : afterPause[j] <= IF j \in inHand THEN Batch ELSE 0

(* A campaign that says it is sending has a job that will take its next    *)
(* batch, or a request about to plant one, through every pause, resume,    *)
(* second send and exit, but for the three ways in which it comes to       *)
(* nothing: a second send is planted under the first one's key while that  *)
(* one's job, which has read that it was paused, is settling               *)
(* (routes/campaigns.ts:506); the process ends between the status and the  *)
(* enqueue (:499); a job dies of its attempts.                             *)
SendingIsDriven ==
  status = "sending" /\ lost = {} =>
    \/ \E j \in Jobs : job[j].state \in {"pending", "running"}
    \/ \E q \in requests : q.pc = "enqueue"

(* What a row, the campaign's status and a pause say is what was done, and *)
(* a campaign that says it is sending is.                                  *)
RecordsAreTrue ==
  HeldBackMeansNotSent /\ CompletedMeansWalked /\ PauseStopsTheNextBatch /\ SendingIsDriven

(* A send comes to its end or is paused, exits and all, but for the same   *)
(* three ways.                                                             *)
SendFinishes == status = "sending" ~> status # "sending" \/ lost # {}

-----------------------------------------------------------------------------
(* What the comments say and the code does not do.                         *)

(* campaign.ts:193 "Re-queued rather than looped so a deploy in the middle *)
(* of a large send loses nothing."                                         *)
DeployLosesNothing ==
  \A r \in Recipients :
    rec[r] = "sent" /\ msg[r] = "sending" =>
      \E t \in runs : t.pc = "deliver" /\ At(t) = r

(* routes/campaigns.ts:508 gives a send the first one's key.  A send of a   *)
(* paused campaign is dropped for the job that has noticed the pause: it   *)
(* says sending, nobody is, and only a pause and a resume help.            *)
SendPlantsABatch == [][\A q \in requests : ~(q \notin requests' /\ DroppedForNothing(q)
                          /\ q.pc = "enqueue" /\ exits' = exits)]_vars

(* campaign.ts:10 "somebody who unsubscribed in between must not receive   *)
(* this, and the recipient row records that they did not and why."         *)
RowSaysHeldBack ==
  \A r \in Recipients : msg[r] = "suppressed" => rec[r] # "sent"

(* 0009_campaigns.sql:50 "Sends are paced."                                *)
OneChainAtATime ==
  Cardinality({j \in Jobs : job[j].state \in {"pending", "running"}
                 /\ ~\E t \in runs : t.job = j /\ t.pc = "succeed"}) <= 1

(* campaigns.ts:419 (routes) "The audience is already fixed for this       *)
(* campaign."                                                              *)
AudienceIsFixed == [][frozen' # frozen => status = "draft"]_vars
=============================================================================
