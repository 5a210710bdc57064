----------------------------- MODULE Messaging -----------------------------
(***************************************************************************)
(* Outbound messages (src/services/messaging.ts: send, recordMessage,      *)
(* deliver) with the `message.send` job that delivers scheduled and        *)
(* retried ones (src/jobs/handlers/index.ts).                              *)
(*                                                                         *)
(* One client, texted and emailed by several calls of `send`.  Each        *)
(* database statement and each provider call is a step; between two steps  *)
(* the client may text STOP or START, and the process may die.  The job of *)
(* a message is one row of the queue, kept by JobContract.  Of the gate    *)
(* only its answer counts here: it is open until STOP.                     *)
(***************************************************************************)
EXTENDS Naturals, FiniteSets

CONSTANTS
  Requests,        \* calls of `send`; a request names the row it records
  Sms,             \* those that are texts, the others are emails
  Transactional,   \* those whose purpose is transactional
  DedupeKey,       \* DedupeKey[r]: the caller's dedupeKey
  MaxAttempts,     \* max_attempts of the job
  LostAnswers,     \* may a provider accept a message and the answer be lost?
  DbErrors,        \* may a statement of `deliver` throw?
  MaxKeywords,     \* bound: STOP and START texts
  MaxExits         \* bound: exits of the process

ASSUME MessagingAssumption ==
  /\ Sms \subseteq Requests /\ Transactional \subseteq Requests
  /\ MaxAttempts \in Nat \ {0}
  /\ LostAnswers \in BOOLEAN /\ DbErrors \in BOOLEAN
  /\ MaxKeywords \in Nat /\ MaxExits \in Nat

VARIABLES
  msg,        \* msg[r]: messages.status of the row r recorded, or "none"
  asked,      \* requests `send` has been called for
  job,        \* job[r]: state of the row with dedupe_key message.send:<r>
  attempts,   \* attempts[r]: of that row
  blankJob,   \* has a job been planted whose payload names no message?
  work,       \* what the process holds in memory
  stopped,    \* is the client's stop_keyword suppression live?
  keywords,   \* how many STOPs and STARTs have been applied
  received,   \* received[r]: times the provider accepted the message
  refused,    \* refused[r]: times the provider refused it for good
  losses,     \* losses[r]: acceptances whose record was lost on the way
  exits       \* exits of the process so far

vars == <<msg, asked, job, attempts, blankJob, work, stopped, keywords, received,
          refused, losses, exits>>

Live == {"pending", "running"}

(* What a computation will do next.  `by` is who called: a request's own   *)
(* `send`, or the handler of the message's job.  `seen`, while it is at    *)
(* the provider, is the number of keywords applied when it read the gate.  *)
Task == [req : Requests, by : {"send", "job"}, seen : Nat,
         pc : {"refuse", "schedule", "record", "enqueue", "enqueueBlank",
               "read", "check", "suppress", "call", "failed", "failedForGood",
               "requeue", "sent", "succeed", "fail"}]

Init ==
  /\ msg = [r \in Requests |-> "none"]
  /\ asked = {}
  /\ job = [r \in Requests |-> "absent"]
  /\ attempts = [r \in Requests |-> 0]
  /\ blankJob = FALSE
  /\ work = {}
  /\ stopped = FALSE
  /\ keywords = 0
  /\ received = [r \in Requests |-> 0]
  /\ refused = [r \in Requests |-> 0]
  /\ losses = [r \in Requests |-> 0]
  /\ exits = 0

-----------------------------------------------------------------------------
(* The gate: a marketing suppression of the text channel blocks every text *)
(* that is not transactional, and nothing else.                            *)
Gate(r) == r \in Transactional \/ r \notin Sms \/ ~stopped

Goto(t, pc) == work' = (work \ {t}) \cup {[t EXCEPT !.pc = pc, !.seen = 0]}
Done(t) == work' = work \ {t}

(* The handler throws only when the outcome's status is 'failed'.          *)
Outcome(t, ok) == IF t.by = "send" THEN Done(t)
                  ELSE Goto(t, IF ok THEN "succeed" ELSE "fail")

table == <<msg, job, attempts, blankJob>>
client == <<stopped, keywords, received, refused, losses>>

(* `send` reads the settings and the gate; quiet hours or the caller may   *)
(* put the message off.                                                    *)
Send(r) ==
  /\ r \notin asked
  /\ asked' = asked \cup {r}
  /\ \E pc \in IF Gate(r) THEN {"schedule", "record"} ELSE {"refuse"} :
       work' = work \cup {[req |-> r, by |-> "send", seen |-> 0, pc |-> pc]}
  /\ UNCHANGED <<table, client, exits>>

(* Fault: only what has already gone out counts.                           *)
TakenBySent(r) == \E s \in Requests : msg[s] = "sent" /\ DedupeKey[s] = DedupeKey[r]

(* INSERT ... ON CONFLICT (organization_id, dedupe_key) DO NOTHING.        *)
Taken(r) == \E s \in Requests : msg[s] # "none" /\ DedupeKey[s] = DedupeKey[r]

RecordSuppressed(t) ==
  /\ t.pc = "refuse"
  /\ msg' = IF Taken(t.req) THEN msg ELSE [msg EXCEPT ![t.req] = "suppressed"]
  /\ Done(t)
  /\ UNCHANGED <<asked, job, attempts, blankJob, client, exits>>

(* Fault: the job is left to somebody else.                                *)
RecordScheduledOnly(t) ==
  /\ t.pc = "schedule"
  /\ msg' = IF Taken(t.req) THEN msg ELSE [msg EXCEPT ![t.req] = "scheduled"]
  /\ Done(t)
  /\ UNCHANGED <<asked, job, attempts, blankJob, client, exits>>

(* The scheduled branch does not look whether a row was written: for a     *)
(* duplicate it enqueues a job for the message ''.                         *)
RecordScheduled(t) ==
  /\ t.pc = "schedule"
  /\ IF Taken(t.req)
       THEN UNCHANGED msg /\ Goto(t, "enqueueBlank")
       ELSE msg' = [msg EXCEPT ![t.req] = "scheduled"] /\ Goto(t, "enqueue")
  /\ UNCHANGED <<asked, job, attempts, blankJob, client, exits>>

EnqueueScheduled(t) ==
  /\ \/ /\ t.pc = "enqueue"
        /\ job' = [job EXCEPT ![t.req] = IF @ \in Live THEN @ ELSE "pending"]
        /\ UNCHANGED blankJob
     \/ /\ t.pc = "enqueueBlank"
        /\ blankJob' = TRUE
        /\ UNCHANGED job
  /\ Done(t)
  /\ UNCHANGED <<msg, asked, attempts, client, exits>>

RecordSending(t) ==
  /\ t.pc = "record"
  /\ IF Taken(t.req)
       THEN UNCHANGED msg /\ Done(t)
       ELSE msg' = [msg EXCEPT ![t.req] = "sending"] /\ Goto(t, "read")
  /\ UNCHANGED <<asked, job, attempts, blankJob, client, exits>>

-----------------------------------------------------------------------------
(* deliver.                                                                *)

(* Fault: a message already sent is delivered again.                       *)
ReadUnchecked(t) ==
  /\ t.pc = "read"
  /\ Goto(t, "check")
  /\ UNCHANGED <<asked, table, client, exits>>

ReadMessage(t) ==
  /\ t.pc = "read"
  /\ IF msg[t.req] = "sent" THEN Outcome(t, TRUE) ELSE Goto(t, "check")
  /\ UNCHANGED <<asked, table, client, exits>>

(* Fault: what was allowed when it was scheduled still is.                 *)
CheckNothing(t) ==
  /\ t.pc = "check"
  /\ work' = (work \ {t}) \cup {[t EXCEPT !.pc = "call", !.seen = keywords]}
  /\ UNCHANGED <<asked, table, client, exits>>

CheckGate(t) ==
  /\ t.pc = "check"
  /\ work' = (work \ {t}) \cup
       {[t EXCEPT !.pc = IF Gate(t.req) THEN "call" ELSE "suppress", !.seen = keywords]}
  /\ UNCHANGED <<asked, table, client, exits>>

(* Fault: the refusal is not written down.                                 *)
SuppressSilently(t) ==
  /\ t.pc = "suppress"
  /\ Outcome(t, TRUE)
  /\ UNCHANGED <<asked, table, client, exits>>

SuppressNow(t) ==
  /\ t.pc = "suppress"
  /\ msg' = [msg EXCEPT ![t.req] = "suppressed"]
  /\ Outcome(t, TRUE)
  /\ UNCHANGED <<asked, job, attempts, blankJob, client, exits>>

(* The provider.  Its answer may be lost (a timeout): the message is out   *)
(* and the caller is told of a retryable failure.                          *)
Accepts(t) ==
  /\ t.pc = "call"
  /\ received' = [received EXCEPT ![t.req] = @ + 1]
  /\ \/ Goto(t, "sent") /\ UNCHANGED losses
     \/ /\ LostAnswers
        /\ Goto(t, "failed")
        /\ losses' = [losses EXCEPT ![t.req] = @ + 1]
  /\ UNCHANGED <<asked, table, stopped, keywords, refused, exits>>

Refuses(t) ==
  /\ t.pc = "call"
  /\ \/ Goto(t, "failed") /\ UNCHANGED refused
     \/ /\ Goto(t, "failedForGood")
        /\ refused' = [refused EXCEPT ![t.req] = @ + 1]
  /\ UNCHANGED <<asked, table, stopped, keywords, received, losses, exits>>

RecordFailed(t) ==
  /\ t.pc \in {"failed", "failedForGood"}
  /\ msg' = [msg EXCEPT ![t.req] = "failed"]
  /\ IF t.pc = "failed" THEN Goto(t, "requeue") ELSE Outcome(t, FALSE)
  /\ UNCHANGED <<asked, job, attempts, blankJob, client, exits>>

(* Fault: the retry is planted over the job that is running.               *)
RequeueOverRunning(t) ==
  /\ t.pc = "requeue"
  /\ job' = [job EXCEPT ![t.req] = "pending"]
  /\ Outcome(t, FALSE)
  /\ UNCHANGED <<msg, asked, attempts, blankJob, client, exits>>

(* Deduplicated when it is the message's own job that is running.          *)
Requeue(t) ==
  /\ t.pc = "requeue"
  /\ job' = [job EXCEPT ![t.req] = IF @ \in Live THEN @ ELSE "pending"]
  /\ Outcome(t, FALSE)
  /\ UNCHANGED <<msg, asked, attempts, blankJob, client, exits>>

RecordSent(t) ==
  /\ t.pc = "sent"
  /\ msg' = [msg EXCEPT ![t.req] = "sent"]
  /\ Outcome(t, TRUE)
  /\ UNCHANGED <<asked, job, attempts, blankJob, client, exits>>

(* Acceptances nobody will have recorded once these tasks are gone.        *)
Forgotten(T) == [r \in Requests |->
  IF \E t \in T : t.req = r /\ t.pc = "sent" THEN losses[r] + 1 ELSE losses[r]]

StatementThrows(t) ==
  /\ DbErrors
  /\ t.pc \notin {"call", "succeed", "fail"}
  /\ Outcome(t, FALSE)
  /\ losses' = Forgotten({t})
  /\ UNCHANGED <<asked, table, stopped, keywords, received, refused, exits>>

-----------------------------------------------------------------------------
(* The job, as the queue runs it.                                          *)

ClaimJob(r) ==
  /\ job[r] = "pending"
  /\ attempts[r] < MaxAttempts + MaxExits
  /\ job' = [job EXCEPT ![r] = "running"]
  /\ attempts' = [attempts EXCEPT ![r] = @ + 1]
  /\ work' = work \cup {[req |-> r, by |-> "job", seen |-> 0, pc |-> "read"]}
  /\ UNCHANGED <<msg, asked, blankJob, client, exits>>

JobSucceeds(t) ==
  /\ t.pc = "succeed"
  /\ job' = [job EXCEPT ![t.req] = "succeeded"]
  /\ Done(t)
  /\ UNCHANGED <<msg, asked, attempts, blankJob, client, exits>>

JobFails(t) ==
  /\ t.pc = "fail"
  /\ job' = [job EXCEPT ![t.req] =
               IF attempts[t.req] >= MaxAttempts THEN "dead" ELSE "pending"]
  /\ Done(t)
  /\ UNCHANGED <<msg, asked, attempts, blankJob, client, exits>>

Reclaim(r) ==
  /\ job[r] = "running"
  /\ ~\E t \in work : t.req = r /\ t.by = "job"
  /\ job' = [job EXCEPT ![r] = "pending"]
  /\ UNCHANGED <<msg, asked, attempts, blankJob, work, client, exits>>

Crash ==
  /\ exits < MaxExits
  /\ exits' = exits + 1
  /\ work' = {}
  /\ losses' = Forgotten(work)
  /\ UNCHANGED <<asked, table, stopped, keywords, received, refused>>

-----------------------------------------------------------------------------
(* The client's STOP and START (applyKeyword), each one transaction.       *)

(* Fault: a status of its own for what STOP cancelled.                     *)
TextsStopCancelling ==
  /\ keywords < MaxKeywords
  /\ stopped' = TRUE
  /\ keywords' = keywords + 1
  /\ msg' = [r \in Requests |->
       IF msg[r] = "scheduled" /\ r \notin Transactional THEN "cancelled" ELSE msg[r]]
  /\ UNCHANGED <<asked, job, attempts, blankJob, work, received, refused, losses, exits>>

TextsStop ==
  /\ keywords < MaxKeywords
  /\ stopped' = TRUE
  /\ keywords' = keywords + 1
  /\ msg' = [r \in Requests |->
       IF msg[r] = "scheduled" /\ r \notin Transactional THEN "suppressed" ELSE msg[r]]
  /\ UNCHANGED <<asked, job, attempts, blankJob, work, received, refused, losses, exits>>

TextsStart ==
  /\ keywords < MaxKeywords
  /\ stopped' = FALSE
  /\ keywords' = keywords + 1
  /\ UNCHANGED <<asked, table, work, received, refused, losses, exits>>

-----------------------------------------------------------------------------
TaskStep(t) ==
  \/ RecordSuppressed(t) \/ RecordScheduled(t) \/ EnqueueScheduled(t)
  \/ RecordSending(t) \/ ReadMessage(t) \/ CheckGate(t) \/ SuppressNow(t)
  \/ Accepts(t) \/ Refuses(t) \/ RecordFailed(t) \/ Requeue(t) \/ RecordSent(t)
  \/ StatementThrows(t) \/ JobSucceeds(t) \/ JobFails(t)

Next ==
  \/ \E r \in Requests : Send(r) \/ ClaimJob(r) \/ Reclaim(r)
  \/ \E t \in work : TaskStep(t)
  \/ TextsStop \/ TextsStart \/ Crash

Spec == Init /\ [][Next]_vars

(* A handler and a request run to their end; the queue claims and reclaims *)
(* (JobQueue: StrandedReturns, EveryJobSettles).                           *)
Fairness ==
  /\ \A r \in Requests :
       /\ WF_vars(ClaimJob(r)) /\ WF_vars(Reclaim(r))
       /\ \A by \in {"send", "job"} :
            WF_vars(\E t \in work : t.req = r /\ t.by = by /\ TaskStep(t))

FairSpec == Spec /\ Fairness

-----------------------------------------------------------------------------
(* Properties.                                                             *)

TypeOK ==
  /\ msg \in [Requests -> {"none", "scheduled", "sending", "sent", "failed", "suppressed"}]
  /\ asked \subseteq Requests
  /\ job \in [Requests -> {"absent", "pending", "running", "succeeded", "dead"}]
  /\ attempts \in [Requests -> Nat]
  /\ blankJob \in BOOLEAN
  /\ work \subseteq Task
  /\ stopped \in BOOLEAN /\ keywords \in Nat
  /\ received \in [Requests -> Nat] /\ refused \in [Requests -> Nat]
  /\ losses \in [Requests -> Nat] /\ exits \in Nat

(* Calls of `send` with one dedupe key reach the client as one message,    *)
(* whichever of them were scheduled, retried or interrupted.               *)
OneMessagePerKey ==
  \A r, s \in Requests :
    received[r] > 0 /\ received[s] > 0 /\ DedupeKey[r] = DedupeKey[s] => r = s

(* A client gets a message twice only for an acceptance whose record was   *)
(* lost: never because a job that had recorded it ran again.               *)
DuplicatesOnlyForLosses == \A r \in Requests : received[r] <= 1 + losses[r]

(* Both: what several calls of `send` have in common, and what one keeps.  *)
MessagesAreUnique == OneMessagePerKey /\ DuplicatesOnlyForLosses

(* After STOP no text the gate covers goes out, save one whose delivery    *)
(* had read the gate before that STOP.                                     *)
NoTextAfterStop ==
  \A t \in work :
    received'[t.req] > received[t.req] /\ t.pc = "call" /\ t \notin work'
      /\ ~Gate(t.req) => t.seen < keywords
OptOutHolds == [][NoTextAfterStop]_vars

(* A retryable failure or a schedule is never forgotten while the process  *)
(* lives: the row has a job waiting, running, or visibly dead, or somebody *)
(* is about to enqueue it.                                                 *)
NothingLeftBehind ==
  \A r \in Requests :
    msg[r] \in {"scheduled", "sending"} /\ exits = 0 =>
      \/ job[r] \in {"pending", "running", "dead"}
      \/ \E t \in work : t.req = r

(* The work Messaging leaves to the queue keeps the queue's contract: its  *)
(* job is planted once, and only ever claimed, returned, settled.          *)
Queue == INSTANCE JobContract WITH Jobs <- Requests, states <- job
UsesQueueByContract == Queue!Spec

(* A message that was recorded to go out reaches an outcome.               *)
EveryMessageSettles ==
  \A r \in Requests :
    msg[r] \in {"scheduled", "sending"} ~> msg[r] \in {"sent", "suppressed", "failed"}

-----------------------------------------------------------------------------
(* What the comments say and the code does not do.                         *)

(* messaging.ts:510 "Anything mid-flight that would have texted them is    *)
(* stopped now rather than at its next scheduled step."  Judged only for a *)
(* delivery that read the gate after the last STOP or START.               *)
CancelledStaysCancelled ==
  [][\A t \in work :
       msg[t.req] = "suppressed" /\ t.pc = "call" /\ t.seen = keywords =>
         received'[t.req] = received[t.req]]_vars

(* messaging.ts:314 "Only retryable failures go back on the queue."        *)
RefusedForGoodOnce == \A r \in Requests : refused[r] <= 1

(* queue.ts:17 "Handlers must therefore be safe to run twice; the ones     *)
(* that send something use a dedupe key on the message itself."            *)
TextedOnce == \A r \in Sms : received[r] <= 1

(* messaging.ts:51 "Idempotency across retries and duplicate webhooks."    *)
(* messaging.ts:194 "Somebody already sent this."                          *)
NoJobForNoMessage == ~blankJob
=============================================================================
