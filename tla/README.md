# Formal models of the Lendmax CRM

TLA+ modules for the parts of this repository where correctness depends on the
order of things: the Postgres job queue and its worker, messages out and in with
the send gate, the automation engine and the events that feed it, campaigns,
pipelines and the files that stand on them, meetings and their copies in Google
Calendar, the form behind the portal's, staff accounts and the leads they hold,
tasks, chats, compliance cases, fundings, documents and the audit chain.
Each module is written from the source under `src/`; `PROJECT.json` names, for
every definition, the lines it stands for. TLC checks small instances; TLAPS proves the
main safety properties of every module for all instances (section 6).

To repeat a run: `tlc -config Campaign.cfg MCCampaign.tla` (the module and the
configuration of each are named in `PROJECT.json`); to repeat the proofs:
`tlapm StaffProofs.tla`, and so for every module whose name ends in Proofs.

## 1. The system

One Node process (or several) serves an HTTP API, runs a worker loop and keeps
everything in Postgres. There is no other broker: what must happen later is a
row of `jobs`, what happened is a row of `domain_events`, and what must
happen once is a unique index. Requests often read and check before the
transaction that writes, or have none; what another request does in between is
the subject of most of the models.

| component | state it keeps | operations | hard behaviour |
| --- | --- | --- | --- |
| job queue, worker (`jobs/queue.ts`, `jobs/worker.ts`) | `jobs` rows; `inFlight`, `stopping`, handlers in memory | enqueue, claim, succeed, fail, reclaim, prune, cancel; start, tick, stop | several workers; death between claim and settle; handlers slower than the reclaim; a unique index in the way of an UPDATE |
| job handlers (`jobs/handlers`) | - | `message.send`, `automation.step`, `automation.tick`, `tasks.tick`, `appointments.tick`, `campaign.send`, `google.push`, `google.sync` | "safe to run twice"; ticks that plant themselves |
| outbound messages (`services/messaging.ts`) | `messages`, `communication_threads` | send, recordMessage, deliver | the provider's answer may be lost; the gate is read before the provider is called |
| send gate (`domain/consent.ts`) | `consents`, `suppressions` | evaluateSend | newest consent wins; suppressions by record and by address; merged records |
| inbound texts (`routes/internal.ts`, `receiveInbound`, `applyKeyword`) | `webhook_events`, `messages`, `unmatched_messages` | callback, match, hold, attach, keyword | callbacks twice, late, out of order; a second transaction after the one that marks a duplicate |
| automation engine (`services/automation-engine.ts`) | `automation_enrollments`, `automation_executions` | runStep, sweep; pause, resume, skip, end, run | two jobs for one enrollment; a claim that ages; retries of effects |
| automation events (`services/events.ts`, `emitTimeEvents`, `processEvents`, `enrol`) | `domain_events`, `automations` | raise, consume, enrol; publish, pause, archive | a tick that dies anywhere; re-entry; hands beside the tick |
| campaigns, segments (`routes/campaigns.ts`, handler) | `campaigns`, `campaign_recipients` | freeze, send a batch, pause, resume | batches chained by jobs; two chains at once |
| unsubscribe, tracking, public pages (`routes/public.ts`) | `suppressions`, `consents` | one-click and page unsubscribe | pressed twice |
| stage machine (`services/stage-moves.ts`, `domain/pipeline.ts`) | `applications.stage_key` and marks | moveFileToStage | stages read before the move |
| pipelines admin (`services/pipelines.ts`) | `pipelines`, `pipeline_stages` | create, copy, rename, reorder, switch off, delete | two administrators; files stand on the stage meanwhile |
| customers (`services/customers.ts`) | `customers` | create, update, merge, archive | two merges at once; what follows the merged record |
| leads, assignment (`services/leads.ts`, `assignment.ts`) | holders of files, rotation stamps | assign, claim by rotation, hand over | two leads at once; a holder who is being deactivated |
| staff, auth (`services/staff.ts`, `auth.ts`) | users, invitations, sessions | invite, activate, sign in, change password, deactivate, delete | a session that outlives its account; the last admin |
| appointments, Google Calendar (`services/appointments.ts`, `google-calendar.ts`) | `appointments`, event ids, `next_appointment_at` | book, move, cancel, outcome, push, sync, remind | two-way sync with no transaction; a file moved by an outcome |
| tasks (`services/tasks.ts`) | `tasks`, `next_task_at` | create, edit, finish, reopen, remind | edits read before they write; two reminder runs |
| chats, realtime (`services/chats.ts`, `realtime.ts`) | `chat_*`; open streams | post, edit, read, join, leave; badge | times and commits in different orders |
| applications, form corrections (`services/applications.ts`, `application-form.ts`) | `application_field_edits`, computed columns | open, save, revert | a re-import must keep what staff corrected |
| portal import, internal API (`services/portal-import.ts`) | `applications.portal_data` | mirror | pushes lost, repeated, reordered |
| documents, requests | `documents`, `document_requests` | upload, review, cancel, expire | uploads judged by a snapshot |
| compliance, risk (`services/compliance.ts`, `domain/risk.ts`) | case, items, FINTRAC row, assessments | open, tick, rate, decide | evidence read by one statement and approved by another |
| funding, commission, renewals (`routes/funding.ts`, `domain/money.ts`) | funding, commissions with splits, renewals with milestones | record, confirm, split, pay, renew | sums to the cent; checks before the write |
| audit, activity (`services/audit.ts`) | `audit_log` (hash chain) | append, verify | concurrent appends |
| API keys and API v1; integrations, Scarlett; settings, reports, dashboard; signatures, merge fields; dates and quiet hours | single rows or none | reads and plain writes | - |
| server, database, configuration | process | start, shutdown, crash | the grace period |
| web client, scripts, deployment | browser state | presentation | the badge of a tab (`chat-live.ts`) |

What makes each component correct is what the modules state (sections 3 and 4);
`PROJECT.json` "hazards" lists, line by line, where the code could go wrong and
which property watches it. Hazards of lesser weight that the models show too, and
the list does not have: a job that kills its process is reclaimed without a look
at its attempts (`queue.ts:162`); ticks are planted once per start; the job of a
message suppressed meanwhile stays (`messaging.ts:271`); a scheduled message
has no job if the process dies before it plants one (`messaging.ts:181`);
callbacks are delivered twice; pause and resume write over a status read before.

## 2. The plan

Modelled, in order of what a mistake costs the firm: JobQueue with the abstract
JobContract, Messaging, Consent with Inbound, Enrollment, Events, Campaign,
Pipelines, Appointments, Corrections, Staff, Tasks, Chats with Badge, Compliance,
Funding, Documents, AuditChain.

Proved (section 6): the safety properties the passing runs check, each for every value
of the constants, some under a named hypothesis.

Designed and not built: **Workflows** (versions, the editor and the validator of a
workflow, `routes/automations.ts` 345-430, `findInstantCycle`), **Checklist** (the
required documents a request is made from), **Integrations** (the push to Scarlett),
**ApiKeys**, **Customers** beyond the merge, the SQL of the segment language.

## 3. The modules

A module has the tables and what the process holds in memory as VARIABLES, one
action for a statement or a transaction, and `await` is where actions of others
come in. Times are facts ("is due", "is past the limit") or a few units of a clock;
texts, formats and identifiers are small sets. Ghost variables, marked so in each
module, remember what a property has to know and the code does not store; nothing
reads them but properties and other ghosts.

### JobContract
What a client of the queue may count on, row by row: a row is planted, claimed,
comes back to `pending` only from `running`, rests in `succeeded`, `dead` or
`cancelled`, and leaves the table only after it succeeded. A step may change
several rows, since claim, reclaim and prune are single statements over many.

### JobQueue (`jobs/queue.ts`, `jobs/worker.ts`, `primeRecurringJobs`)
`rows` is the table; `runs` what the workers hold in memory (gone when they
exit); `phase` and `toPrime` the process. A claim's answer ("claimed") is seen
by the tick in a later step (`Dispatch`), the handler, `succeed`, the re-enqueue of
recurring work and `fail` follow one another in `run`. Clock time is two facts of a
row: `run_after` has passed (`due`), `locked_at` is past the reclaim limit (`stale`).
Retry delays, priorities and payloads are left out; the claim takes any set of due
rows, which covers priority order and SKIP LOCKED. Identities of rows are used
again only when nothing names them, as BIGSERIAL never repeats. The table, what is in
memory of it and what is true of both whoever writes is the module JobTable.

### Messaging (`send`, `recordMessage`, `deliver`, handler `message.send`)
One client and several calls of `send`. `msg` is `messages.status`, `job` the row
`message.send:<id>` of the queue, `work` the computations in memory with their
place in the code. The provider accepts, refuses for now, refuses for good, or
accepts and its answer is lost. STOP and START fall between any two steps.
`blankJob` records that a job was planted for the message `''`. The answer of the
gate is `Gate`.

### Consent (`domain/consent.ts`, `gateFor`) and Inbound (`/voipms/inbound`, `receiveInbound`, `applyKeyword`, `mergeCustomers`)
Consent has the tables the gate looks at - records with their numbers and merges,
consents, suppressions - and what it makes of them for a marketing text
(`MayText`). Inbound extends it with what changes them: texts of one number,
callbacks delivered any number of times (bounded) and at the same time, each
transaction a step; staff change numbers and merge records in two steps, what they
read and what they write. `Says` and `Callback` are the client's phone and the
provider, external to the code.

### Enrollment (`runStep`, `sweepDueEnrollments`, `POST /enrollments/:id/:action`)
One client in one workflow, a line of nodes that wait, send (deduplicated) or do
something that is done again when run again (create a task, add a note). The row
(`status`, `node`, `steps`, `due`, `claim`), the live `automation.step` jobs by dedupe
key, and the computations in memory. `StopEnrollment`, `Complete`, `Advance` and
`Release` write unconditionally, as the UPDATEs do. Branches, gotos and the other
kinds of node differ in their effects, which no property here reads; a node that
adds to another workflow or removes from it is left out.

### Events (`emitTimeEvents`, `processEvents`, `enrol`; publish, pause, archive, enrol by hand)
The other end of a workflow. `events` is `domain_events`, `enrolled` the
enrolments with whether they have a job, `quiet` a file's present spell without
activity, `tick` the one run of `automation.tick` with what it has loaded and is
at, in the order of identities (`Ascending`), as its queries have it. Every statement of
the tick is a step; it may throw or die after each.

### Campaign (`routes/campaigns.ts`, `freezeAudience`, handler `campaign.send`)
One campaign. `status` and `rec` are its rows, `frozen` tells a recipient's row from
the one a new audience put in its place, `msg` the message under the key
`campaign:<id>:<customer>`, `job` the unsettled `campaign.send` rows, `runs` and
`requests` what handlers and routes hold in memory (gone at an exit). A button is
two or three steps: what it reads and refuses on (`Ask`, `CountPending`), what it
writes (`MarkSending`, `Pause`, `FreezeAudience`) and what it plants. The handler is
one step per statement, and `send` three: gate and hour, record, provider. A
duplicate answers as `send` answers: "sent" with no message id from the branch that
sends now, the id `''` from the two others, which the recipient's uuid column
refuses (`NoteOutcome` throws). The text, its editor (`PUT`) and the numbers shown
are left out; `inHand` and `afterPause` say, while it is paused, which handlers were at a
batch and what they took up since.

### Pipelines (`services/pipelines.ts`, `services/stage-moves.ts`, `domain/pipeline.ts`)
`pipe` and `stage` are the tables, `claim` the row of `pipeline_purposes`, `file` the
columns of an application a move reads or writes. An administrator's transaction is
opened (locks taken, decision made) and closed (written); `work` holds what is
locked in between. A move and an import look at the stages without a lock, so what
they saw is in `moves`. `ConfirmFunding` sets the stage without the stage machine.

### Appointments (`services/appointments.ts`, `google-calendar.ts`, three jobs)
`appt` are the rows, `events` what is in Google's calendars (external), `jobs` the
live `google.push` rows and `tries` their attempts, `next` and `place` the file's columns,
`work` the requests, pushes and syncs with what each has read. Reading, committing,
moving the file, calling Google and noting its answer are steps of their own. A push
that fails leaves an error on the row and, if none is there, a job; the job's run
throws when it fails, and after `PushAttempts` (6 in the code) it is dead. Then the
calendar stays wrong, with the error on the row and nothing to try again but a change of
the meeting or a retry by hand (`AskRetry`, which plants no job): `CalendarsAgree` says no more than that
a wrong calendar is never wrong in silence. Ghosts: `old` and `stale` (an older row was
written or pushed over a newer), `cut` (the process or the connection ended in between),
`spent` (the job's attempts ran out, or a try by hand was in vain).

### Corrections (`services/portal-import.ts`, `applications.ts`, `application-form.ts`)
One application and one section of its form. `row` is the payload imported last,
`edits` the corrections, `columns` what is computed from both, `form` what staff
have open with what it showed when they opened it. Pushes are lost, repeated and
overtaken. An import and a save hold the row from first write to commit and are
one step; a revert has no transaction and is four.

### Staff (`services/staff.ts`, `auth.ts`, `assignment.ts`, `leads.ts`, `routes/auth.ts`)
Accounts, invitations, sessions, files with their holders, and the requests at
work. A sign-in, an activation and a password change are a look and a write; an end
of access (deactivate, delete, change of role) locks its account, decides what moves
to whom, and commits; a lead by rotation locks the next in turn and commits, and
another claims past it.

### Funding (`routes/funding.ts`, `domain/money.ts`, `commissionPayoutBlockers`)
The deal, its commissions with tables of splits, the renewal with its milestones.
Amounts are cents and the splits are computed as `money.ts` computes them, the
remainder to the last. A route looks, then writes.

### Tasks (`services/tasks.ts`, `domain/tasks.ts`)
An edit carries a part of the schedule, a status, both, or neither (`AskUpdate`). It reads,
judges and computes the schedule - the reminder for the status it is given, or else the
one it read - then writes, then commits, with `next_task_at` from the snapshot in between;
the reminder job selects what is due, then marks and tells one after the other, and two of
its runs may overlap. A workflow's `create_task` inserts a row and computes nothing
(`Automate`, `automation-engine.ts:692`). So two things are not so, and the properties
leave them out by name: a task last rescheduled as a closed one - also by the very
request that closes it - has no reminder when it is opened again (`asleep`), and a task of an
automation is not in `next_task_at` before the next request on the file counts it (`unasked`).

### Chats (`services/chats.ts`, `domain/chats.ts`) and Badge (`web/src/lib/chat-live.ts`, `realtime.ts`)
A message has the time its transaction began, a read mark the time of its request.
Sending is a transaction, reads, a publication to the streams the process counts as open and a bell
for everybody who has none by then. The reads may fail (`TellFails`: the sender has an error, the message
is there and nobody is told) and so may each bell (`Ring`). A stream counts from the moment
it is opened, whatever the page has loaded, and until the process notices that it is closed;
nothing says that it carries (`realtime.ts:12`). `served` is who is past their turn of being told,
by a stream, a bell, or one of these ways, each named at `NobodyIsPassedOver`. Badge is one tab: its stream, its coalescing timer and the answers on their
way back.

### Compliance (`services/compliance.ts`, `routes/compliance.ts`, `domain/risk.ts`)
The case of one file: items, the FINTRAC row, assessments. Nothing but the
replacing of an assessment is a transaction, so each read and each write of a
request is a step; `work[w]` is what the request does next. `standing` (a ghost) is
what has stood in the way of an approval ever since the request began.

### Documents (`document-requests.ts`, `routes/documents.ts`, `routes/public.ts`)
One request and its items. An UPDATE whose new value is a sub-select judges by the
snapshot of its beginning and may then wait for the row: two steps.

### AuditChain (`services/audit.ts`)
Entries written inside a transaction, under a lock, and entries on a connection of
their own. A hash stands for its row.

`MC*.tla` hold the small sets TLC needs and put components together in one run;
`*Proofs.tla` the proofs.

## 4. The runs

Some runs hold several *stories*: independent components, one of which is chosen in
the initial state and runs while the others stand still (their variables are one
stub value, or, where a module's property reads them, what they begin with). What
TLC explores is the sum of the stories and no product. No fair action is enabled in
a story that stands still. Since TLC reports such a next-state relation as one action,
each component was also run alone to see that all its actions occur.

| run | question | bounds |
| --- | --- | --- |
| JobQueueContract | without overruns, is a job in one hand, does recurring work go on and the worker stay within its capacity, is JobContract implemented, does everything settle? | 2 rows, 2 workers, a recurring key, an unknown kind and keyless jobs, max_attempts 2 plus one claim for the exit; a worker has room for one job and claims up to two, so that its room is less than the table and than the batch. After an exit ChainAccounted speaks of a single worker only, as deployed (with two, the death of the one between `succeed` and re-enqueue ends the chain); that case is proved (section 6) |
| Messages | *out*: two sends with one key: one message, and none after STOP? *in*: does a STOP follow the client? *late*: what stands when handlers outlive the reclaim: key index, numbering of claims, jobs reported dead? | out: 2 attempts, 2 keywords, lost answers, failing statements, 1 exit. in: 3 records (the shortest chain of merges), 2 numbers, a STOP and a START, one staff request at a time, 3 edits, failing statements, 1 exit. late: 2 jobs, 2 workers, failing statements, 1 exit, 3 claims: a row claimed, overrun, reclaimed and settled by both needs two, the third lets the two settle in either order |
| Steps | one step at a time, nothing stepped over, stops heeded? | wait and task; skip, end, run, two of them; 1 failing statement or 1 exit |
| CatchUp | what falls behind catches up: messages with a job, the form behind the portal's, the badge | messages: a marketing and a transactional text, 2 keywords. answers: 2 paths, 2 staff, 2 answers and a document, 2 forms, 1 exit. badge: 3 numbers, 2 calls, 2 changes, 2 troubles |
| Workflow | *entry*: is each event raised and consumed once and does each bring the client in? *steps*: is a client who is due moved on? | entry: 2 clients, of whom the second only goes quiet, 1 file a look of the time sweep, 2 events a tick, 1 event, 2 changes, 1 trouble, 1 enrolment by hand: more are quiet than one look takes, and `TickCatchesUp` asks for notice once no more are. steps: send and wait, pause or resume once, 1 failing statement or 1 exit |
| Campaign | with a pause, a resume, a second send, an unsubscribe and an exit: once each, rows true, does the pause hold, is a campaign that says sending driven, does the send end? | 2 recipients (one may unsubscribe, one has nothing left after the merge), batches of 1, so that a chain is several jobs; 2 attempts; 2 sends; 4 unsettled jobs, one always free; at most three of a pause, a second send, an exit and an unsubscribe |
| Files | *stages*: does what is in use stay, is there one default, do marks tell the truth? *meetings*: do the calendars agree, does a file move only on? | stages: 3 pipelines of 10 stages (one to be copied into), 1 file, 2 administrators, 3 steps. meetings: 1 meeting, 2 hosts, 2 events, 2 instants, 3 steps of people, 2 attempts of a push job, 3 failures of Google, 1 exit, four of all these together: a job that dies needs the push that planted it and two runs to fail |
| Closing | *case*: one current assessment, approvals of what is clear? *funding*: does money add up, is it paid on a complete case? *papers*, *log*: is what is said complete backed, does a locked entry follow? | case: 2 applicants, 2 requests at once, 3 items, 2 steps, 1 exit. funding: 2 of each row, 3 steps. papers: 2 required items and one more, 3 uploads. log: 2 writers of each kind |
| Desk | *tasks*: one reminder per setting, does an open task carry it, is the next task true? *chats*: what is unread, is nobody passed over, has a group an admin? | tasks: 2 tasks, 2 requests at once, 2 reminder runs, 3 requests and automations in all, 1 day with 2 hours. chats: 2 people, 2 messages, 2 requests at once, 3 requests and other steps of people in all; reads and bells may always fail |
| Staff | do links and sessions end with access, has every lead somebody who can sign in, does the rotation come round? | 3 accounts, 4 files, 2 requests at once, 2 links, 2 sessions, 3 steps: as many as the rotation has turns |

Two requests at once are enough to cross any look with any write; a third adds
an order but no new pair. Where a property is about a chain (merges, batches, a row
reclaimed and settled twice), the bound is the length at which it can fail. Symmetry
is used among identities nothing orders. `CHECK_DEADLOCK FALSE` everywhere: the
bounds (claims, deliveries, uses of the controls) let a bounded system come to rest.

A property of a run with stories may be a conjunction of properties of its
components. Each property has a mutant in `PROJECT.json`: a definition of the code
changed the way a plausible bug would change it (a dropped condition, the wrong
state, a missing reset), under which the same run finds the property violated; for
a conjunction, each part was tried with a fault of its own.

Where the code goes wrong at one interleaving, the property about it excepts that
interleaving by a ghost and speaks of all the others. What is excepted is therefore
not shown: two edits of one pipeline's stages at once (`frayed`), two assessments
or two confirmations at once (`overlapped`), a sign-in under way when the password
changes (`late`), a hand-over beside another assignment and two admins removed at
once (`strayed`, `crossed`), a message committed behind a read mark (`blurred`), two who leave a
group at once (`stranded`), a file moved between the decision and the move (`FileMovesOn`).
For most of these a property of the list below states the thing without the exception,
and TLC refutes it.

Disagreements between the code and what its comments say, found by a run:

| run | the text | what the code does |
| --- | --- | --- |
| InboundLost | "A callback that arrives and cannot be processed is a bug to fix, not an event to lose" (`internal.ts:200`) | message and keyword are two transactions; when the second fails, the next delivery is a duplicate and is marked processed with the STOP not applied |
| AuditForks | "Serialised against concurrent appends: two writers reading the same previous hash would fork the chain" (`audit.ts:96`) | the lock is taken only where the caller passes its transaction; two entries of routes that do not read the same predecessor |

The modules state more such properties, most of them under "What the comments
say and the code does not do". They are not in the list of runs; each is
violated under the instance given here (a configuration like the component's own
with only that property):

| property | what happens |
| --- | --- |
| JobQueue TickReschedulesItself | a tick whose handler throws `max_attempts` times is dead and nothing plants another until the next start (one worker, one recurring key) |
| JobQueue StopWaitsForWhatItHolds | `stop` while a tick awaits its claim |
| JobQueue ExhaustedBecomesDead | exits more than `max_attempts`: reclaim does not look at attempts |
| JobQueue TickRunsAlone | Overruns: a tick slower than the reclaim limit runs beside itself |
| Messaging CancelledStaysCancelled | a scheduled marketing email and STOP: STOP marks it suppressed, and `deliver` sends it, for it turns back only sent and delivered rows |
| Messaging RefusedForGoodOnce | a refused text delivered by its job: the handler throws, the queue tries again |
| Messaging TextedOnce | lost answers, or one exit: SMS carries no key to the provider |
| Messaging NoJobForNoMessage | two scheduled sends with one key: the second enqueues a job for `''` |
| Consent StopFollowsTheClient, MergesAreFlat | StaffAtOnce = 2: two merges, each checked before the other commits, leave a chain |
| Inbound HeldOnce, StoredOnce | two deliveries of one callback: `unmatched_messages` is not looked at, and the read precedes the insert |
| Inbound LastWordWins | START and STOP whose callbacks are handled in the other order |
| Inbound StartRestores | the number moved to another record between STOP and START |
| Enrollment SuppressedContinues | run again after a crash, a suppressed send reports the message `''`, which cannot be stored in a uuid column; the step fails for ever (GateClosed TRUE) |
| Enrollment WaitsAreKept | resume, then two waits: the second job runs the step behind the wait (the claim does not look at `next_run_at`) |
| Enrollment EndedStaysEnded | resume read before end, written after it |
| Enrollment SkippedIsNotRun | skip while the step is running |
| Enrollment CarriedOutOnce | one exit after a task was created: nothing makes `source_ref` unique |
| Events QuietIsNoticed | two files quiet, SweepLimit 1: the sweep takes the first 500 that qualify and does not leave out those it has raised (`automation-engine.ts:269`), so that the others are never noticed while these stay quiet |
| Events PausedTakesNobody | a tick works through its batch with what was published when it began |
| Campaign DeployLosesNothing | an exit between recording the message and the provider: the batch begun again takes the record for a message sent, the row says sent, and nothing sends it |
| Campaign RowSaysHeldBack | put off for quiet hours, then unsubscribed; the message is suppressed and the recipient's row goes on saying sent |
| Campaign OneChainAtATime | a pause and a resume before the first chain's next job, or an exit between planting the next job and success: two chains send at twice the pace |
| Campaign AudienceIsFixed | two audience requests at once with a send between them (StaffAtOnce = 2, two audience requests allowed) |
| Campaign SendPlantsABatch | a second POST /send from "paused" finds the first job's key taken; that job has read "paused" and ends, and the campaign says sending with no job until it is paused and resumed (Sends = 2; `SendingIsDriven` and `SendFinishes` name this way) |
| Pipelines ActiveIsComplete | a pipeline copied from an incomplete one (`pipelines.ts:379` does not check), or two stages edited at once |
| Appointments FailedPushIsRetried | an outage that outlasts the attempts of the job: it is dead, the calendar is wrong, the row shows the error and nothing retries (PushAttempts = 2, three failures) |
| Appointments NeverOutOfFunded, CorrectionMoves | the file is funded between the decision and the move; an outcome corrected after the file moved past the booked stage moves nothing |
| Corrections CorrectionsAreMade | a form opened before a push sends the older answers back with the one field changed |
| Staff NeverHoldOpenLeads, AnAdminAlways | the receiver of a handover is read without a lock; two admins removed at once |
| Tasks RemindedOnce, FinishedIsNotRescheduled | a change between two open states clears the mark; a finished task can be rescheduled |
| Tasks MovedIsRemindedAgain, EveryChangeRefreshes | a reminder run that read the task before it was moved marks it as past its grace; an automation's task is on no file's next_task_at |
| Chats NeverStranded, DeletedSaysNothing | a group's last admin removes themselves; an edit checked before the deletion puts the text back |
| Chats WatchingIsTold | a stream opened between publication and bell gets neither |
| Compliance VerifiedStaysVerified | an import of corrected answers replaces the persons an identity is linked to |
| Compliance CaseIsWhole, ScoreFollows | an exit while a case is opened; a determination whose second statement is overtaken |
| Compliance DeterminationsStand, PayoutNeedsEvidence | a new determination replaces the row a person rated; payout asks only for stored items |
| Documents CompleteWhenNothingIsOutstanding, CancelledRequestStays, RejectedIsCounted | two uploads each judge without the other's item; an upload let in before the cancellation writes its verdict over it; a rejection does not reopen the request |

Seen while modelling, and stated by no property: two bookings of one hour each
checked before the other's insert (`appointments.ts:506`); no route records a senior
approval, so a PEP match clears only as "not applicable", which the next sync takes
back; splits of fixed amounts alone may not sum to the commission
(`funding.ts:583`); a file without a case has no blockers (`compliance.ts:512`); an
amended maturity does not reach the renewal and a reopened renewal keeps its
milestones cancelled; the confirmation of a funding leaves the file's automations
running (`funding.ts:400`); two first imports of one client make two customers;
`MAX_HOPS` (`automation-engine.ts:479`) is declared and not used, and
`findInstantCycle` stops at the first wait, so a loop behind a wait is published;
archiving a workflow says "Clients already in it finish" (`workflow-builder.tsx:51`)
and ends them (`automations.ts:526`); publishing validates the definition it read
before and publishes without reading again; unsubscribing is four statements in no
transaction (`public.ts:642`); people removed from the Community chat come back with
the next start (`chats.ts:1519`).

## 5. Fairness

Handlers, requests and the statements of a run end (weak fairness per run or
per caller): the code has a timeout on every provider call and Postgres answers or
throws. Timers come round: the tick, the housekeeping interval, the portal's
sweep (`Sweep`), the badge's poll and its reconnection, and the clock that makes a
row due or stale. `stop` returns or reaches its deadline, and systemd restarts the
process (`deploy/lendmax-brokerage-crm.service`, Restart=always). A due row is
claimed in the end (strong fairness of its claim), since claims are in order of
priority and age and only finitely many rows go before it. Five minutes pass
between two sweeps for events of time (strong fairness of `FiveMinutesPass`: the
tick is enabled again and again in between). The portal's pushes arrive or are
lost, and none stays on its way for ever. Nothing is assumed of people, of the
provider's answers, or of failures: those are bounded in number, so liveness says
what holds once they end.

## 6. What is proved

For every set of jobs, calls, records, recipients, accounts... and every value of the
bounds, from the assumptions on the constants that the modules name (and TLC
evaluates):

| module | theorem | states |
| --- | --- | --- |
| JobQueueProofs | TypeCorrect | `[]TypeOK` |
| | LeasesAreExclusive | `[]LeaseExclusive`: two runs never hold one claim of one row |
| | KeysAreUnique | `[]LiveKeyUnique`: two live rows never share a key |
| | OneHolder | `[]SoleHolder`, when no handler overruns and no recording statement throws (`Timely`) |
| | QueueImplementsContract | the queue implements JobContract, under `Timely` |
| | RecurringWorkGoesOn | `[]ChainAccounted`, under `Timely` |
| | CapacityIsKept | `[]ConcurrencyBound`, of any finite table, any batch and any concurrency |
| | DeadStaysVisible | `DeadReopenedOnlyByOverrun` |
| MessagingProofs | TypeCorrect | `[]TypeOK` |
| | OneMessageEach | `[]MessagesAreUnique`: one message per key; more than one text only for lost answers and exits |
| | StopIsObeyed | `OptOutHolds`: no text goes out that was not allowed when its gate was read |
| | MessagingKeepsContract | `UsesQueueByContract` |
| | NobodyIsForgotten | `[]NothingLeftBehind`, when no statement throws (`~DbErrors`) |
| | CatchUpTyped | `[]TypesOK` of Messaging, Corrections and Badge |
| | NothingIsForgotten | `[]NothingForgotten`: columns agree with the form, a submission is announced once; and as above for messages (`~DbErrors`) |
| | TextsComeInTyped | `[]TypeOK` of Inbound |
| | AStopFollowsItsClient | `[]StopOutlivesMerges`, when staff requests do not overlap (`StaffAtOnce <= 1`) |
| EnrollmentProofs | TypeCorrect | `[]TypeOK` |
| | StepsComeInOrder | `[]StepsInOrder`, when no handler overruns |
| | StopsAreFollowed | `[]StopsAreHeeded`, when no handler overruns and what has ended stays ended (`EndsAreFinal`) |
| | StopsAreFinalWithoutResume | the same without that hypothesis, of a sequence nobody pauses or resumes |
| | EntryStaysOrderly | `[]EntryIsOrderly`: an event is raised once, consumed once, takes in once, and none is dropped |
| CampaignProofs | TypeCorrect | `[]TypeOK` |
| | ReceivedOnce | `[]OncePerRecipient` |
| | PauseHolds | `[]PauseStopsTheNextBatch`, for any number of chains, exits, pauses and resumes |
| | SendsAreDriven | `[]SendingIsDriven`: sending means a job or a request about to plant one, but for an enqueue dropped, a job dead, an exit before the enqueue |
| | FixedAudienceIsToldTruly | rows that say "held back" and the status "completed" are true, when the audience is frozen once (`AudienceIsFixed`) |
| StaffProofs | TypeCorrect | `[]TypeOK` |
| | AccessEndsWithTheAccount | `[]AccessEnds` |
| | SomebodyLooksAfterThem | `[]LeadsAreLookedAfter` |
| ClosingProofs | OneIsCurrent | `[](TypeOK /\ OneCurrentAssessment)` |
| | ApprovalsAreJudged | `ApprovalsAreClear` |
| | MoneyStaysAccounted | `[]MoneyIsAccounted`: confirmations, splits to the cent, what was received, milestones |
| | PaidWhereComplete | `PaidOnceComplete` |
| | RecordsKeepStanding | `[]RecordsStand`: completed requests are backed and counted, locked audit entries follow |
| DeskProofs | TasksStayKept | `[]TasksAreKept`: reminders, and the next task but for `crossed`, `asleep`, `unasked` |
| | UnreadIsTrue | `[]UnreadIsWhatWasNotSeen` |
| | ChatsStayFaithful | `[]ChatsKeepFaith`: nobody passed over but in the ways named, a group's admin, files in storage |
| FilesProofs | FilesTyped | `[]TypesOK` of Appointments and Pipelines |
| | BoardStands | `[]PipelinesHold`: one default, nothing in use goes, the marks tell the truth |
| | CalendarsStayTrue | `[]MeetingsStand`: no calendar is wrong in silence, next meeting and reminders; for any number of attempts, after which the job is dead |
| | FilesGoOn | `FileMovesOn` |

The hypotheses are what the code needs and does not ensure by itself; without
them the properties are false and TLC shows it (section 4: overlapping merges,
a sequence resumed after it was ended, two audience requests, overruns). TLC
checks each property in an instance that meets the hypothesis: `EndsAreFinal`, for
example, holds where the controls have no "pause" and "resume", as in the Steps run,
which `EndsAreFinalWithoutResume` proves.

The inductive invariants, and why they are more than the properties:

- **JobQueue**. A claim numbers its run `attempts + 1`, so one has to know that no
  run is ahead of its row and that an absent row is named by no run that could
  clash with its next life (`LeaseInv`). `KeyInv` adds that a row a run retries has
  kept its key; the interesting steps are Retry and ReclaimStalled, where only the
  index (the guard on Holders) keeps two rows from owning the key. `HolderInv`: a
  run's row is running at the run's own claim until its outcome is recorded, and a
  row nobody holds is the only kind that ages; every step then changes each row in a
  way JobContract has, or not at all. *Recurring work* (`ChainInv`): for every recurring key that was
  planted since the start there is a row pending, running or dead, or a run of the key in
  memory, which plants again before it goes. Only an exit takes the run away (`ExitsCount`), and
  where the worker is the only one its next start plants. *Capacity* (`RoomInv`) counts what a claim has taken and the tick has not
  dispatched yet, for the limit was computed before.
- **Messaging**. `RecordInv`: at a request there is one task by `send` and one by the
  queue; each place in the code goes with a state of the row and of the job; one row
  per key. With `GateWasRead` - what a task that is about to call has seen was no
  older than the last STOP it is judged by - StopIsObeyed follows.
- **Inbound**. The gate looks at a record and at those merged into it, one step back.
  `StopInv` says that this is enough: merges are flat, whoever is about to merge has
  looked at records that are still as they were (`AskedAlone`), and a consent row
  says the word of its text. `FoldedInto` has no recursion: it quantifies over the
  sets closed under `merged`, and `FoldedAtMostOnce` brings it back to one step.
- **Enrollment**. `OrderInv`: at most one task is between claim and advance; what a
  task of the sequence has sent or run is behind the row's node or at it; behind the
  node everything is done.
- **Events** (`DoorInv`). The batch a tick holds is of unconsumed events, each once; what
  it looked at before it inserts still stands at the insert, for ticks do not overlap;
  whoever is in came by a marked event, by a tick that died before the mark, or by a
  hand, and hands are counted.
- **Corrections** (`AnswersInv`). A push lists only what the client uploaded, nothing is
  there before the first push, a form open shows what some push and some edits made; the
  agreement of columns and form is torn only while a revert is between its steps.
  Badge's types go with what its stream, timer and calls carry.
- **Campaign**. `DeliveryInv`: a message that is going out is in one run's hands, a
  message received is one that is sent; "sent once" follows from the message and not
  from the recipient's row, which two chains write. `TruthInv` adds what a run has
  read of the row it is at. `PauseInv`: jobs are in one handler's hands each, and while
  the campaign is paused what a handler has taken up and what is ahead of it are a batch
  at most. A bound on the sum (`Batch` for each chain that was started) was false: an
  exit between planting a job and success doubles every chain at that point.
  `Driven`: a campaign that is sending, and lost nothing, has a request at its enqueue or a
  job that is pending, stranded or at work and not yet settling; a handler goes to settle
  only after planting the next job, completing the campaign, or reading that it is not
  sending, and the button that changes that plants one or is noted in `lost`.
- **Staff**. `AccessInv`: who activates holds the number of a link, a live link is of
  an active account not yet activated, and a session is of the stamp at its
  sign-in. `LeadsInv`: a file that is held has a primary and its holders can sign in
  (`HeldInv`); what a request under a lock has decided is still so when it commits
  (`WorkInv`); the last admin (`AdminInv`); and whom the rotation has passed over
  were held aside, each claim taking the earliest stamp (`TurnInv`).
- **Compliance**. `CurrentInv`: unless two overlap, whoever is replacing an assessment
  has made the older ones superseded. `JudgedInv`: what has stood in the way since a
  request began is outstanding, and a request past a check has found it absent. The
  FINTRAC row is written after the items, so an item that was never written blocks
  through it.
- **Funding**. The splits need no induction over data: each commission's parts are what
  one computation made of it, and the remainder goes to the last by definition; what a
  request has read of a row is either still so or marked as overlapped.
- **Documents, AuditChain**. An upload's verdict and a count are of the snapshot they
  carry; under the lock the last entry is the one that was read.
- **Tasks**. A mark and a reminder told go together but in the hands of a run; the next
  task is the earliest open one that was counted, and a request that has taken its
  snapshot holds the earliest of what is committed, its own write and what it has not
  seen, unless it was overtaken. An update's reminder stands for the row it will find,
  or the task falls `asleep` at its commit.
- **Chats**. A message that commits is later than every read mark of the others, or is
  noted as behind it (`blurred`); once a message is published, each member is served or
  still to be rung (`Rings`), and who is still to be rung and has a stream open is
  served; a picture under way is stored and is nobody else's; a leave
  judged before another's leave is marked as overtaken.
- **Pipelines** (`BoardInv`). Two transactions never hold one pipeline
  (`OnePerPipe`), so what let an edit or a deletion in is still so of the row it locked
  (`PipeHeld`); what it read of the stages was enough when it read it (`SawEnough`), and
  is either still so at its write or the write marks the pipeline as frayed. A move
  carries the stages it saw, and a file that lands on one that went meanwhile is marked
  `late`.
- **Appointments** (`MeetingsInv`). The heart is a debt: while the row and the calendar
  disagree, somebody owes the repair - a job, a request on its way to push, or a sync that has the
  event still to apply (`Owed`, `Coming`) - or the row shows the error, and then somebody
  owes it or it is noted as `spent` (`Tried`). Each step either leaves the
  debt, pays it or hands it on; at most one event of a meeting is live
  (`OneLive`), and the place a request decided on is the one its kind wants from where it
  saw the file (`MoveSound`).

The attempts corrected the models where a ghost did not say what it was meant to
(`strayed` for a file closed between look and handover, `passed` for a claim that
commits late, both in Staff), and most type invariants turned out not to be inductive:
which columns a row has depends on where a request is. TypeCorrect therefore
proves a stronger invariant (`TypeInv` and so on).

Model-checked only: everything temporal beyond a step (JobsSettle,
EveryMessageSettles, DueIsRun, TickCatchesUp, SendFinishes, ScreensCatchUp), since liveness
and ENABLED are out of the prover's reach. Campaign's `RecordsAreTrue` is proved by its
parts.

## 7. What is not modelled, and why

See `PROJECT.json` "components". What the plan still has is in section 2. Of the
source's lines about a third of what could hold a property are presentation or data:
the pages of `web/` (17,500 lines, of which the badge is modelled), the generated
`portal-schema.ts` (2,600), styles, seeds, listings and searches (reads), request
schemas, columns and constraints of SQL nothing here reads. They keep no state a property
could be about, and a module for them would be their transliteration. Left out for
good for the same reason: rendering (signatures, merge fields, pages), reports and
dashboards, single-row settings, deployment. Calendar arithmetic over Intl time zones
is taken by its answer. Within the modelled components: the texts of messages and
emails, snoozes and comments, legal hold, the arithmetic of the risk score beyond
its rating, the storage and scanning of files.
