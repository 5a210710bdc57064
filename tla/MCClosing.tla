----------------------------- MODULE MCClosing -----------------------------
(* What a file needs before it pays: documents (the story "papers"), its   *)
(* compliance case ("case"), its funding with the commissions and the      *)
(* renewal that follow ("funding"), and the audit log that tells of it all *)
(* ("log").  A story is chosen at the start and the others stand still.    *)
EXTENDS Compliance, TLC

CONSTANTS
  Commissions, Renewals, Workers, Amounts, Days, None, MaxDealSteps,
  Pieces, Required, MaxUploads, MaxAsks, Inside, Outside

VARIABLES
  story,
  funding, won, commission, renewal, complete, deals, dealSteps, crossing, reopened,
  request, lapsed, item, documents, count, doing, crossed, asks, ends,
  rows, pc, prev, made

MCTemplate == <<"identity_verified", "pep_screening", "disclosures">>

\* The story "case" is told by the definitions this module extends.
Deal == INSTANCE Funding WITH
  MaxSteps <- MaxDealSteps, work <- deals, steps <- dealSteps, overlapped <- crossing
Papers == INSTANCE Documents WITH Items <- Pieces, exits <- ends
Log == INSTANCE AuditChain

ASSUME ClosingAssumption ==
  /\ ComplianceAssumption /\ Deal!FundingAssumption
  /\ Papers!DocumentsAssumption /\ Log!AuditChainAssumption

dealVars == <<funding, won, commission, renewal, complete, deals, dealSteps, crossing,
              reopened>>
paperVars == <<request, lapsed, item, documents, count, doing, crossed, asks, ends>>
logVars == <<rows, pc, prev, made>>

\* What the variables of the other stories are.  Those the properties of
\* Compliance read are as they begin.
Still == 0

NoFile ==
  /\ case = NoCase /\ items = Still /\ fintrac = <<>> /\ applicants = Still
  /\ verified = Still /\ rationale = Still /\ assessments = <<>>
  /\ work = [w \in Clerks |-> Idle] /\ steps = Still /\ exits = Still
  /\ standing = Still /\ overlapped = FALSE

NoDeal ==
  /\ funding = Still /\ won = Still /\ commission = Still /\ renewal = Still
  /\ complete = Still /\ deals = Still /\ dealSteps = Still /\ crossing = Still
  /\ reopened = Still

NoPapers ==
  /\ request = Still /\ lapsed = Still /\ item = Still /\ documents = Still
  /\ count = Still /\ doing = Still /\ crossed = Still /\ asks = Still /\ ends = Still

NoLog == rows = Still /\ pc = Still /\ prev = Still /\ made = Still

MCInit ==
  \/ story = "case" /\ Init /\ NoDeal /\ NoPapers /\ NoLog
  \/ story = "funding" /\ Deal!Init /\ NoFile /\ NoPapers /\ NoLog
  \/ story = "papers" /\ Papers!Init /\ NoFile /\ NoDeal /\ NoLog
  \/ story = "log" /\ Log!Init /\ NoFile /\ NoDeal /\ NoPapers

MCNext ==
  /\ UNCHANGED story
  /\ \/ story = "case" /\ Next /\ UNCHANGED <<dealVars, paperVars, logVars>>
     \/ story = "funding" /\ Deal!Next /\ UNCHANGED <<vars, paperVars, logVars>>
     \/ story = "papers" /\ Papers!Next /\ UNCHANGED <<vars, dealVars, logVars>>
     \/ story = "log" /\ Log!Next /\ UNCHANGED <<vars, dealVars, paperVars>>

MCSpec == MCInit /\ [][MCNext]_<<story, vars, dealVars, paperVars, logVars>>

\* Persons and required items, clerks and writers go by the same names, so
\* that the group of the symmetry is that of one story.
MCSymmetry == Permutations(Persons) \cup Permutations(Clerks)

-----------------------------------------------------------------------------
(* funding.ts, commission.ts, renewals.ts: a funding is confirmed once,    *)
(* its commissions sum to what was promised and paid, and its milestones   *)
(* are those of the maturity.                                              *)
MoneyIsAccounted ==
  story = "funding" =>
    Deal!TypeOK /\ Deal!ConfirmedOnce /\ Deal!MoneyAddsUp /\ Deal!MilestonesFollow

(* document-requests.ts: what is said to be complete is backed by          *)
(* documents, and the count the board reads is put right by whoever        *)
(* changed what is counted.  audit.ts: an entry written under the lock     *)
(* follows the one before it.  compliance.ts: the rows of a case are of    *)
(* the statuses the schema has.                                            *)
RecordsStand ==
  /\ story = "papers" => Papers!TypeOK /\ Papers!CompletedIsBacked /\ Papers!CountIsPutRight
  /\ story = "log" => Log!TypeOK /\ Log!LockedEntriesFollow
  /\ story = "case" => TypeOK

(* funding.ts: a commission is paid only on a file whose case is complete. *)
PaidOnceComplete == [][story = "funding" => Deal!PaysWhenComplete]_dealVars
=============================================================================
