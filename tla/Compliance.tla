---------------------------- MODULE Compliance ----------------------------
(***************************************************************************)
(* The compliance case of one file: its checklist, its risk assessments    *)
(* and the decision about it: src/services/compliance.ts,                  *)
(* src/http/routes/compliance.ts and assessRisk of src/domain/risk.ts.     *)
(*                                                                         *)
(* Nothing but the replacing of an assessment is a transaction: every read *)
(* and every write of a request is a step, and the process may end between *)
(* any two.  The import of corrected answers is replaceChildren of         *)
(* src/services/portal-import.ts, as far as identity checks go.            *)
(***************************************************************************)
EXTENDS Integers, FiniteSets, Sequences

CONSTANTS
  Persons,    \* the applicants there may be on the file
  Clerks,     \* bound: requests at the same time
  Template,   \* the checklist's required items, in their order
  MaxSteps,   \* bound: requests and changes to the file
  MaxExits    \* bound: the process ends

ComplianceAssumption == Template \in Seq(STRING \ {"risk", "fintrac"})

Items == {Template[i] : i \in DOMAIN Template}
(* The items the file answers itself; any other is ticked by a person.     *)
Derivable == {"identity_verified", "pep_screening", "suitability"}
Derived == Items \cap Derivable

Statuses == {"outstanding", "complete", "not_applicable", "rejected"}
Blank == [pep |-> "unscreened", completed |-> FALSE]
Idle == [at |-> "idle"]
NoCase == "no case"

VARIABLES
  case,         \* the status of the case
  items,        \* the status of the items that are there
  fintrac,      \* the FINTRAC assessment: <<>>, or <<row>>
  applicants,   \* the persons on the form
  verified,     \* those a verified identity is linked to
  rationale,    \* the suitability assessment
  assessments,  \* the risk assessments, in the order their transactions began
  work,         \* work[w]: what the request of w does next
  steps, exits,
  standing,     \* ghost: standing[w]: what has stood in the way since w's request began
  overlapped    \* ghost: two assessments were replaced at once

vars == <<case, items, fintrac, applicants, verified, rationale, assessments, work, steps, exits,
          standing, overlapped>>
file == <<case, items, fintrac, applicants, verified, rationale, assessments>>

-----------------------------------------------------------------------------
(* What the file says.                                                     *)

(* A match needs a senior approval, which no route records.                *)
Derive(item) ==
  CASE item = "identity_verified" ->
         applicants # {} /\ Cardinality(verified) >= Cardinality(applicants)
    [] item = "pep_screening" -> \E i \in DOMAIN fintrac : fintrac[i].pep = "clear"
    [] item = "suitability" -> rationale = "submitted"

Evidence == [item \in Derived |-> Derive(item)]

(* A determination nobody has made is unanswered, not clean.               *)
Unanswered(row) == ~row.completed \/ row.pep = "unscreened"

(* Unanswered questions are for review; a match weighs most.               *)
Rating ==
  IF \A i \in DOMAIN fintrac : Unanswered(fintrac[i]) THEN "review_required"
  ELSE IF fintrac[1].pep = "match" THEN "high" ELSE "low"

Current == {i \in DOMAIN assessments : assessments[i].state = "current"}
Latest == {i \in Current : \A j \in Current : j <= i}

Unresolved ==
  \A i \in Latest : "review_required" =
    IF assessments[i].override # "none" THEN assessments[i].override ELSE assessments[i].rating
NotCompleted == \A i \in DOMAIN fintrac : ~fintrac[i].completed

(* Fault: the stored status is believed.                                   *)
BlockersByStatus(evidence) ==
  {item \in DOMAIN items : items[item] \notin {"complete", "not_applicable"}}

(* The part of approvalBlockers that is about the checklist.               *)
ItemBlockers(evidence) ==
  {item \in DOMAIN items : items[item] # "not_applicable" /\
     ~(IF item \in Derived THEN evidence[item] ELSE items[item] = "complete")}

(* What stands in the way now, an item nobody has materialised included.   *)
Outstanding ==
  {item \in Items : item \notin DOMAIN items \/ (items[item] # "not_applicable" /\
     ~(IF item \in Derived THEN Evidence[item] ELSE items[item] = "complete"))}
  \cup (IF Unresolved THEN {"risk"} ELSE {}) \cup (IF NotCompleted THEN {"fintrac"} ELSE {})

(* commissionPayoutBlockers.                                               *)
PayoutBlockers == {item \in DOMAIN items : items[item] \in {"outstanding", "rejected"}}

(* A file without a case; one whose opening the end of the process cut     *)
(* short; and one whose case was opened, worked on and assessed, with the  *)
(* stored checklist as somebody last saw it.                               *)
Init ==
  /\ verified \in SUBSET Persons
  /\ \/ /\ case = NoCase /\ items = <<>> /\ fintrac = <<>> /\ assessments = <<>>
        /\ applicants \in SUBSET Persons /\ verified = {}
     \/ /\ case = "in_progress" /\ items = <<>> /\ fintrac = <<>> /\ assessments = <<>>
        /\ applicants = Persons
     \/ /\ case = "in_progress" /\ applicants = Persons
        /\ items \in [Items -> {"outstanding", "complete"}]
        /\ fintrac \in {<<Blank>>} \cup
             {<<[pep |-> pep, completed |-> TRUE]>> : pep \in {"clear", "match"}}
        /\ assessments = <<[state |-> "current", rating |-> Rating, override |-> "none"]>>
  /\ rationale = "none"
  /\ work = [w \in Clerks |-> Idle] /\ steps = 0 /\ exits = 0
  /\ standing = [w \in Clerks |-> {}] /\ overlapped = FALSE

-----------------------------------------------------------------------------
(* The steps of a request.  Each is one statement.                         *)

BeingOpened == \E v \in Clerks : work[v].at = "insert_item"

Ask(w, op) ==
  /\ work' = [work EXCEPT ![w] = op] /\ steps' = steps + 1
  /\ standing' = [standing EXCEPT ![w] = IF BeingOpened THEN {} ELSE Outstanding]
  /\ UNCHANGED <<file, overlapped>>

Go(w, op) == work' = [work EXCEPT ![w] = op] /\ UNCHANGED steps
To(w, at) == Go(w, [work[w] EXCEPT !.at = at])
Done(w) == Go(w, Idle)

(* The first statement after openCase, by request.                         *)
AfterOpen(op) == IF op.kind = "view" THEN "gather" ELSE "write_rationale"

OpenRead(w) ==
  /\ work[w].at = "open"
  /\ To(w, IF case # NoCase THEN AfterOpen(work[w]) ELSE "insert_case")
  /\ UNCHANGED <<file, overlapped>>

(* The second case of an application meets the unique key and fails.       *)
InsertCase(w) ==
  /\ work[w].at = "insert_case"
  /\ IF case # NoCase THEN case' = case /\ Done(w)
     ELSE /\ case' = "in_progress"
          /\ Go(w, [work[w] EXCEPT !.at = "insert_item", !.next = 1])
  /\ UNCHANGED <<items, fintrac, applicants, verified, rationale, assessments, overlapped>>

(* The items in the template's order, then the FINTRAC assessment.         *)
Materialise(w) ==
  /\ work[w].at = "insert_item"
  /\ LET n == work[w].next IN
     IF n \in DOMAIN Template
     THEN /\ items' = [item \in DOMAIN items \cup {Template[n]} |->
                         IF item \in DOMAIN items THEN items[item] ELSE "outstanding"]
          /\ Go(w, [work[w] EXCEPT !.next = n + 1]) /\ UNCHANGED fintrac
     ELSE /\ fintrac' = IF fintrac = <<>> THEN <<Blank>> ELSE fintrac
          /\ Go(w, [work[w] EXCEPT !.at = AfterOpen(work[w]), !.next = 0]) /\ UNCHANGED items
  /\ UNCHANGED <<case, applicants, verified, rationale, assessments, overlapped>>

(* gatherEvidence, and what is judged by it at once.                       *)
Gather(w) ==
  /\ work[w].at = "gather"
  /\ LET op == work[w]
         Then(at) == Go(w, [op EXCEPT !.at = at, !.seen = Evidence])
     IN CASE op.kind = "view" -> Then("is_assessed")
          [] op.kind = "refresh" -> Then("read_items")
          [] op.kind = "decide" -> Then("judge_items")
          [] op.kind = "item" -> IF op.item \in Derived /\ op.to = "complete" /\ ~Evidence[op.item]
                                   THEN Done(w) ELSE To(w, "write_item")
  /\ UNCHANGED <<file, overlapped>>

(* The first look at a case has it assessed.                               *)
IsAssessed(w) ==
  /\ work[w].at = "is_assessed"
  /\ To(w, IF Current = {} THEN "risk_facts" ELSE "read_items")
  /\ UNCHANGED <<file, overlapped>>

-----------------------------------------------------------------------------
(* The risk assessment.                                                    *)

RiskFacts(w) ==
  /\ work[w].at = "risk_facts"
  /\ Go(w, [work[w] EXCEPT !.at = "supersede", !.rating = Rating])
  /\ UNCHANGED <<file, overlapped>>

(* Fault: an assessment made by hand is not superseded.                    *)
SupersededByModel == {i \in Current : assessments[i].override = "none"}

Superseded == Current

(* The transaction begins: what it will supersede is what it sees now.     *)
Supersede(w) ==
  /\ work[w].at = "supersede"
  /\ assessments' = Append(assessments,
       [state |-> "unwritten", rating |-> work[w].rating, override |-> "none"])
  /\ Go(w, [work[w] EXCEPT !.at = "assess", !.rating = "", !.old = Superseded,
                           !.next = Len(assessments) + 1])
  /\ overlapped' = (overlapped \/ \E v \in Clerks \ {w} : work[v].at = "assess")
  /\ UNCHANGED <<case, items, fintrac, applicants, verified, rationale>>

Assess(w) ==
  /\ work[w].at = "assess"
  /\ assessments' = [i \in DOMAIN assessments |->
       IF i \in work[w].old THEN [assessments[i] EXCEPT !.state = "superseded"]
       ELSE IF i = work[w].next THEN [assessments[i] EXCEPT !.state = "current"]
       ELSE assessments[i]]
  /\ IF work[w].kind # "view" THEN Done(w)
     ELSE Go(w, [work[w] EXCEPT !.at = "read_items", !.next = 0, !.old = {}])
  /\ UNCHANGED <<case, items, fintrac, applicants, verified, rationale, overlapped>>

ReadAssessment(w) ==
  /\ work[w].at = "read_assessment"
  /\ IF Latest = {} THEN Done(w)
     ELSE \E i \in Latest : Go(w, [work[w] EXCEPT !.at = "write_override", !.next = i])
  /\ UNCHANGED <<file, overlapped>>

(* By its id, superseded in between or not.                                *)
WriteOverride(w) ==
  /\ work[w].at = "write_override"
  /\ assessments' = [assessments EXCEPT ![work[w].next].override = work[w].to]
  /\ Done(w)
  /\ UNCHANGED <<case, items, fintrac, applicants, verified, rationale, overlapped>>

-----------------------------------------------------------------------------
(* The checklist.                                                          *)

(* What the evidence gathered says of the statuses read now.               *)
ReadItems(w) ==
  /\ work[w].at = "read_items"
  /\ LET Answer(item) == IF work[w].seen[item] THEN "complete" ELSE "outstanding"
         changed == {item \in Derived \cap DOMAIN items :
                       items[item] \notin {"not_applicable", Answer(item)}}
     IN IF changed = {} THEN Done(w)
        ELSE Go(w, [work[w] EXCEPT !.at = "sync", !.seen = [item \in changed |-> Answer(item)]])
  /\ UNCHANGED <<file, overlapped>>

Sync(w) ==
  /\ work[w].at = "sync"
  /\ items' = [item \in DOMAIN items |->
                 IF item \in DOMAIN work[w].seen THEN work[w].seen[item] ELSE items[item]]
  /\ Done(w)
  /\ UNCHANGED <<case, fintrac, applicants, verified, rationale, assessments, overlapped>>

WriteItem(w) ==
  /\ work[w].at = "write_item"
  /\ items' = [items EXCEPT ![work[w].item] = work[w].to]
  /\ Done(w)
  /\ UNCHANGED <<case, fintrac, applicants, verified, rationale, assessments, overlapped>>

(* The latest rationale is locked and saved; a submitted one stays so.     *)
WriteRationale(w) ==
  /\ work[w].at = "write_rationale"
  /\ rationale' = IF rationale = "submitted" THEN rationale ELSE work[w].to
  /\ Done(w)
  /\ UNCHANGED <<case, items, fintrac, applicants, verified, assessments, overlapped>>

(* A case that misses its FINTRAC assessment updates no row.               *)
WriteFintrac(w) ==
  /\ work[w].at = "write_fintrac"
  /\ fintrac' = [i \in DOMAIN fintrac |->
       [pep |-> IF work[w].to = "unsaid" THEN fintrac[i].pep ELSE work[w].to,
        completed |-> fintrac[i].completed \/ work[w].complete]]
  /\ To(w, "risk_facts")
  /\ UNCHANGED <<case, items, applicants, verified, rationale, assessments, overlapped>>

-----------------------------------------------------------------------------
(* The decision.                                                           *)

JudgeItems(w) ==
  /\ work[w].at = "judge_items"
  /\ IF ItemBlockers(work[w].seen) # {} THEN Done(w)
     ELSE Go(w, [work[w] EXCEPT !.at = "judge_risk", !.seen = <<>>])
  /\ UNCHANGED <<file, overlapped>>

JudgeRisk(w) ==
  /\ work[w].at = "judge_risk"
  /\ IF Unresolved THEN Done(w) ELSE To(w, "judge_fintrac")
  /\ UNCHANGED <<file, overlapped>>

JudgeFintrac(w) ==
  /\ work[w].at = "judge_fintrac"
  /\ IF NotCompleted THEN Done(w) ELSE To(w, "write_decision")
  /\ UNCHANGED <<file, overlapped>>

WriteDecision(w) ==
  /\ work[w].at = "write_decision"
  /\ case' = work[w].to
  /\ Done(w)
  /\ UNCHANGED <<items, fintrac, applicants, verified, rationale, assessments, overlapped>>

-----------------------------------------------------------------------------
(* Requests, and what happens to the file besides.                         *)

Request == [at |-> "", kind |-> "", item |-> "", to |-> "", complete |-> FALSE, seen |-> <<>>,
            old |-> {}, next |-> 0, rating |-> ""]

AskView(w) == Ask(w, [Request EXCEPT !.at = "open", !.kind = "view"])
AskRefresh(w) == case # NoCase /\ Ask(w, [Request EXCEPT !.at = "gather", !.kind = "refresh"])
AskItem(w) ==
  \E item \in DOMAIN items, to \in Statuses :
    Ask(w, [Request EXCEPT !.at = "gather", !.kind = "item", !.item = item, !.to = to])
AskRationale(w) ==
  \E to \in {"draft", "submitted"} :
    Ask(w, [Request EXCEPT !.at = "open", !.kind = "rationale", !.to = to])
(* Completing is judged by what this request says, fintracBlockers.        *)
AskFintrac(w) ==
  \E to \in {"unsaid", "unscreened", "clear", "match"}, complete \in BOOLEAN :
    /\ case # NoCase /\ (complete => to \in {"clear", "match"})
    /\ Ask(w, [Request EXCEPT !.at = "write_fintrac", !.kind = "fintrac", !.to = to,
                              !.complete = complete])
AskReassess(w) == case # NoCase /\ Ask(w, [Request EXCEPT !.at = "risk_facts", !.kind = "reassess"])
AskOverride(w) ==
  \E to \in {"low", "review_required"} :
    /\ case # NoCase
    /\ Ask(w, [Request EXCEPT !.at = "read_assessment", !.kind = "override", !.to = to])
AskDecision(w) ==
  \E to \in {"approved", "changes_requested"} :
    /\ case # NoCase
    /\ Ask(w, [Request EXCEPT !.at = IF to = "approved" THEN "gather" ELSE "write_decision",
                              !.kind = "decide", !.to = to])

Asks(w) ==
  /\ work[w] = Idle /\ steps < MaxSteps
  /\ \/ AskView(w) \/ AskRefresh(w) \/ AskItem(w) \/ AskRationale(w)
     \/ AskFintrac(w) \/ AskReassess(w) \/ AskOverride(w) \/ AskDecision(w)
  /\ UNCHANGED exits

Step(w) ==
  \/ OpenRead(w) \/ InsertCase(w) \/ Materialise(w) \/ Gather(w) \/ IsAssessed(w)
  \/ RiskFacts(w) \/ Supersede(w) \/ Assess(w) \/ ReadAssessment(w) \/ WriteOverride(w)
  \/ ReadItems(w) \/ Sync(w) \/ WriteItem(w) \/ WriteRationale(w) \/ WriteFintrac(w)
  \/ JudgeItems(w) \/ JudgeRisk(w) \/ JudgeFintrac(w) \/ WriteDecision(w)

(* One statement: an identity is recorded as verified for an applicant.    *)
RecordIdentity ==
  \E p \in applicants \ verified : verified' = verified \cup {p} /\ UNCHANGED applicants

(* Fault: what was verified outlives the row it was about.                 *)
ImportKeepingLinks ==
  \E people \in SUBSET Persons : applicants' = people /\ UNCHANGED verified

(* replaceChildren: the applicants are deleted and inserted again, and the *)
(* link of what was verified is set to null.                               *)
ImportAnswers ==
  \E people \in SUBSET Persons : applicants' = people /\ verified' = {}

FileChanges ==
  /\ steps < MaxSteps /\ steps' = steps + 1
  /\ RecordIdentity \/ ImportAnswers
  /\ UNCHANGED <<case, items, fintrac, rationale, assessments, work, overlapped>>

(* What stood in the way of a request all along.                           *)
StillStanding ==
  standing' = [w \in Clerks |-> IF work'[w] = Idle THEN {} ELSE standing[w] \cap Outstanding']

(* The process ends; a transaction it was in is rolled back.               *)
Exit ==
  /\ exits < MaxExits /\ exits' = exits + 1
  /\ work' = [w \in Clerks |-> Idle]
  /\ standing' = [w \in Clerks |-> {}]
  /\ UNCHANGED <<file, steps, overlapped>>

Next ==
  \/ \E w \in Clerks : Asks(w)
  \/ (\E w \in Clerks : work[w] # Idle /\ Step(w)) /\ StillStanding /\ UNCHANGED exits
  \/ FileChanges /\ StillStanding /\ UNCHANGED exits
  \/ Exit

Spec == Init /\ [][Next]_vars

-----------------------------------------------------------------------------
(* Properties.                                                             *)

TypeOK ==
  /\ case \in {NoCase, "in_progress", "approved", "changes_requested"}
  /\ DOMAIN items \subseteq Items /\ verified \subseteq applicants
  /\ \A item \in DOMAIN items : items[item] \in Statuses
  /\ \A i \in DOMAIN assessments : assessments[i].state = "unwritten" \/ case # NoCase
  /\ Len(fintrac) <= 1 /\ (fintrac # <<>> => DOMAIN items = Items)

(* Nothing that stood in the way from the beginning of a request to its    *)
(* end is approved by it: not what the screen and the stored checklist     *)
(* still show as done, and not an item that was never written because the  *)
(* process ended while the case was opened.  (A request that begins while  *)
(* another opens the case is not judged.)                                  *)
ApprovesWhatIsClear ==
  \A w \in Clerks :
    work[w].at = "write_decision" /\ work[w].to = "approved" /\ work'[w] = Idle
      => standing[w] = {} \/ exits' # exits
ApprovalsAreClear == [][ApprovesWhatIsClear]_vars

(* One assessment is current, however a person's rating, a new             *)
(* determination and the first look at a case follow each other; two only  *)
(* where two were being replaced at the same moment.                       *)
OneCurrentAssessment == ~overlapped => Cardinality(Current) <= 1

-----------------------------------------------------------------------------
(* What the comments say and the code does not do.                         *)

(* "A client verified last year is verified" (migration 0006:116): an      *)
(* identity on record for a person who is still on the form counts.        *)
VerifiedStaysVerified ==
  [][\A p \in verified : p \in applicants' => p \in verified']_vars

(* "The FINTRAC assessment row exists from the start" (compliance.ts:97).  *)
CaseIsWhole ==
  case # NoCase /\ (\A w \in Clerks : work[w] = Idle) => fintrac # <<>> /\ DOMAIN items = Items

(* "A person makes the determination" (compliance.ts:7): what a person has *)
(* rated is not replaced by the model.                                     *)
DeterminationsStand ==
  [][\A i \in Current : assessments[i].override # "none" => i \in Current']_vars

(* "The checks confirm every requirement is complete before commission is  *)
(* paid" (compliance.ts:502): no item is outstanding where none is stored  *)
(* so.                                                                     *)
PayoutNeedsEvidence == case # NoCase /\ PayoutBlockers = {} => Outstanding \cap Items = {}

(* "A determination that changes the risk picture changes the risk score"  *)
(* (routes/compliance.ts:367).                                               *)
ScoreFollows ==
  (\A w \in Clerks : work[w] = Idle) /\ exits = 0 =>
    \A i \in Latest : assessments[i].rating = Rating
=============================================================================
