---------------------------- MODULE Corrections ----------------------------
(***************************************************************************)
(* A client's answers, as the portal pushes them, and the brokerage's      *)
(* corrections laid over them: src/services/portal-import.ts behind        *)
(* POST /api/internal/mirror, src/services/applications.ts and             *)
(* src/domain/application-form.ts.  One application, one section of its    *)
(* form.                                                                   *)
(*                                                                         *)
(* An import and a save hold the application's row from their first write  *)
(* to their commit and read the other's work only after it: each is one    *)
(* step.  What a save read before its transaction, and the four statements *)
(* of a revert, which has none, are steps of their own.                    *)
(***************************************************************************)
EXTENDS Naturals, FiniteSets

CONSTANTS
  Paths,       \* paths of the section's answers
  Staff,
  Files,       \* files the client may upload
  NoEdit,      \* no row of application_field_edits for the path
  NoRow,       \* no row of applications yet
  MaxAnswers,  \* bound: answers the client gives
  MaxForms,    \* bound: forms staff open
  MaxExits     \* bound: exits of the process

(* What a push says: answers, whether submitted, the manifest; `given`     *)
(* counts the client's changes.                                            *)
Payload == [answers : [Paths -> 0 .. MaxAnswers], submitted : BOOLEAN,
            docs : SUBSET Files, given : 0 .. MaxAnswers]

CorrectionsAssumption ==
  /\ NoEdit \notin Staff /\ NoRow \notin Payload /\ IsFiniteSet(Paths) /\ IsFiniteSet(Files)
  /\ MaxAnswers \in Nat /\ MaxForms \in Nat /\ MaxExits \in Nat

VARIABLES
  client,     \* what the client has entered on the portal (external)
  pushes,     \* pushes on their way, in any order
  row,        \* portal_data and mirror_hash: the payload imported last
  submitted,  \* applications.submitted_at is set
  documents,  \* rows of documents taken from manifests
  columns,    \* the columns computed from the answers
  edits,      \* edits[p]: the value staff put in the place of the answer
  events,     \* what domain_events has on the file
  counts,     \* numbers of documents that were announced
  form,       \* form[u]: the form and the request of u
  forms, exits,
  torn,       \* ghost: a revert wrote columns of answers or edits since replaced, or none
  typed       \* ghost: paths staff have typed into

portalVars == <<client, pushes>>
mirrorVars == <<row, submitted, documents, events, counts>>
bounds == <<forms, exits>>
vars == <<portalVars, mirrorVars, columns, edits, form, bounds, torn, typed>>

Closed == [at |-> "closed"]

Init ==
  /\ client = [answers |-> [p \in Paths |-> 0], submitted |-> FALSE, docs |-> {}, given |-> 0]
  /\ pushes = {} /\ row = NoRow /\ submitted = FALSE /\ documents = {}
  /\ columns = [p \in Paths |-> 0] /\ edits = [p \in Paths |-> NoEdit] /\ events = {} /\ counts = {}
  /\ form = [u \in Staff |-> Closed] /\ forms = 0 /\ exits = 0
  /\ torn = FALSE /\ typed = {}

(* mergeAnswers.                                                           *)
Merge(answers, corrections) ==
  [p \in Paths |-> IF corrections[p] # NoEdit THEN corrections[p] ELSE answers[p]]
Shown == Merge(row.answers, edits)

-----------------------------------------------------------------------------
(* The portal (external): it pushes at every change, and sweeps.           *)

Change(next) ==
  /\ client.given < MaxAnswers /\ ~client.submitted
  /\ client' = [next EXCEPT !.given = @ + 1]
  /\ pushes' = pushes \cup {client'}
  /\ UNCHANGED <<mirrorVars, bounds, columns, edits, form, torn, typed>>

Answer(p) == Change([client EXCEPT !.answers[p] = client.given + 1])
Upload(f) == f \notin client.docs /\ Change([client EXCEPT !.docs = @ \cup {f}])
Submit == Change([client EXCEPT !.submitted = TRUE])

Lose(m) ==
  /\ pushes' = pushes \ {m}
  /\ UNCHANGED <<mirrorVars, bounds, client, columns, edits, form, torn, typed>>

-----------------------------------------------------------------------------
(* importMirrorPayload.                                                    *)

(* Fault: the short cut looks at the answers only.                         *)
SameAnswers(m) == row # NoRow /\ row.answers = m.answers

(* mirror_hash: the payload that arrived last is the one that arrives.     *)
Unchanged(m) == row = m

(* Fault: a file first seen when it is already submitted is not announced. *)
HeardLater(m) ==
  /\ events' = events \cup (IF row = NoRow THEN {"created"}
                          ELSE IF m.submitted THEN {"submitted"} ELSE {})
  /\ UNCHANGED counts

(* The events, keyed by what changed: a push that says it again adds none. *)
Heard(m) ==
  /\ events' = events \cup {"created"} \cup (IF m.submitted THEN {"submitted"} ELSE {})
  /\ counts' = IF row # NoRow /\ Cardinality(m.docs) > Cardinality(row.docs)
               THEN counts \cup {Cardinality(m.docs)} ELSE counts

(* syncDocumentManifest: a file once listed stays, whatever is listed now.  *)
WithManifest(m) == documents \cup m.docs

(* Fault: the corrections are not laid back over the columns.              *)
ImportAlone(m) ==
  IF Unchanged(m) THEN UNCHANGED <<mirrorVars, columns, torn>>
  ELSE /\ row' = m /\ submitted' = (submitted \/ m.submitted)
       /\ documents' = WithManifest(m) /\ Heard(m)
       /\ columns' = m.answers /\ torn' = FALSE

(* What staff corrected is laid over the columns again, in the push's own  *)
(* transaction; submitted_at and the documents never go back.              *)
Import(m) ==
  IF Unchanged(m) THEN UNCHANGED <<mirrorVars, columns, torn>>
  ELSE /\ row' = m /\ submitted' = (submitted \/ m.submitted)
       /\ documents' = WithManifest(m) /\ Heard(m)
       /\ columns' = Merge(m.answers, edits) /\ torn' = FALSE

(* The portal got no answer, and will send it again, or it got one.        *)
Deliver(m, again) ==
  /\ m \in pushes
  /\ Import(m)
  /\ pushes' = IF again THEN pushes ELSE pushes \ {m}
  /\ UNCHANGED <<bounds, client, edits, form, typed>>

Sweep ==
  /\ client.given > 0
  /\ Import(client)
  /\ UNCHANGED <<portalVars, bounds, edits, form, typed>>

-----------------------------------------------------------------------------
(* Staff: the form shows every answer; it is sent back whole.              *)

OpenForm(u) ==
  /\ form[u] = Closed /\ row # NoRow /\ forms < MaxForms
  /\ form' = [form EXCEPT ![u] = [at |-> "open", value |-> Shown]]
  /\ forms' = forms + 1
  /\ UNCHANGED <<portalVars, mirrorVars, columns, edits, exits, torn, typed>>

Type(u, p) ==
  /\ form[u].at = "open" /\ form[u].value[p] # u
  /\ form' = [form EXCEPT ![u].value[p] = u]
  /\ typed' = typed \cup {p}
  /\ UNCHANGED <<portalVars, mirrorVars, bounds, columns, edits, torn>>

(* saveSection reads the file and its corrections, outside a transaction.  *)
ReadBefore(u) ==
  /\ form[u].at = "open"
  /\ form' = [form EXCEPT ![u] = [at |-> "saving", value |-> form[u].value, before |-> Shown]]
  /\ UNCHANGED <<portalVars, mirrorVars, bounds, columns, edits, torn, typed>>

(* changedPaths: what differs from the answers as they were just read.     *)
ChangedPaths(u) == {p \in Paths : form[u].before[p] # form[u].value[p]}

Corrected(u) == [p \in Paths |-> IF p \in ChangedPaths(u) THEN form[u].value[p] ELSE edits[p]]

CommitSave(u) ==
  /\ form[u].at = "saving"
  /\ form' = [form EXCEPT ![u] = Closed]
  /\ IF ChangedPaths(u) = {} THEN UNCHANGED <<edits, columns, torn>>
     ELSE /\ edits' = Corrected(u)
          /\ columns' = Merge(row.answers, Corrected(u))
          /\ torn' = FALSE
  /\ UNCHANGED <<portalVars, mirrorVars, bounds, typed>>

(* revertPath: the correction is deleted, then the answers are read, then  *)
(* the corrections left, then the columns are written.                     *)
RevertDelete(u, p) ==
  /\ form[u].at = "open" /\ edits[p] # NoEdit
  /\ edits' = [edits EXCEPT ![p] = NoEdit]
  /\ form' = [form EXCEPT ![u] = [at |-> "reverting"]]
  /\ UNCHANGED <<portalVars, mirrorVars, bounds, columns, torn, typed>>

RevertReadAnswers(u) ==
  /\ form[u].at = "reverting"
  /\ form' = [form EXCEPT ![u] = [at |-> "answersRead", answers |-> row.answers]]
  /\ UNCHANGED <<portalVars, mirrorVars, bounds, columns, edits, torn, typed>>

RevertReadEdits(u) ==
  /\ form[u].at = "answersRead"
  /\ form' = [form EXCEPT ![u] = [at |-> "editsRead", merged |-> Merge(form[u].answers, edits)]]
  /\ UNCHANGED <<portalVars, mirrorVars, bounds, columns, edits, torn, typed>>

RevertWrite(u) ==
  /\ form[u].at = "editsRead"
  /\ columns' = form[u].merged
  /\ torn' = (form[u].merged # Shown)
  /\ form' = [form EXCEPT ![u] = Closed]
  /\ UNCHANGED <<portalVars, mirrorVars, bounds, edits, typed>>

Reverting == {u \in Staff : form[u].at \in {"reverting", "answersRead", "editsRead"}}

(* The process ends; so do the requests that had not committed.            *)
Exit ==
  /\ exits < MaxExits /\ exits' = exits + 1
  /\ form' = [u \in Staff |-> IF form[u].at = "open" THEN form[u] ELSE Closed]
  /\ torn' = (torn \/ Reverting # {})
  /\ UNCHANGED <<portalVars, mirrorVars, columns, edits, forms, typed>>

-----------------------------------------------------------------------------
Portal ==
  \/ \E p \in Paths : Answer(p)
  \/ \E f \in Files : Upload(f)
  \/ Submit
  \/ \E m \in pushes : Lose(m) \/ \E again \in BOOLEAN : Deliver(m, again)
  \/ Sweep

StaffStep(u) ==
  \/ OpenForm(u) \/ ReadBefore(u) \/ CommitSave(u)
  \/ RevertReadAnswers(u) \/ RevertReadEdits(u) \/ RevertWrite(u)
  \/ \E p \in Paths : Type(u, p) \/ RevertDelete(u, p)

Next == Portal \/ (\E u \in Staff : StaffStep(u)) \/ Exit

(* "The portal pushes immediately AND sweeps every thirty seconds"; a push *)
(* is not on its way for ever.                                             *)
Fairness ==
  /\ WF_vars(Sweep)
  /\ WF_vars(\E m \in pushes : Lose(m) \/ Deliver(m, FALSE))

Spec == Init /\ [][Next]_vars

-----------------------------------------------------------------------------
(* Properties.                                                             *)

TypeOK ==
  /\ row # NoRow => row.answers \in [Paths -> 0 .. MaxAnswers] /\ row.docs \subseteq documents
  /\ row = NoRow => edits = [p \in Paths |-> NoEdit] /\ events = {}
  /\ documents \subseteq client.docs
  /\ \A p \in Paths : columns[p] \in (0 .. MaxAnswers) \cup Staff /\ edits[p] \in
       (0 .. MaxAnswers) \cup Staff \cup {NoEdit}
  /\ \A u \in Staff : form[u].at \in
       {"closed", "open", "saving", "reverting", "answersRead", "editsRead"}

(* "The correction wins": however pushes are repeated, reordered and mixed *)
(* with saves, the columns the board sorts by say what the file shows,     *)
(* except while a correction is being taken back and where another write   *)
(* slipped into that or the process ended there; and the next push that    *)
(* says something new, or the next save, repairs it.                       *)
ColumnsAgree ==
  row # NoRow /\ ~torn /\ Reverting = {} => columns = Shown

(* A submission is announced once and for all, whichever of the pushes     *)
(* that know of it comes first and whatever older one comes later; and no  *)
(* number of documents is announced that the file never had.               *)
SubmittedIsHeard ==
  /\ submitted = ("submitted" \in events)
  /\ row # NoRow /\ row.submitted => submitted
  /\ row # NoRow => "created" \in events
  /\ counts \subseteq 1 .. Cardinality(documents)

(* When the client is done the file says what the client said, although an *)
(* older push may replace a newer one.                                     *)
MirrorCatchesUp == <>[](client.given > 0 => row = client)

-----------------------------------------------------------------------------
(* What the comments say and the code does not do.                         *)

(* application-form.ts:397 "A broker who opens a section, changes one      *)
(* field and saves has pinned one field": a form opened before a push      *)
(* sends the older answers back, and they are pinned with it.              *)
CorrectionsAreMade == \A p \in Paths : edits[p] # NoEdit => p \in typed
=============================================================================
