------------------------------ MODULE Documents ------------------------------
(***************************************************************************)
(* A request for documents and what comes in for it (src/services/         *)
(* document-requests.ts: markItemReceived, refreshOutstanding; the upload  *)
(* link of src/http/routes/public.ts; upload, review and cancellation of   *)
(* src/http/routes/documents.ts).                                          *)
(*                                                                         *)
(* An UPDATE whose new value is a sub-select takes the sub-select from the *)
(* snapshot of its beginning, even when it then waits for the row: it is   *)
(* two steps here, `judge` or `refresh` and the write.                     *)
(***************************************************************************)
EXTENDS Naturals, Sequences, FiniteSets

CONSTANTS
  Items,         \* document_request_items
  Required,      \* those the request waits for
  MaxUploads, MaxAsks, MaxExits     \* bounds

DocumentsAssumption ==
  /\ IsFiniteSet(Items) /\ Required \subseteq Items
  /\ {MaxUploads, MaxAsks, MaxExits} \subseteq Nat

VARIABLES
  request,    \* document_requests.status
  lapsed,     \* has expires_at passed?
  item,       \* document_request_items.status
  documents,  \* what they were sent in for, and how they were reviewed
  count,      \* applications.documents_outstanding
  doing,      \* the HTTP requests under way
  crossed,    \* did a count arrive that had been overtaken?
  asks, exits

vars == <<request, lapsed, item, documents, count, doing, crossed, asks, exits>>

NoItem == "no item"

(* `status` is what the statement under way will write, `number` the count *)
(* it read; `marks`: its transaction has changed the item's row; `holds`:  *)
(* and the request's.                                                      *)
Task(kind, i) == [kind |-> kind, nth |-> asks + 1, item |-> i, pc |-> "check", doc |-> 0,
                  status |-> "open", number |-> 0, marks |-> FALSE, holds |-> FALSE]

Outstanding(it) == {i \in Required : it[i] = "outstanding"}

(* refreshOutstanding's sub-select.                                        *)
Counted == IF request \in {"open", "partial"} THEN Cardinality(Outstanding(item)) ELSE 0

Init ==
  /\ request = "open" /\ lapsed = FALSE
  /\ item = [i \in Items |-> "outstanding"]
  /\ documents = <<>> /\ count = Counted
  /\ doing = {} /\ crossed = FALSE /\ asks = 0 /\ exits = 0

Becomes(t, u) == doing' = (doing \ {t}) \cup {u}
Goto(t, pc) == Becomes(t, [t EXCEPT !.pc = pc])
Over(t) == doing' = doing \ {t}

Begin(kind, i) ==
  /\ asks < MaxAsks /\ asks' = asks + 1
  /\ doing' = doing \cup {Task(kind, i)}
  /\ UNCHANGED <<request, lapsed, item, documents, count, crossed, exits>>

(* The transactions that have written to the item's row, or the request's. *)
ItemBusy(i) == \E t \in doing : t.item = i /\ t.marks
RequestBusy == \E t \in doing : t.holds

-----------------------------------------------------------------------------
(* Upload, by the client's link or by staff.                               *)

(* findByToken, long before the bytes are stored and scanned.              *)
CheckLink(t) ==
  /\ t.kind = "link" /\ t.pc = "check"
  /\ IF request = "cancelled" \/ lapsed THEN Over(t) ELSE Goto(t, "insert")
  /\ UNCHANGED <<request, lapsed, item, documents, count, crossed, asks, exits>>

CheckStaff(t) ==
  /\ t.kind = "staff" /\ t.pc = "check"
  /\ Goto(t, "insert")
  /\ UNCHANGED <<request, lapsed, item, documents, count, crossed, asks, exits>>

(* The document, and the item where it is still outstanding; what no item  *)
(* asked for marks none.                                                   *)
Insert(t) ==
  /\ t.pc = "insert" /\ Len(documents) < MaxUploads
  /\ IF t.item = NoItem THEN Goto(t, "commit")
     ELSE /\ ~ItemBusy(t.item)
          /\ Becomes(t, [t EXCEPT !.marks = item[t.item] = "outstanding", !.pc = "judge"])
  /\ UNCHANGED <<request, lapsed, item, documents, count, crossed, asks, exits>>

(* The items as the transaction sees them.                                 *)
Seen(t) == IF t.marks THEN [item EXCEPT ![t.item] = "received"] ELSE item

(* Fault: one item that has come in is enough.                             *)
VerdictOfOne(it) == "completed"

(* markItemReceived: optional items do not hold a request open.            *)
Verdict(it) ==
  IF Outstanding(it) = {} THEN "completed"
  ELSE IF \E i \in Items : it[i] # "outstanding" THEN "partial" ELSE "as it is"

Judge(t) ==
  /\ t.pc = "judge"
  /\ Becomes(t, [t EXCEPT !.status = Verdict(Seen(t)), !.pc = "write"])
  /\ UNCHANGED <<request, lapsed, item, documents, count, crossed, asks, exits>>

LockRequest(t) ==
  /\ t.pc = "write" /\ ~RequestBusy
  /\ Becomes(t, [t EXCEPT !.holds = TRUE, !.pc = "commit"])
  /\ UNCHANGED <<request, lapsed, item, documents, count, crossed, asks, exits>>

(* Whatever became of the request meanwhile.                               *)
CommitUpload(t) ==
  /\ t.pc = "commit"
  /\ documents' = Append(documents, [item |-> t.item, review |-> "pending"])
  /\ item' = Seen(t)
  /\ request' = IF t.holds /\ t.status # "as it is" THEN t.status ELSE request
  /\ Becomes(t, [t EXCEPT !.marks = FALSE, !.holds = FALSE, !.pc = "refresh"])
  /\ UNCHANGED <<lapsed, count, crossed, asks, exits>>

-----------------------------------------------------------------------------
(* Review: the document, then its item.                                    *)

ReviewDocument(t, d, verdict) ==
  /\ t.kind = "review" /\ t.pc = "check"
  /\ documents' = [documents EXCEPT ![d].review = verdict]
  /\ Becomes(t, [t EXCEPT !.doc = d, !.status = verdict,
                          !.pc = IF documents[d].item = NoItem THEN "refresh" ELSE "item"])
  /\ UNCHANGED <<request, lapsed, item, count, crossed, asks, exits>>

ReviewItem(t) ==
  /\ t.pc = "item" /\ ~ItemBusy(documents[t.doc].item)
  /\ item' = [item EXCEPT ![documents[t.doc].item] =
       CASE t.status = "accepted" -> "accepted"
         [] t.status = "rejected" -> "outstanding"
         [] OTHER -> "received"]
  /\ Goto(t, "refresh")
  /\ UNCHANGED <<request, lapsed, documents, count, crossed, asks, exits>>

-----------------------------------------------------------------------------
(* The request itself.                                                     *)

(* Fault: nothing is counted again.                                        *)
CancelOnly(t) ==
  /\ t.kind = "cancel" /\ t.pc = "check" /\ ~RequestBusy
  /\ request' = IF request \in {"open", "partial"} THEN "cancelled" ELSE request
  /\ Over(t)
  /\ UNCHANGED <<lapsed, item, documents, count, crossed, asks, exits>>

Cancel(t) ==
  /\ t.kind = "cancel" /\ t.pc = "check" /\ ~RequestBusy
  /\ IF request \in {"open", "partial"}
       THEN request' = "cancelled" /\ Goto(t, "refresh")
       ELSE Over(t) /\ UNCHANGED request
  /\ UNCHANGED <<lapsed, item, documents, count, crossed, asks, exits>>

(* The client opens the link; one that has lapsed is noted, and nothing is *)
(* counted again.                                                          *)
Open(t) ==
  /\ t.kind = "open" /\ t.pc = "check"
  /\ IF lapsed /\ request # "cancelled" THEN Goto(t, "expire") ELSE Over(t)
  /\ UNCHANGED <<request, lapsed, item, documents, count, crossed, asks, exits>>

Expire(t) ==
  /\ t.pc = "expire" /\ ~RequestBusy
  /\ request' = IF request # "completed" THEN "expired" ELSE request
  /\ Over(t)
  /\ UNCHANGED <<lapsed, item, documents, count, crossed, asks, exits>>

Lapse ==
  /\ ~lapsed /\ lapsed' = TRUE
  /\ UNCHANGED <<request, item, documents, count, doing, crossed, asks, exits>>

-----------------------------------------------------------------------------
(* refreshOutstanding.                                                     *)

ReadCount(t) ==
  /\ t.pc = "refresh"
  /\ Becomes(t, [t EXCEPT !.number = Counted, !.pc = "count"])
  /\ UNCHANGED <<request, lapsed, item, documents, count, crossed, asks, exits>>

(* Those that have changed what is counted, or will, and count after it.   *)
Owing(ts) == {t \in ts : t.pc \notin {"check", "insert", "expire"}}

WriteCount(t) ==
  /\ t.pc = "count"
  /\ count' = t.number
  /\ Over(t)
  /\ crossed' = (t.number # Counted /\ Owing(doing \ {t}) = {})
  /\ UNCHANGED <<request, lapsed, item, documents, asks, exits>>

(* A request ends where it is; its transaction is undone.                  *)
Exit ==
  /\ exits < MaxExits /\ exits' = exits + 1
  /\ doing # {} /\ doing' = {}
  /\ UNCHANGED <<request, lapsed, item, documents, count, crossed, asks>>

-----------------------------------------------------------------------------
Step(t) ==
  \/ CheckLink(t) \/ CheckStaff(t) \/ Insert(t) \/ Judge(t) \/ LockRequest(t)
  \/ CommitUpload(t)
  \/ \E d \in DOMAIN documents, v \in {"pending", "accepted", "rejected"} :
       ReviewDocument(t, d, v)
  \/ ReviewItem(t) \/ Cancel(t) \/ Open(t) \/ Expire(t) \/ ReadCount(t) \/ WriteCount(t)

Next ==
  \/ \E i \in Items \cup {NoItem} : Begin("link", i) \/ Begin("staff", i)
  \/ documents # <<>> /\ Begin("review", NoItem)
  \/ Begin("cancel", NoItem) \/ Begin("open", NoItem)
  \/ \E t \in doing : Step(t)
  \/ Lapse \/ Exit

Spec == Init /\ [][Next]_vars

-----------------------------------------------------------------------------
TypeOK ==
  /\ request \in {"open", "partial", "completed", "expired", "cancelled"}
  /\ item \in [Items -> {"outstanding", "received", "accepted"}]
  /\ documents \in Seq([item : Items \cup {NoItem},
                        review : {"pending", "accepted", "rejected"}])
  /\ count \in 0 .. Cardinality(Required)
  /\ \A t, u \in doing : t.holds /\ u.holds => t = u

(* document-requests.ts:274: a request is said to be complete only when a  *)
(* document has come in for everything it waits for, whichever uploads,    *)
(* reviews and cancellations cross.                                        *)
CompletedIsBacked ==
  request = "completed" =>
    \A i \in Required : \E d \in DOMAIN documents : documents[d].item = i

(* document-requests.ts:297, the count the list, the board and the alerts  *)
(* read: whoever changes what is counted counts it again afterwards, so it *)
(* is wrong for good only where a count was overtaken by an older one, a   *)
(* process ended in between, or a lapsed link was opened.                  *)
CountIsPutRight ==
  count = Counted \/ Owing(doing) # {} \/ crossed \/ exits > 0
  \/ (lapsed /\ request = "expired")

(* document-requests.ts:274, "complete when nothing required is            *)
(* outstanding".  Not so: of two uploads that commit together each judges  *)
(* by a snapshot without the other's item, and the request stays partial.  *)
CompleteWhenNothingIsOutstanding ==
  doing = {} /\ Outstanding(item) = {} => request \notin {"open", "partial"}

(* documents.ts:463: what is cancelled is not taken up again.  Not so: an  *)
(* upload that was let in before it writes its verdict over it.            *)
CancelledRequestStays == [][request = "cancelled" => request' = "cancelled"]_vars

(* documents.ts:343: a document sent back is asked for again.  Not so: the *)
(* request stays completed, which counts nothing.                          *)
RejectedIsCounted ==
  doing = {} /\ ~lapsed /\ Outstanding(item) # {} => request # "completed"
=============================================================================
