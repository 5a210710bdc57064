------------------------------ MODULE Inbound ------------------------------
(***************************************************************************)
(* Inbound texts: the VoIP.ms callback (src/http/routes/internal.ts),      *)
(* receiveInbound and applyKeyword (src/services/messaging.ts), and what   *)
(* they leave for the send gate, beside the staff actions that move a      *)
(* phone number or merge two records (src/services/customers.ts).          *)
(*                                                                         *)
(* Every text comes from one number.  The provider may deliver a callback  *)
(* again and may deliver two at once; each transaction is a step.          *)
(***************************************************************************)
EXTENDS Consent, FiniteSets

CONSTANTS
  FirstPhone,      \* FirstPhone[c]: the number c begins with
  DbErrors,        \* may a statement throw?
  StaffAtOnce,     \* requests of staff served at the same time
  MaxDeliveries,   \* bound: deliveries of one callback
  MaxEdits,        \* bound: edits and merges by staff
  MaxExits         \* bound: exits of the process

InboundAssumption ==
  /\ FirstPhone \in [Customers -> Phones \cup {NoPhone}]
  /\ DbErrors \in BOOLEAN
  /\ StaffAtOnce \in Nat /\ MaxDeliveries \in Nat
  /\ MaxEdits \in Nat /\ MaxExits \in Nat

VARIABLES
  said,          \* the client's texts, in the order they were written
  hook,          \* hook[e]: what webhook_events says of the callback
  stored,        \* stored[e]: rows of `messages` with this external id
  held,          \* held[e]: rows of `unmatched_messages` with it
  applied,       \* texts whose keyword has been applied
  tasks,         \* callbacks being handled
  asks,          \* staff's requests, read and not yet carried out
  deliveries, edits, exits

vars == <<phone, merged, said, hook, stored, held, consents, suppressions, applied,
          tasks, asks, deliveries, edits, exits>>

Task == [text : Texts, nth : Nat, customer : Customers \cup {Nobody},
         pc : {"store", "seen", "match", "hold", "attach", "keyword", "mark"}]

Ask == [op : {"phone"}, customer : Customers, to : Phones \cup {NoPhone}]
       \cup [op : {"merge"}, customer : Customers, to : Customers]

Init ==
  /\ phone = FirstPhone
  /\ merged = [c \in Customers |-> Nobody]
  /\ said = <<>>
  /\ hook = [e \in Texts |-> {}]
  /\ stored = [e \in Texts |-> 0]
  /\ held = [e \in Texts |-> 0]
  /\ consents = <<>>
  /\ suppressions = {}
  /\ applied = {}
  /\ tasks = {}
  /\ asks = {}
  /\ deliveries = [e \in Texts |-> 0]
  /\ edits = 0
  /\ exits = 0

records == <<phone, merged, asks, edits>>
inbox == <<hook, stored, held>>
opinion == <<consents, suppressions, applied>>

-----------------------------------------------------------------------------
(* The client writes; the provider calls, and calls again.                 *)

Says(e) ==
  /\ \A i \in 1..Len(said) : said[i] # e
  /\ said' = Append(said, e)
  /\ UNCHANGED <<records, inbox, opinion, tasks, deliveries, exits>>

Callback(e) ==
  /\ \E i \in 1..Len(said) : said[i] = e
  /\ deliveries[e] < MaxDeliveries
  /\ deliveries' = [deliveries EXCEPT ![e] = @ + 1]
  /\ tasks' = tasks \cup {[text |-> e, nth |-> deliveries[e], customer |-> Nobody,
                           pc |-> "store"]}
  /\ UNCHANGED <<records, said, inbox, opinion, exits>>

-----------------------------------------------------------------------------
(* The callback's handler.                                                 *)

Goto(t, pc) == tasks' = (tasks \ {t}) \cup {[t EXCEPT !.pc = pc]}
Answer(t) == tasks' = tasks \ {t}

StoreEvent(t) ==
  /\ t.pc = "store"
  /\ hook' = [hook EXCEPT ![t.text] = @ \cup {"stored"}]
  /\ Goto(t, "seen")
  /\ UNCHANGED <<records, said, stored, held, opinion, deliveries, exits>>

(* Only `messages` is looked at: a held text is not found.                 *)
LookForDuplicate(t) ==
  /\ t.pc = "seen"
  /\ Goto(t, IF stored[t.text] > 0 THEN "mark" ELSE "match")
  /\ UNCHANGED <<records, said, inbox, opinion, deliveries, exits>>

Matches == {c \in Customers : phone[c] = Sender /\ merged[c] = Nobody}

MatchCustomer(t) ==
  /\ t.pc = "match"
  /\ \/ /\ \A c \in Customers : Matches # {c}
        /\ Goto(t, "hold")
     \/ \E c \in Customers :
          /\ Matches = {c}
          /\ tasks' = (tasks \ {t}) \cup {[t EXCEPT !.customer = c, !.pc = "attach"]}
  /\ UNCHANGED <<records, said, inbox, opinion, deliveries, exits>>

HoldMessage(t) ==
  /\ t.pc = "hold"
  /\ held' = [held EXCEPT ![t.text] = @ + 1]
  /\ Goto(t, "mark")
  /\ UNCHANGED <<records, said, hook, stored, opinion, deliveries, exits>>

AttachMessage(t) ==
  /\ t.pc = "attach"
  /\ stored' = [stored EXCEPT ![t.text] = @ + 1]
  /\ Goto(t, IF t.text \in StopTexts \cup StartTexts THEN "keyword" ELSE "mark")
  /\ UNCHANGED <<records, said, hook, held, opinion, deliveries, exits>>

(* One live suppression per address: another customer's is left in place.  *)
Suppress(c) ==
  suppressions' = IF \E s \in suppressions : s.address = Sender THEN suppressions
                  ELSE suppressions \cup {[customer |-> c, address |-> Sender]}

Unsuppress(c) == suppressions' = {s \in suppressions : s.customer # c}

ApplyKeyword(t) ==
  /\ t.pc = "keyword"
  /\ IF t.text \in StopTexts THEN Suppress(t.customer) ELSE Unsuppress(t.customer)
  /\ consents' = Append(consents,
       [customer |-> t.customer, granted |-> t.text \in StartTexts, text |-> t.text])
  /\ applied' = applied \cup {t.text}
  /\ Goto(t, "mark")
  /\ UNCHANGED <<records, said, inbox, deliveries, exits>>

MarkProcessed(t) ==
  /\ t.pc = "mark"
  /\ hook' = [hook EXCEPT ![t.text] = @ \cup {"processed"}]
  /\ Answer(t)
  /\ UNCHANGED <<records, said, stored, held, opinion, deliveries, exits>>

(* A throw is caught, noted on the event and answered 200; before the      *)
(* event is stored it is answered 500.                                     *)
StatementThrows(t) ==
  /\ DbErrors
  /\ hook' = [hook EXCEPT ![t.text] = IF t.pc = "store" THEN @ ELSE @ \cup {"error"}]
  /\ Answer(t)
  /\ UNCHANGED <<records, said, stored, held, opinion, deliveries, exits>>

Crash ==
  /\ exits < MaxExits
  /\ tasks \cup asks # {}
  /\ exits' = exits + 1
  /\ tasks' = {} /\ asks' = {}
  /\ UNCHANGED <<phone, merged, edits, said, inbox, opinion, deliveries>>

-----------------------------------------------------------------------------
(* Staff.  A request reads the records first and changes them in a later   *)
(* transaction; what it was told is not looked at again.                   *)

Asks(op, c, to) ==
  /\ edits < MaxEdits
  /\ Cardinality(asks) < StaffAtOnce
  /\ edits' = edits + 1
  /\ asks' = asks \cup {[op |-> op, customer |-> c, to |-> to]}
  /\ UNCHANGED <<phone, merged, said, inbox, opinion, tasks, deliveries, exits>>

AskPhone(c, p) == merged[c] = Nobody /\ phone[c] # p /\ Asks("phone", c, p)

AskMerge(survivor, loser) ==
  /\ survivor # loser
  /\ merged[survivor] = Nobody /\ merged[loser] = Nobody
  /\ Asks("merge", loser, survivor)

ChangePhone(a) ==
  /\ a.op = "phone"
  /\ phone' = [phone EXCEPT ![a.customer] = a.to]
  /\ asks' = asks \ {a}
  /\ UNCHANGED <<merged, edits, said, inbox, opinion, tasks, deliveries, exits>>

(* For a mutant: it is left pointing at the loser.                         *)
LeftPointing(loser, survivor) == merged

(* What was merged into the loser follows it.                              *)
Repointed(loser, survivor) ==
  [c \in Customers |-> IF merged[c] = loser THEN survivor ELSE merged[c]]

(* Suppressions move, consents stay where they are, and a blank number is  *)
(* filled in.                                                              *)
Merge(a) ==
  LET survivor == a.to
      loser == a.customer
  IN  /\ a.op = "merge"
      /\ suppressions' =
           {[s EXCEPT !.customer = IF @ = loser THEN survivor ELSE @] : s \in suppressions}
      /\ phone' = [phone EXCEPT ![survivor] = IF @ = NoPhone THEN phone[loser] ELSE @]
      /\ merged' = [Repointed(loser, survivor) EXCEPT ![loser] = survivor]
      /\ asks' = asks \ {a}
      /\ UNCHANGED <<edits, said, inbox, consents, applied, tasks, deliveries, exits>>

-----------------------------------------------------------------------------
TaskStep(t) ==
  \/ StoreEvent(t) \/ LookForDuplicate(t) \/ MatchCustomer(t) \/ HoldMessage(t)
  \/ AttachMessage(t) \/ ApplyKeyword(t) \/ MarkProcessed(t) \/ StatementThrows(t)

Next ==
  \/ \E e \in Texts : Says(e) \/ Callback(e)
  \/ \E t \in tasks : TaskStep(t)
  \/ \E c \in Customers, p \in Phones \cup {NoPhone} : AskPhone(c, p)
  \/ \E s, l \in Customers : AskMerge(s, l)
  \/ \E a \in asks : ChangePhone(a) \/ Merge(a)
  \/ Crash

Spec == Init /\ [][Next]_vars

-----------------------------------------------------------------------------
(* Properties.                                                             *)

TypeOK ==
  /\ phone \in [Customers -> Phones \cup {NoPhone}]
  /\ merged \in [Customers -> Customers \cup {Nobody}]
  /\ said \in Seq(Texts)
  /\ hook \in [Texts -> SUBSET {"stored", "processed", "error"}]
  /\ stored \in [Texts -> Nat] /\ held \in [Texts -> Nat]
  /\ consents \in Seq([customer : Customers, granted : BOOLEAN, text : Texts])
  /\ suppressions \subseteq [customer : Customers, address : Phones]
  /\ applied \subseteq Texts
  /\ tasks \subseteq Task /\ asks \subseteq Ask
  /\ deliveries \in [Texts -> Nat] /\ edits \in Nat /\ exits \in Nat

-----------------------------------------------------------------------------
(* What the comments say and the code does not do.                         *)

(* internal.ts:200 "A callback that arrives and cannot be processed is a   *)
(* bug to fix, not an event to lose": an event marked processed whose text *)
(* is on a client's file has had its stop or start word applied.           *)
ProcessedMeansApplied ==
  \A e \in StopTexts \cup StartTexts :
    "processed" \in hook[e] /\ stored[e] > 0 /\ ~(\E t \in tasks : t.text = e)
      => e \in applied

(* messaging.ts:374 "The external id is what makes processing it           *)
(* idempotent."  A text that is held is held once.                          *)
HeldOnce == \A e \in Texts : held[e] <= 1

(* The same, for a text that is put on a client's file.                    *)
StoredOnce == \A e \in Texts : stored[e] <= 1

(* consent.ts:115 "Newest is by collection time, not insertion order": the *)
(* client's last keyword decides, once every text has been processed.      *)
LastWordWins ==
  LET words == {i \in 1..Len(said) : said[i] \in StopTexts \cup StartTexts}
      last == CHOOSE i \in words : \A k \in words : k <= i
  IN  /\ words # {}
      /\ tasks = {} /\ edits = 0
      /\ \A e \in Texts : "processed" \in hook[e]
      /\ said[last] \in StopTexts
      => \A c \in Customers : ~(phone[c] = Sender /\ MayText(c))

(* messaging.ts:549 "Texted START - marketing SMS consent restored".       *)
StartRestores ==
  \A c \in Customers, i \in 1..Len(consents) :
    /\ consents[i].text \in StartTexts
    /\ consents[i].customer = c /\ phone[c] = Sender /\ merged[c] = Nobody
    /\ i = Len(consents)
    => MayText(c)
=============================================================================
