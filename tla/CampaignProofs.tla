--------------------------- MODULE CampaignProofs ---------------------------
(***************************************************************************)
(* Proofs about Campaign, for any recipients, any batch, any number of     *)
(* requests at the same time, of chains and of exits.                      *)
(***************************************************************************)
EXTENDS Campaign, FiniteSetTheorems, TLAPS

-----------------------------------------------------------------------------
(* The row a batch is at.                                                  *)

(* Min of a set of rows is one of them, and the least: the order of the    *)
(* subsets {s \in S : s <= x} has a minimal one, and its x is the minimum. *)
LEMMA MinIsLeast ==
  ASSUME NEW S \in SUBSET Nat, IsFiniteSet(S), S # {}
  PROVE  Min(S) \in S /\ \A s \in S : Min(S) <= s
<1> DEFINE T == {{s \in S : s <= x} : x \in S}
<1>1. IsWellFoundedOn(StrictSubsetOrdering(S), SUBSET S)
  BY FS_StrictSubsetOrderingWellFounded, FS_FiniteSubsetsOfFinite, Zenon
<1>2. T \subseteq SUBSET S /\ T # {}
  OBVIOUS
<1>3. PICK B \in T : \A C \in T : <<C, B>> \notin StrictSubsetOrdering(S)
  <2> HIDE DEF T
  <2> QED
    BY <1>1, <1>2, WFMin, Zenon
<1>4. \A C \in T : ~(C \subseteq B /\ C # B)
  BY <1>2, <1>3 DEF StrictSubsetOrdering
<1>5. PICK m \in S : B = {s \in S : s <= m}
  OBVIOUS
<1>6. ASSUME NEW s \in S, ~(m <= s) PROVE FALSE
  <2>1. S \subseteq Nat /\ s < m
    BY <1>6
  <2>2. {r \in S : r <= s} \in T
    OBVIOUS
  <2>3. ASSUME NEW r \in S, r <= s PROVE r \in B
    <3>1. r \in Nat /\ s \in Nat /\ m \in Nat
      BY <2>1
    <3> QED
      BY <1>5, <2>1, <2>3, <3>1
  <2>4. m \in B /\ m \notin {r \in S : r <= s}
    BY <1>5, <2>1
  <2> QED
    BY <1>4, <2>2, <2>3, <2>4
<1>7. m \in S /\ \A s \in S : m <= s
  BY <1>6
<1> QED
  BY <1>7 DEF Min

(* A batch that is not empty is at one of its rows.                        *)
LEMMA AtIsInBatch ==
  ASSUME NEW t \in Run, t.batch # {}
  PROVE  At(t) \in t.batch /\ At(t) \in Recipients
<1>1. t.batch \subseteq Recipients
  BY DEF Run
<1>2. t.batch \subseteq Nat /\ IsFiniteSet(t.batch)
  BY <1>1, CampaignAssumption, FS_Subset
<1> QED
  BY <1>1, <1>2, MinIsLeast DEF At

(* A fetch that finds a pending row takes at least one.                    *)
LEMMA FetchTakesSome ==
  ASSUME Pending # {}
  PROVE  FirstPending # {}
<1>1. Pending \subseteq Nat /\ IsFiniteSet(Pending)
  BY CampaignAssumption, FS_Subset DEF Pending
<1>2. Min(Pending) \in Pending /\ \A s \in Pending : Min(Pending) <= s
  BY <1>1, MinIsLeast
<1>3. {s \in Pending : s < Min(Pending)} = {}
  <2>1. ASSUME NEW s \in Pending, s < Min(Pending) PROVE FALSE
    <3>1. s \in Nat /\ Min(Pending) \in Nat /\ Min(Pending) <= s
      BY <1>1, <1>2
    <3> QED
      BY <2>1, <3>1
  <2> QED
    BY <2>1
<1>4. Cardinality({s \in Pending : s < Min(Pending)}) < Batch
  BY <1>3, FS_EmptySet, CampaignAssumption
<1> QED
  BY <1>2, <1>4 DEF FirstPending

-----------------------------------------------------------------------------
(* Types.                                                                  *)

LEMMA PlantType ==
  ASSUME TypeOK, NEW own \in BOOLEAN, Plant(own)
  PROVE  job' \in [Jobs -> [state : {"free", "pending", "running"}, own : BOOLEAN,
                            attempts : Nat]]
BY DEF TypeOK, Plant

Places == {"status", "fetch", "complete", "gate", "record", "deliver", "note",
           "chain", "succeed", "throw"}

(* A run with one of its fields changed is a run, and the rest of it stays. *)
LEMMA RunFields ==
  ASSUME NEW t \in Run
  PROVE  /\ \A x \in Places : [t EXCEPT !.pc = x] \in Run
         /\ \A x \in SUBSET Recipients : [t EXCEPT !.batch = x] \in Run
         /\ \A x \in Nat : [t EXCEPT !.gen = x] \in Run
         /\ \A x \in Way : [t EXCEPT !.way = x] \in Run
         /\ \A x \in Outcome : [t EXCEPT !.out = x] \in Run
         /\ \A x \in {"own", "null", "blank"} : [t EXCEPT !.id = x] \in Run
BY DEF Run, Places

LEMMA ReplaceType ==
  ASSUME TypeOK, NEW t \in runs, NEW u \in Run, Replace(t, u)
  PROVE  runs' \subseteq Run
BY DEF TypeOK, Replace

LEMMA GotoType ==
  ASSUME TypeOK, NEW t \in runs, NEW pc \in Places, Goto(t, pc)
  PROVE  runs' \subseteq Run
<1>1. [t EXCEPT !.pc = pc] \in Run
  BY RunFields DEF TypeOK
<1> QED
  BY <1>1, ReplaceType DEF Goto

LEMMA NextRowType ==
  ASSUME TypeOK, NEW t \in runs, NextRow(t)
  PROVE  runs' \subseteq Run
<1> DEFINE rest == t.batch \ {At(t)}
           t1 == [t EXCEPT !.batch = rest]
           t2 == [t1 EXCEPT !.pc = IF rest = {} THEN "chain" ELSE "gate"]
           t3 == [t2 EXCEPT !.way = "none"]
           t4 == [t3 EXCEPT !.out = "none"]
           t5 == [t4 EXCEPT !.id = "own"]
<1>1. t \in Run /\ rest \subseteq Recipients
  BY DEF TypeOK, Run
<1>2. t1 \in Run
  BY <1>1, RunFields
<1>3. t2 \in Run
  <2> HIDE DEF t1
  <2> QED
    BY <1>2, RunFields DEF Places
<1>4. t3 \in Run
  <2> HIDE DEF t2
  <2> QED
    BY <1>3, RunFields DEF Way
<1>5. t4 \in Run
  <2> HIDE DEF t3
  <2> QED
    BY <1>4, RunFields DEF Outcome
<1>6. t5 \in Run
  <2> HIDE DEF t4
  <2> QED
    BY <1>5, RunFields
<1>7. Replace(t, t5)
  BY DEF NextRow
<1> QED
  BY <1>6, <1>7, ReplaceType

LEMMA DeliveredType ==
  ASSUME TypeOK, NEW r, NEW out \in Outcome, Delivered(r, out)
  PROVE  /\ msg' \in [Recipients -> {"none", "scheduled", "sending", "sent", "failed",
                                     "suppressed"}]
         /\ received' \in [Recipients -> Nat]
<1>1. out \in {"sent", "failed", "suppressed"}
  BY DEF Delivered
<1>2. CASE r \in Recipients
  <2>1. received[r] \in Nat /\ received[r] + 1 \in Nat
    BY <1>2 DEF TypeOK
  <2> QED
    BY <1>1, <1>2, <2>1 DEF Delivered, TypeOK
<1>3. CASE r \notin Recipients
  BY <1>1, <1>3 DEF Delivered, TypeOK
<1> QED
  BY <1>2, <1>3

LEMMA TakenUpType ==
  ASSUME TypeOK, NEW t \in runs, TakenUp(t)
  PROVE  afterPause' \in [Jobs -> Nat] /\ inHand' \subseteq Jobs /\ lost' \subseteq Cause
<1>1. t.job \in Jobs
  BY DEF TypeOK, Run
<1>2. afterPause[t.job] + 1 \in Nat
  BY <1>1 DEF TypeOK
<1> QED
  BY <1>1, <1>2 DEF TakenUp, TypeOK

LEMMA RunStepType ==
  ASSUME TypeOK, NEW t \in runs, RunStep(t)
  PROVE  TypeOK'
<1>0. t \in Run
  BY DEF TypeOK
<1>1. CASE ReadCampaign(t)
  BY <1>1, GotoType DEF Places, ReadCampaign, TypeOK, rows, messages, ghosts
<1>2. CASE FetchBatch(t)
  <2>1. FirstPending \subseteq Recipients
    BY DEF FirstPending, Pending
  <2>2. runs' \subseteq Run
    <3> DEFINE t1 == [t EXCEPT !.batch = FirstPending]
               t2 == [t1 EXCEPT !.gen = frozen]
               t3 == [t2 EXCEPT !.pc = IF Pending = {} THEN "complete" ELSE "gate"]
    <3>1. t1 \in Run
      BY <1>0, <2>1, RunFields
    <3>2. t2 \in Run
      <4> HIDE DEF t1
      <4> QED
        BY <3>1, RunFields DEF TypeOK
    <3>3. t3 \in Run
      <4> HIDE DEF t2
      <4> QED
        BY <3>2, RunFields DEF Places
    <3>4. Replace(t, t3)
      BY <1>2 DEF FetchBatch
    <3> QED
      BY <3>3, <3>4, ReplaceType
  <2> QED
    BY <1>2, <2>2 DEF FetchBatch, TypeOK, rows, messages, ghosts
<1>3. CASE Complete(t)
  BY <1>3, GotoType DEF Places, Complete, Watch, TypeOK, messages
<1>4. CASE SkipUnmergeable(t)
  <2>1. runs' \subseteq Run
    BY <1>4, NextRowType DEF SkipUnmergeable
  <2>2. afterPause' \in [Jobs -> Nat] /\ inHand' \subseteq Jobs /\ lost' \subseteq Cause
    BY <1>4, TakenUpType DEF SkipUnmergeable
  <2>3. rec' \in [Recipients -> {"none", "pending", "sent", "suppressed", "failed"}]
    BY <1>4 DEF SkipUnmergeable, WriteRow, TypeOK
  <2> QED
    BY <1>4, <2>1, <2>2, <2>3 DEF SkipUnmergeable, TypeOK, messages
<1>5. CASE ReadGate(t)
  <2>1. runs' \subseteq Run
    <3>1. PICK way \in Way : Replace(t, [t EXCEPT !.pc = "record", !.way = way])
      BY <1>5 DEF ReadGate, Way
    <3> DEFINE u == [t EXCEPT !.pc = "record"]
    <3>2. u \in Run
      BY <1>0, RunFields DEF Places
    <3>3. [u EXCEPT !.way = way] \in Run
      <4> HIDE DEF u
      <4> QED
        BY <3>2, RunFields
    <3> QED
      BY <3>1, <3>3, ReplaceType
  <2>2. afterPause' \in [Jobs -> Nat] /\ inHand' \subseteq Jobs /\ lost' \subseteq Cause
    BY <1>5, TakenUpType DEF ReadGate
  <2> QED
    BY <1>5, <2>1, <2>2 DEF ReadGate, TypeOK, rows, messages
<1>6. CASE RecordDuplicate(t)
  <2>1. runs' \subseteq Run
    BY <1>0, <1>6, ZenonT(40) DEF RecordDuplicate, Replace, TypeOK, Run, Outcome
  <2> QED
    BY <1>6, <2>1 DEF RecordDuplicate, TypeOK, rows, messages, ghosts
<1>7. CASE RecordNew(t)
  <2>1. runs' \subseteq Run
    <3> DEFINE u == [t EXCEPT !.pc = "note"]
    <3>1. u \in Run
      BY <1>0, RunFields DEF Places
    <3>2. \A out \in Outcome : [u EXCEPT !.out = out] \in Run
      <4> HIDE DEF u
      <4> QED
        BY <3>1, RunFields
    <3>3. \A out \in Outcome :
            Replace(t, [t EXCEPT !.pc = "note", !.out = out]) => runs' \subseteq Run
      BY <3>2, ReplaceType
    <3>4. Goto(t, "deliver") => runs' \subseteq Run
      BY GotoType DEF Places
    <3> QED
      BY <1>7, <3>3, <3>4 DEF RecordNew, Outcome
  <2> QED
    BY <1>7, <2>1 DEF RecordNew, Recorded, TypeOK, rows, ghosts
<1>8. CASE DeliverNow(t)
  <2>1. runs' \subseteq Run
    BY <1>0, <1>8, ZenonT(40) DEF DeliverNow, Replace, TypeOK, Run
  <2> QED
    BY <1>8, <2>1, DeliveredType DEF DeliverNow, TypeOK, rows, ghosts
<1>9. CASE NoteOutcome(t)
  <2>1. runs' \subseteq Run
    BY <1>9, GotoType, NextRowType DEF Places, NoteOutcome
  <2>2. t.out \in {"none", "sent", "suppressed", "failed"}
    BY <1>0 DEF Run, Outcome
  <2> QED
    BY <1>9, <2>1, <2>2 DEF NoteOutcome, WriteRow, TypeOK, messages, ghosts
<1>10. CASE EnqueueNextBatch(t)
  BY <1>10, GotoType, PlantType DEF Places, EnqueueNextBatch, TypeOK, rows, messages, ghosts
<1>11. CASE Settle(t)
  <2> DEFINE row == job[t.job]
             Row == [state : {"free", "pending", "running"}, own : BOOLEAN, attempts : Nat]
  <2>1. row \in Row /\ t.job \in Jobs
    BY <1>0 DEF Run, TypeOK
  <2>2. Free \in Row /\ [row EXCEPT !.state = "pending"] \in Row
    BY <2>1 DEF Free
  <2>3. job' = [job EXCEPT ![t.job] = Free]
          \/ job' = [job EXCEPT ![t.job] = [row EXCEPT !.state = "pending"]]
    BY <1>11, <2>1 DEF Settle, TypeOK
  <2>4. job' \in [Jobs -> Row]
    <3> HIDE DEF row
    <3> QED
      BY <2>1, <2>2, <2>3 DEF TypeOK
  <2>5. runs' = runs \ {t} /\ UNCHANGED <<rows, messages, requests, left, optedOut, inHand,
                                          afterPause, exits>>
    BY <1>11 DEF Settle
  <2>6. lost' \subseteq Cause
    BY <1>11 DEF Settle, TypeOK, Cause
  <2> HIDE DEF row
  <2> QED
    BY <2>4, <2>5, <2>6 DEF TypeOK, rows, messages
<1> QED
  BY <1>1, <1>2, <1>3, <1>4, <1>5, <1>6, <1>7, <1>8, <1>9, <1>10, <1>11 DEF RunStep

LEMMA RequestStepType ==
  ASSUME TypeOK, NEW q \in requests, RequestStep(q)
  PROVE  TypeOK'
<1>0. q \in Request
  BY DEF TypeOK
<1>1. \A pc \in {"asked", "write", "enqueue"} : Onward(q, pc) => requests' \subseteq Request
  BY <1>0 DEF Onward, TypeOK, Request
<1>2. Answer(q) => requests' \subseteq Request
  BY DEF Answer, TypeOK
<1>3. CASE BuildAudience(q)
  <2>1. requests' \subseteq Request
    <3>1. [q EXCEPT !.pc = "write"] \in Request
      BY <1>0 DEF Request
    <3>2. \A u \in Request, S \in SUBSET Recipients : [u EXCEPT !.saw = S] \in Request
      BY DEF Request
    <3>3. [q EXCEPT !.pc = "write", !.saw = Recipients \ optedOut] \in Request
      BY <3>1, <3>2
    <3> QED
      BY <1>3, <3>3 DEF BuildAudience, TypeOK
  <2> QED
    BY <1>3, <2>1 DEF BuildAudience, TypeOK, rows, messages, ghosts
<1>4. CASE FreezeAudience(q)
  BY <1>2, <1>4 DEF FreezeAudience, TypeOK, messages, ghosts
<1>5. CASE CountPending(q)
  BY <1>1, <1>2, <1>5 DEF CountPending, TypeOK, rows, messages, ghosts
<1>6. CASE MarkSending(q)
  BY <1>1, <1>6 DEF MarkSending, Watch, TypeOK, messages
<1>7. CASE EnqueueFirstBatch(q)
  <2>1. job' \in [Jobs -> [state : {"free", "pending", "running"}, own : BOOLEAN,
                            attempts : Nat]]
    BY <1>7, PlantType DEF EnqueueFirstBatch
  <2>2. lost' \subseteq Cause
    BY <1>7 DEF EnqueueFirstBatch, TypeOK, Cause
  <2> QED
    BY <1>2, <1>7, <2>1, <2>2 DEF EnqueueFirstBatch, TypeOK, rows, messages
<1>8. CASE Pause(q)
  <2>1. \A t \in runs : t.job \in Jobs
    BY DEF TypeOK, Run
  <2>2. inHand' \subseteq Jobs /\ afterPause' \in [Jobs -> Nat]
    BY <1>8, <2>1 DEF Pause, Watch
  <2> QED
    BY <1>2, <1>8, <2>2 DEF Pause, TypeOK, messages
<1> QED
  BY <1>3, <1>4, <1>5, <1>6, <1>7, <1>8 DEF RequestStep

LEMMA NextType ==
  ASSUME TypeOK, [Next]_vars
  PROVE  TypeOK'
<1>1. ASSUME NEW k \in Kinds, Ask(k) PROVE TypeOK'
  <2>1. [kind |-> k, n |-> left[k], pc |-> "asked", saw |-> {}] \in Request
    BY DEF TypeOK, Request
  <2>2. left' \in [Kinds -> Nat]
    BY <1>1 DEF Ask, TypeOK
  <2> QED
    BY <1>1, <2>1, <2>2 DEF Ask, TypeOK, rows, messages, ghosts
<1>2. ASSUME NEW q \in requests, RequestStep(q) PROVE TypeOK'
  BY <1>2, RequestStepType
<1>3. ASSUME NEW j \in Jobs, Claim(j) PROVE TypeOK'
  <2>1. [job |-> j, gen |-> 0, batch |-> {}, pc |-> "status",
         way |-> "none", out |-> "none", id |-> "own"] \in Run
    BY DEF Run, Way, Outcome
  <2> QED
    BY <1>3, <2>1 DEF Claim, TypeOK, rows, messages, ghosts
<1>4. ASSUME NEW j \in Jobs, Reclaim(j) PROVE TypeOK'
  BY <1>4 DEF Reclaim, TypeOK, rows, messages, ghosts
<1>5. ASSUME NEW t \in runs, RunStep(t) PROVE TypeOK'
  BY <1>5, RunStepType
<1>6. ASSUME NEW r \in Recipients, DeliverLater(r) PROVE TypeOK'
  BY <1>6, DeliveredType DEF DeliverLater, TypeOK, rows, ghosts
<1>7. ASSUME NEW r \in Recipients, Unsubscribe(r) PROVE TypeOK'
  BY <1>7 DEF Unsubscribe, TypeOK, rows, messages, ghosts
<1>8. CASE Exit
  <2>1. lost' \subseteq Cause
    BY <1>8 DEF Exit, TypeOK, Cause
  <2>2. exits \in Nat /\ exits' = exits + 1 /\ runs' = {} /\ requests' = {}
    BY <1>8 DEF Exit, TypeOK
  <2>3. UNCHANGED <<rows, messages, job, left, optedOut, inHand, afterPause>>
    BY <1>8 DEF Exit
  <2> QED
    BY <2>1, <2>2, <2>3 DEF TypeOK, rows, messages
<1>9. CASE UNCHANGED vars
  BY <1>9 DEF vars, TypeOK
<1> QED
  BY <1>1, <1>2, <1>3, <1>4, <1>5, <1>6, <1>7, <1>8, <1>9 DEF Next

(* The rows, the handlers and the requests keep their types.               *)
THEOREM TypeCorrect == Spec => []TypeOK
<1>1. Init => TypeOK
  BY CampaignAssumption DEF Init, TypeOK, Free
<1>2. TypeOK /\ [Next]_vars => TypeOK'
  BY NextType
<1> QED
  BY <1>1, <1>2, PTL DEF Spec

-----------------------------------------------------------------------------
(* What a step of a handler leaves of it.                                  *)

LEMMA GotoLeaves ==
  ASSUME TypeOK, NEW t \in runs, NEW pc \in Places, Goto(t, pc)
  PROVE  \E u \in Run : Replace(t, u) /\ u.pc = pc /\ u.batch = t.batch /\ u.id = t.id
                       /\ u.out = t.out /\ u.job = t.job
<1> DEFINE u == [t EXCEPT !.pc = pc]
<1>1. t \in Run
  BY DEF TypeOK
<1>2. u \in Run
  BY <1>1, RunFields
<1>3. u.pc = pc /\ u.batch = t.batch /\ u.id = t.id /\ u.out = t.out /\ u.job = t.job
  BY <1>1 DEF Run
<1>4. Replace(t, u)
  BY DEF Goto
<1> QED
  BY <1>2, <1>3, <1>4

LEMMA NextRowLeaves ==
  ASSUME TypeOK, NEW t \in runs, NextRow(t)
  PROVE  \E u : /\ Replace(t, u) /\ u.batch = t.batch \ {At(t)} /\ u.id = "own" /\ u.job = t.job
                /\ u.pc = IF u.batch = {} THEN "chain" ELSE "gate"
<1> DEFINE u == [t EXCEPT !.batch = t.batch \ {At(t)},
                          !.pc = IF t.batch \ {At(t)} = {} THEN "chain" ELSE "gate",
                          !.way = "none", !.out = "none", !.id = "own"]
<1>1. t \in Run
  BY DEF TypeOK
<1>2. /\ u.batch = t.batch \ {At(t)} /\ u.id = "own" /\ u.job = t.job
      /\ u.pc = IF u.batch = {} THEN "chain" ELSE "gate"
  BY <1>1 DEF Run
<1>3. Replace(t, u)
  BY DEF NextRow
<1> QED
  BY <1>2, <1>3

LEMMA FetchLeaves ==
  ASSUME TypeOK, NEW t \in runs, FetchBatch(t)
  PROVE  \E u : /\ Replace(t, u) /\ u.batch = FirstPending /\ u.id = t.id /\ u.job = t.job
                /\ u.pc = IF Pending = {} THEN "complete" ELSE "gate"
<1> DEFINE u == [t EXCEPT !.batch = FirstPending, !.gen = frozen,
                          !.pc = IF Pending = {} THEN "complete" ELSE "gate"]
<1>1. t \in Run
  BY DEF TypeOK
<1>2. /\ u.batch = FirstPending /\ u.id = t.id /\ u.job = t.job
      /\ u.pc = IF Pending = {} THEN "complete" ELSE "gate"
  BY <1>1 DEF Run
<1>3. Replace(t, u)
  BY DEF FetchBatch
<1> QED
  BY <1>2, <1>3

LEMMA ReadGateLeaves ==
  ASSUME TypeOK, NEW t \in runs, ReadGate(t)
  PROVE  \E u : Replace(t, u) /\ u.batch = t.batch /\ u.id = t.id /\ u.pc = "record" /\ u.job = t.job
<1>1. PICK way : Replace(t, [t EXCEPT !.pc = "record", !.way = way])
  BY DEF ReadGate
<1> DEFINE u == [t EXCEPT !.pc = "record", !.way = way]
<1>2. t \in Run
  BY DEF TypeOK
<1>3. u.batch = t.batch /\ u.id = t.id /\ u.pc = "record" /\ u.job = t.job
  BY <1>2 DEF Run
<1> QED
  BY <1>1, <1>3

Noted(t, out) == [t EXCEPT !.pc = "note", !.out = out]

LEMMA NoteLeaves ==
  ASSUME TypeOK, NEW t \in runs, NEW out
  PROVE  /\ Noted(t, out).batch = t.batch /\ Noted(t, out).id = t.id
         /\ Noted(t, out).job = t.job
         /\ Noted(t, out).pc = "note" /\ Noted(t, out).out = out
<1>1. t \in Run
  BY DEF TypeOK
<1> QED
  BY <1>1 DEF Run, Noted

LEMMA DuplicateLeaves ==
  ASSUME TypeOK, NEW t \in runs, RecordDuplicate(t)
  PROVE  \E u : /\ Replace(t, u) /\ u.batch = t.batch /\ u.pc = "note" /\ u.job = t.job
                /\ u.out = "suppressed" => u.id = "blank"
<1> DEFINE u == [t EXCEPT !.pc = "note",
                          !.out = IF t.way = "refused" THEN "suppressed" ELSE "sent",
                          !.id = IF t.way = "now" THEN "null" ELSE "blank"]
<1>1. t \in Run
  BY DEF TypeOK
<1>2. /\ u.batch = t.batch /\ u.pc = "note" /\ u.job = t.job
      /\ u.out = "suppressed" => u.id = "blank"
  BY <1>1 DEF Run
<1>3. Replace(t, u)
  BY DEF RecordDuplicate
<1> QED
  BY <1>2, <1>3

(* What a message recorded now leaves: it is held back, put off, or taken  *)
(* in hand.                                                                *)
LEMMA RecordLeaves ==
  ASSUME TypeOK, NEW t \in runs, RecordNew(t)
  PROVE  \E u : /\ Replace(t, u) /\ u.batch = t.batch /\ u.id = t.id /\ u.job = t.job
                /\ \/ Recorded(t, "suppressed") /\ u.pc = "note"
                   \/ Recorded(t, "scheduled") /\ u.pc = "note" /\ u.out = "sent"
                   \/ Recorded(t, "sending") /\ u.pc = "deliver"
<1>1. CASE Recorded(t, "suppressed") /\ Replace(t, Noted(t, "suppressed"))
  BY <1>1, NoteLeaves
<1>2. CASE Recorded(t, "scheduled") /\ Replace(t, Noted(t, "sent"))
  BY <1>2, NoteLeaves
<1>3. CASE Recorded(t, "sending") /\ Goto(t, "deliver")
  BY <1>3, GotoLeaves DEF Places
<1> QED
  BY <1>1, <1>2, <1>3 DEF RecordNew, Noted

-----------------------------------------------------------------------------
(* What the provider was given.                                            *)

(* A message is in the hands of one handler at most while it is being sent,
   and before the provider has taken it; it is marked as sent for good once
   it has.                                                                 *)
HeldByOne ==
  \A r \in Recipients : \A t, u \in runs :
    t.pc = "deliver" /\ u.pc = "deliver" /\ At(t) = r /\ At(u) = r => t = u

SendingIsHeld ==
  \A r \in Recipients : \A t \in runs :
    t.pc = "deliver" /\ At(t) = r => msg[r] = "sending" /\ received[r] = 0

ReceivedIsSent == \A r \in Recipients : received[r] > 0 => msg[r] = "sent"

DeliveryInv == TypeOK /\ HeldByOne /\ SendingIsHeld /\ ReceivedIsSent /\ OncePerRecipient

(* A step that gives no handler a message and touches none.                *)
Quiet ==
  /\ UNCHANGED messages
  /\ \A u \in runs' : u.pc = "deliver" => u \in runs

DeliveryPart == HeldByOne /\ SendingIsHeld /\ ReceivedIsSent /\ OncePerRecipient

LEMMA QuietKeeps ==
  ASSUME DeliveryInv, Quiet
  PROVE  DeliveryPart'
<1>1. HeldByOne'
  BY DEF DeliveryInv, Quiet, HeldByOne
<1>2. SendingIsHeld' /\ ReceivedIsSent' /\ OncePerRecipient'
  BY DEF DeliveryInv, Quiet, SendingIsHeld, ReceivedIsSent, OncePerRecipient, messages
<1> QED
  BY <1>1, <1>2 DEF DeliveryPart

LEMMA QuietRun ==
  ASSUME TypeOK, NEW t \in runs,
         \/ ReadCampaign(t) \/ FetchBatch(t) \/ Complete(t) \/ SkipUnmergeable(t)
         \/ ReadGate(t) \/ RecordDuplicate(t) \/ NoteOutcome(t)
         \/ EnqueueNextBatch(t) \/ Settle(t)
  PROVE  Quiet
<1>1. ASSUME NEW u, Replace(t, u), u.pc # "deliver", UNCHANGED messages PROVE Quiet
  BY <1>1 DEF Replace, Quiet
<1>2. CASE ReadCampaign(t)
  BY <1>1, <1>2, GotoLeaves DEF ReadCampaign, Places
<1>3. CASE FetchBatch(t)
  <2>1. UNCHANGED messages
    BY <1>3 DEF FetchBatch
  <2> QED
    BY <1>1, <1>3, <2>1, FetchLeaves
<1>4. CASE Complete(t)
  BY <1>1, <1>4, GotoLeaves DEF Complete, Places
<1>5. CASE SkipUnmergeable(t)
  BY <1>1, <1>5, NextRowLeaves DEF SkipUnmergeable
<1>6. CASE ReadGate(t)
  <2>1. UNCHANGED messages
    BY <1>6 DEF ReadGate
  <2> QED
    BY <1>1, <1>6, <2>1, ReadGateLeaves
<1>7. CASE RecordDuplicate(t)
  <2>1. UNCHANGED messages
    BY <1>7 DEF RecordDuplicate
  <2> QED
    <3>1. PICK u : Replace(t, u) /\ u.pc = "note"
      BY <1>7, DuplicateLeaves
    <3> QED
      BY <1>1, <2>1, <3>1
<1>8. CASE NoteOutcome(t)
  BY <1>1, <1>8, NextRowLeaves, GotoLeaves DEF NoteOutcome, Places
<1>9. CASE EnqueueNextBatch(t)
  BY <1>1, <1>9, GotoLeaves DEF EnqueueNextBatch, Places
<1>10. CASE Settle(t)
  BY <1>10 DEF Settle, Quiet
<1> QED
  BY <1>2, <1>3, <1>4, <1>5, <1>6, <1>7, <1>8, <1>9, <1>10

(* Only a message that is not there is recorded, so that nobody holds it.  *)
LEMMA RecordKeeps ==
  ASSUME DeliveryInv, NEW t \in runs, RecordNew(t)
  PROVE  DeliveryPart'
<1>1. PICK u : /\ Replace(t, u) /\ u.batch = t.batch
               /\ \/ u.pc = "note"
                  \/ Recorded(t, "sending") /\ u.pc = "deliver"
  BY RecordLeaves DEF DeliveryInv
<1>2. At(u) = At(t) /\ msg[At(t)] = "none"
  BY <1>1 DEF At, RecordNew
<1>3. /\ received' = received
      /\ \A r \in Recipients : r # At(t) => msg'[r] = msg[r]
  BY DEF RecordNew, Recorded, DeliveryInv, TypeOK
<1>4. At(t) \in Recipients =>
        received[At(t)] = 0 /\ ~\E v \in runs : v.pc = "deliver" /\ At(v) = At(t)
  BY <1>2 DEF DeliveryInv, ReceivedIsSent, SendingIsHeld, TypeOK
<1>5. \A v \in runs' : v.pc = "deliver" => v \in runs \/ v = u
  BY <1>1 DEF Replace
<1>6. HeldByOne'
  BY <1>2, <1>4, <1>5 DEF HeldByOne, DeliveryInv, At
<1>7. SendingIsHeld'
  <2> SUFFICES ASSUME NEW r \in Recipients, NEW v \in runs', v.pc = "deliver", At(v) = r
               PROVE  msg'[r] = "sending" /\ received'[r] = 0
    BY DEF SendingIsHeld, At
  <2>1. CASE v = u
    <3>1. Recorded(t, "sending") /\ r = At(t)
      BY <1>1, <1>2, <2>1
    <3> QED
      BY <1>3, <1>4, <3>1 DEF Recorded, DeliveryInv, TypeOK
  <2>2. CASE v \in runs
    BY <1>3, <1>4, <2>2 DEF DeliveryInv, SendingIsHeld
  <2> QED
    BY <1>5, <2>1, <2>2
<1>8. ReceivedIsSent' /\ OncePerRecipient'
  BY <1>3, <1>4 DEF ReceivedIsSent, OncePerRecipient, DeliveryInv, TypeOK
<1> QED
  BY <1>6, <1>7, <1>8 DEF DeliveryPart

(* The provider takes a message it was not given, from whoever alone holds *)
(* it, or from its own job, of which there is no handler in the loop.      *)
LEMMA GivenOnce ==
  ASSUME DeliveryInv, NEW r \in Recipients, NEW out \in Outcome, Delivered(r, out),
         received[r] = 0,
         \A u \in runs' : u.pc = "deliver" => u \in runs /\ At(u) # r
  PROVE  DeliveryPart'
<1>1. /\ \A s \in Recipients : s # r => msg'[s] = msg[s] /\ received'[s] = received[s]
      /\ received'[r] \in {0, 1} /\ (received'[r] = 1 => msg'[r] = "sent")
  BY DEF Delivered, DeliveryInv, TypeOK
<1>2. HeldByOne' /\ SendingIsHeld'
  BY <1>1 DEF HeldByOne, SendingIsHeld, DeliveryInv, At
<1>3. ReceivedIsSent' /\ OncePerRecipient'
  BY <1>1 DEF ReceivedIsSent, OncePerRecipient, DeliveryInv
<1> QED
  BY <1>2, <1>3 DEF DeliveryPart

LEMMA DeliveryNext ==
  ASSUME DeliveryInv, [Next]_vars
  PROVE  DeliveryInv'
<1>1. TypeOK'
  BY NextType DEF DeliveryInv
<1>2. ASSUME NEW k \in Kinds, Ask(k) PROVE Quiet
  BY <1>2 DEF Ask, Quiet
<1>3. ASSUME NEW q \in requests, RequestStep(q) PROVE Quiet
  BY <1>3 DEF RequestStep, BuildAudience, FreezeAudience, CountPending, MarkSending,
     EnqueueFirstBatch, Pause, Quiet
<1>4. ASSUME NEW j \in Jobs, Claim(j) \/ Reclaim(j) PROVE Quiet
  BY <1>4 DEF Claim, Reclaim, Quiet
<1>5. ASSUME NEW r \in Recipients, Unsubscribe(r) PROVE Quiet
  BY <1>5 DEF Unsubscribe, Quiet
<1>6. Exit => Quiet
  BY DEF Exit, Quiet
<1>7. UNCHANGED vars => Quiet
  BY DEF vars, Quiet, messages
<1>8. ASSUME NEW t \in runs, RunStep(t) PROVE DeliveryPart'
  <2>1. CASE RecordNew(t)
    BY <2>1, RecordKeeps
  <2>2. CASE DeliverNow(t)
    <3>1. PICK out \in Outcome :
            Delivered(At(t), out) /\ Replace(t, Noted(t, out))
      BY <2>2 DEF DeliverNow, Noted
    <3>2. PICK u : Replace(t, u) /\ u.pc = "note"
      BY <3>1, NoteLeaves DEF DeliveryInv
    <3>3. \A v \in runs' : v.pc = "deliver" => v \in runs /\ v # t
      BY <2>2, <3>2 DEF Replace
    <3>4. CASE At(t) \in Recipients
      <4>1. received[At(t)] = 0
        BY <2>2, <3>4 DEF DeliverNow, DeliveryInv, SendingIsHeld
      <4>2. \A v \in runs' : v.pc = "deliver" => v \in runs /\ At(v) # At(t)
        BY <2>2, <3>3, <3>4 DEF DeliverNow, DeliveryInv, HeldByOne
      <4> QED
        BY <3>1, <3>4, <4>1, <4>2, GivenOnce
    <3>5. CASE At(t) \notin Recipients
      <4>1. UNCHANGED messages
        BY <3>1, <3>5 DEF Delivered, messages, DeliveryInv, TypeOK
      <4> QED
        BY <3>3, <4>1, QuietKeeps DEF Quiet
    <3> QED
      BY <3>4, <3>5
  <2>3. CASE ~RecordNew(t) /\ ~DeliverNow(t)
    <3>1. Quiet
      BY <1>8, <2>3, QuietRun DEF RunStep, DeliveryInv
    <3> QED
      BY <3>1, QuietKeeps
  <2> QED
    BY <2>1, <2>2, <2>3
<1>9. ASSUME NEW r \in Recipients, DeliverLater(r) PROVE DeliveryPart'
  <2>1. received[r] = 0 /\ \A u \in runs : u.pc = "deliver" => At(u) # r
    BY <1>9 DEF DeliverLater, DeliveryInv, ReceivedIsSent, SendingIsHeld, TypeOK
  <2>2. runs' = runs /\ \E out \in Outcome : Delivered(r, out)
    BY <1>9 DEF DeliverLater
  <2> QED
    BY <2>1, <2>2, GivenOnce
<1>10. DeliveryPart'
  <2>1. Quiet => DeliveryPart'
    BY QuietKeeps
  <2> QED
    BY <1>2, <1>3, <1>4, <1>5, <1>6, <1>7, <1>8, <1>9, <2>1 DEF Next
<1> QED
  BY <1>1, <1>10 DEF DeliveryInv, DeliveryPart

(* Each client gets the campaign at most once, however many chains walk    *)
(* the rows, batches are begun again and messages are delivered later.     *)
THEOREM ReceivedOnce == Spec => []OncePerRecipient
<1>1. Init => DeliveryInv
  BY CampaignAssumption DEF Init, TypeOK, Free, DeliveryInv, HeldByOne, SendingIsHeld,
     ReceivedIsSent, OncePerRecipient
<1>2. DeliveryInv /\ [Next]_vars => DeliveryInv'
  BY DeliveryNext
<1>3. DeliveryInv => OncePerRecipient
  BY DEF DeliveryInv
<1> QED
  BY <1>1, <1>2, <1>3, PTL DEF Spec

-----------------------------------------------------------------------------
(* What the rows say, of an audience that is fixed once sending begins.    *)

(* Until then there is no handler, no job and no message.                  *)
NotBegun ==
  status = "draft" =>
    /\ runs = {} /\ \A j \in Jobs : job[j].state = "free"
    /\ \A q \in requests : q.kind \in {"audience", "send"} /\ q.pc # "enqueue"
    /\ \A r \in Recipients : msg[r] = "none"

(* A handler is at a row, from the gate on at one that can be merged; its  *)
(* answer that the client was held back is of a message that is            *)
(* suppressed, unless it cannot be written; and it completes the campaign  *)
(* when no row is left.                                                    *)
RunIsTrue(t) ==
  /\ t.pc \in {"gate", "record", "deliver", "note"} => t.batch # {}
  /\ t.pc \in {"record", "deliver", "note"} => At(t) \notin Unmergeable
  /\ t.pc \in {"status", "fetch", "gate", "record", "deliver"} => t.id = "own"
  /\ t.pc = "note" /\ t.out = "suppressed" /\ t.id # "blank" => msg[At(t)] = "suppressed"
  /\ t.pc = "complete" => Pending = {}

UnmergeableGetsNone == \A r \in Unmergeable : msg[r] = "none"

(* A row is held back for good: it has nothing to merge, its message is    *)
(* suppressed, or it never was pending and no batch holds it.              *)
HeldBackForGood ==
  \A r \in Recipients : rec[r] = "suppressed" =>
    \/ r \in Unmergeable
    \/ msg[r] = "suppressed"
    \/ msg[r] = "none" /\ \A t \in runs : r \notin t.batch

TruthPart ==
  /\ NotBegun /\ UnmergeableGetsNone /\ HeldBackForGood /\ CompletedMeansWalked
  /\ \A t \in runs : RunIsTrue(t)

TruthInv == DeliveryInv /\ TruthPart

(* A step of a campaign that has begun keeps all of this when the handler  *)
(* it leaves is true and holds rows that were held or pending; when no row *)
(* becomes pending, and one becomes held back only for good; and when no   *)
(* message of a row that is held back for good is written.                 *)
LEMMA TruthKept ==
  ASSUME TruthInv, status # "draft",
         status' = status \/ (status' = "completed" /\ Pending = {}) \/ status' \in {"sending", "paused"},
         Pending' \subseteq Pending,
         \A t \in runs' :
           \/ t \in runs
           \/ RunIsTrue(t)' /\ (t.batch \subseteq Pending \/ \E u \in runs : t.batch \subseteq u.batch),
         \A r \in Recipients : rec'[r] = "suppressed" =>
           rec[r] = "suppressed" \/ r \in Unmergeable \/ msg'[r] = "suppressed",
         \A r \in Recipients :
           \/ msg'[r] = msg[r]
           \/ /\ msg[r] # "suppressed" /\ r \notin Unmergeable
              /\ msg[r] # "none" \/ \E u \in runs : r \in u.batch
  PROVE  TruthPart'
<1>1. NotBegun'
  BY DEF NotBegun
<1>2. UnmergeableGetsNone'
  BY CampaignAssumption DEF UnmergeableGetsNone, TruthInv, TruthPart
<1>3. HeldBackForGood'
  <2> SUFFICES ASSUME NEW r \in Recipients, rec'[r] = "suppressed", r \notin Unmergeable,
                      msg'[r] # "suppressed"
               PROVE  msg'[r] = "none" /\ \A t \in runs' : r \notin t.batch
    BY DEF HeldBackForGood
  <2>1. rec[r] = "suppressed"
    OBVIOUS
  <2>2. msg[r] = "none" /\ \A t \in runs : r \notin t.batch
    BY <2>1 DEF TruthInv, TruthPart, HeldBackForGood
  <2>3. r \notin Pending
    BY <2>1 DEF Pending
  <2> QED
    BY <2>2, <2>3
<1>4. CompletedMeansWalked'
  BY DEF CompletedMeansWalked, TruthInv, TruthPart
<1>5. \A t \in runs : RunIsTrue(t)'
  <2> SUFFICES ASSUME NEW t \in runs PROVE RunIsTrue(t)'
    OBVIOUS
  <2>1. RunIsTrue(t) /\ t \in Run
    BY DEF TruthInv, TruthPart, DeliveryInv, TypeOK
  <2>2. t.pc = "note" => At(t) \in Recipients
    BY <2>1, AtIsInBatch DEF RunIsTrue
  <2> QED
    BY <2>1, <2>2 DEF RunIsTrue, At
<1> QED
  BY <1>1, <1>2, <1>3, <1>4, <1>5 DEF TruthPart

(* A row that is written is no longer pending.                             *)
LEMMA WrittenRow ==
  ASSUME TypeOK, NEW t \in runs, NEW value \in Outcome, WriteRow(t, value)
  PROVE  /\ Pending' \subseteq Pending
         /\ \A r \in Recipients : rec'[r] = rec[r] \/ (r = At(t) /\ rec'[r] = value)
BY DEF WriteRow, Pending, Outcome, TypeOK

LEMMA TruthRun ==
  ASSUME TruthInv, NEW t \in runs, RunStep(t)
  PROVE  TruthPart'
<1>0. /\ TypeOK /\ t \in Run /\ RunIsTrue(t)
      /\ status # "draft"
  BY DEF TruthInv, TruthPart, DeliveryInv, TypeOK, NotBegun
<1>1. t.batch # {} => At(t) \in t.batch /\ At(t) \in Recipients
  BY <1>0, AtIsInBatch
(* What is left of t, where no row and no message is written.              *)
<1>2. ASSUME NEW u, Replace(t, u), UNCHANGED <<rec, msg>>,
             status' = status \/ (status' = "completed" /\ Pending = {}),
             RunIsTrue(u), u.batch \subseteq Pending \/ u.batch \subseteq t.batch
      PROVE  TruthPart'
  <2>1. Pending' = Pending
    BY <1>2 DEF Pending
  <2>2. RunIsTrue(u)'
    BY <1>2, <2>1 DEF RunIsTrue, At
  <2> QED
    BY <1>0, <1>2, <2>1, <2>2, TruthKept DEF Replace
(* ... and where the loop goes to its next row.                            *)
<1>3. ASSUME NextRow(t), UNCHANGED <<status, msg>>, Pending' \subseteq Pending,
             \A r \in Recipients : rec'[r] = "suppressed" =>
               rec[r] = "suppressed" \/ r \in Unmergeable \/ msg'[r] = "suppressed"
      PROVE  TruthPart'
  <2>1. PICK u : /\ Replace(t, u) /\ u.batch = t.batch \ {At(t)} /\ u.id = "own"
                 /\ u.pc = IF u.batch = {} THEN "chain" ELSE "gate"
    BY <1>0, <1>3, NextRowLeaves
  <2>2. RunIsTrue(u)'
    BY <2>1 DEF RunIsTrue
  <2> QED
    BY <1>0, <1>3, <2>1, <2>2, TruthKept DEF Replace
<1>4. CASE ReadCampaign(t)
  <2>1. PICK u : Replace(t, u) /\ u.pc \in {"fetch", "succeed"} /\ u.batch = t.batch
                 /\ u.id = t.id
    BY <1>0, <1>4, GotoLeaves DEF ReadCampaign, Places
  <2>2. RunIsTrue(u)
    BY <1>0, <1>4, <2>1 DEF RunIsTrue, ReadCampaign
  <2> QED
    BY <1>2, <1>4, <2>1, <2>2 DEF ReadCampaign, rows, messages
<1>5. CASE FetchBatch(t)
  <2>1. PICK u : /\ Replace(t, u) /\ u.batch = FirstPending /\ u.id = t.id
                 /\ u.pc = IF Pending = {} THEN "complete" ELSE "gate"
    BY <1>0, <1>5, FetchLeaves
  <2>2. u.id = "own"
    BY <1>0, <1>5, <2>1 DEF RunIsTrue, FetchBatch
  <2>3. RunIsTrue(u)
    BY <2>1, <2>2, FetchTakesSome DEF RunIsTrue
  <2>4. u.batch \subseteq Pending
    BY <2>1 DEF FirstPending
  <2> QED
    BY <1>2, <1>5, <2>1, <2>3, <2>4 DEF FetchBatch, rows, messages
<1>6. CASE Complete(t)
  <2>1. PICK u : Replace(t, u) /\ u.pc = "succeed" /\ u.batch = t.batch
    BY <1>0, <1>6, GotoLeaves DEF Complete, Places
  <2>2. Pending = {} /\ RunIsTrue(u)
    BY <1>0, <1>6, <2>1 DEF RunIsTrue, Complete
  <2> QED
    BY <1>2, <1>6, <2>1, <2>2 DEF Complete, messages
<1>7. CASE SkipUnmergeable(t)
  <2>1. Pending' \subseteq Pending
        /\ \A r \in Recipients : rec'[r] = rec[r] \/ r \in Unmergeable
    BY <1>0, <1>7, WrittenRow DEF SkipUnmergeable, Outcome
  <2> QED
    BY <1>3, <1>7, <2>1 DEF SkipUnmergeable, messages
<1>8. CASE ReadGate(t)
  <2>1. PICK u : Replace(t, u) /\ u.batch = t.batch /\ u.id = t.id /\ u.pc = "record"
    BY <1>0, <1>8, ReadGateLeaves
  <2>2. RunIsTrue(u)
    BY <1>0, <1>8, <2>1 DEF RunIsTrue, ReadGate, At
  <2> QED
    BY <1>2, <1>8, <2>1, <2>2 DEF ReadGate, rows, messages
<1>9. CASE RecordDuplicate(t)
  <2>1. PICK u : /\ Replace(t, u) /\ u.batch = t.batch /\ u.pc = "note"
                 /\ u.out = "suppressed" => u.id = "blank"
    BY <1>0, <1>9, DuplicateLeaves
  <2>2. RunIsTrue(u)
    BY <1>0, <1>9, <2>1 DEF RunIsTrue, RecordDuplicate, At
  <2> QED
    BY <1>2, <1>9, <2>1, <2>2 DEF RecordDuplicate, rows, messages
<1>10. CASE RecordNew(t)
  <2>1. PICK u : /\ Replace(t, u) /\ u.batch = t.batch /\ u.id = t.id
                 /\ \/ Recorded(t, "suppressed") /\ u.pc = "note"
                    \/ Recorded(t, "scheduled") /\ u.pc = "note" /\ u.out = "sent"
                    \/ Recorded(t, "sending") /\ u.pc = "deliver"
    BY <1>0, <1>10, RecordLeaves
  <2>2. t.pc = "record" /\ msg[At(t)] = "none" /\ UNCHANGED <<status, rec>>
    BY <1>10 DEF RecordNew, rows
  <2>3. At(t) \in t.batch /\ At(t) \in Recipients /\ At(t) \notin Unmergeable
    BY <1>0, <1>1, <2>2 DEF RunIsTrue
  <2>4. \A r \in Recipients : r # At(t) => msg'[r] = msg[r]
    BY <1>0, <2>1 DEF Recorded, TypeOK
  <2>5. RunIsTrue(u)'
    BY <1>0, <2>1, <2>2, <2>3 DEF RunIsTrue, Recorded, At, TypeOK
  <2>6. Pending' = Pending
    BY <2>2 DEF Pending
  <2> QED
    BY <1>0, <2>1, <2>2, <2>3, <2>4, <2>5, <2>6, TruthKept DEF Replace
<1>11. CASE DeliverNow(t)
  <2>1. PICK out \in Outcome :
          Delivered(At(t), out) /\ Replace(t, Noted(t, out))
    BY <1>11 DEF DeliverNow, Noted
  <2>2. PICK u : /\ Replace(t, u) /\ u.batch = t.batch /\ u.id = t.id
                 /\ u.pc = "note" /\ u.out = out /\ u.job = t.job
    BY <1>0, <2>1, NoteLeaves
  <2>3. t.pc = "deliver" /\ UNCHANGED <<status, rec>>
    BY <1>11 DEF DeliverNow, rows
  <2>4. At(t) \in Recipients /\ At(t) \notin Unmergeable /\ t.batch # {}
    BY <1>0, <1>1, <2>3 DEF RunIsTrue
  <2>5. msg[At(t)] = "sending"
    BY <2>3, <2>4 DEF TruthInv, DeliveryInv, SendingIsHeld
  <2>6. msg'[At(t)] = out /\ \A r \in Recipients : r # At(t) => msg'[r] = msg[r]
    BY <1>0, <2>1, <2>4 DEF Delivered, TypeOK
  <2>7. RunIsTrue(u)'
    BY <1>0, <2>2, <2>4, <2>6 DEF RunIsTrue, At
  <2>8. Pending' = Pending
    BY <2>3 DEF Pending
  <2> QED
    BY <1>0, <2>2, <2>3, <2>4, <2>5, <2>6, <2>7, <2>8, TruthKept DEF Replace
<1>12. CASE NoteOutcome(t)
  <2>1. CASE t.id = "blank"
    <3>1. PICK u : Replace(t, u) /\ u.pc = "throw" /\ u.batch = t.batch
      BY <1>0, <1>12, <2>1, GotoLeaves DEF NoteOutcome, Places
    <3>2. RunIsTrue(u)
      BY <3>1 DEF RunIsTrue
    <3> QED
      BY <1>2, <1>12, <2>1, <3>1, <3>2 DEF NoteOutcome, messages
  <2>2. CASE t.id # "blank"
    <3>1. WriteRow(t, t.out) /\ NextRow(t) /\ t.pc = "note" /\ UNCHANGED <<status, msg>>
      BY <1>12, <2>2 DEF NoteOutcome, messages
    <3>2. t.out \in Outcome
      BY <1>0 DEF Run
    <3>3. /\ Pending' \subseteq Pending
          /\ \A r \in Recipients : rec'[r] = rec[r] \/ (r = At(t) /\ rec'[r] = t.out)
      BY <1>0, <3>1, <3>2, WrittenRow
    <3>4. t.out = "suppressed" => msg'[At(t)] = "suppressed"
      BY <1>0, <2>2, <3>1 DEF RunIsTrue
    <3> QED
      BY <1>3, <3>1, <3>3, <3>4
  <2> QED
    BY <2>1, <2>2
<1>13. CASE EnqueueNextBatch(t)
  <2>1. PICK u : Replace(t, u) /\ u.pc = "succeed" /\ u.batch = t.batch
    BY <1>0, <1>13, GotoLeaves DEF EnqueueNextBatch, Places
  <2>2. RunIsTrue(u)
    BY <2>1 DEF RunIsTrue
  <2> QED
    BY <1>2, <1>13, <2>1, <2>2 DEF EnqueueNextBatch, rows, messages
<1>14. CASE Settle(t)
  <2>1. UNCHANGED <<status, rec, msg>> /\ runs' \subseteq runs
    BY <1>14 DEF Settle, rows, messages
  <2>2. Pending' = Pending
    BY <2>1 DEF Pending
  <2> QED
    BY <1>0, <2>1, <2>2, TruthKept
<1> QED
  BY <1>4, <1>5, <1>6, <1>7, <1>8, <1>9, <1>10, <1>11, <1>12, <1>13, <1>14 DEF RunStep

(* A campaign that has not begun: only its audience can be built, and a    *)
(* request to send it begin it.                                            *)
LEMMA TruthDraft ==
  ASSUME TruthInv, Next, status = "draft"
  PROVE  TruthPart'
<1>0. /\ TypeOK /\ runs = {} /\ \A j \in Jobs : job[j].state = "free"
      /\ \A q \in requests : q.kind \in {"audience", "send"} /\ q.pc # "enqueue"
      /\ \A r \in Recipients : msg[r] = "none"
      /\ Unmergeable \subseteq Recipients
  BY CampaignAssumption DEF TruthInv, TruthPart, DeliveryInv, NotBegun
<1>1. ASSUME UNCHANGED <<msg, job>>, runs' = {}, status' # "completed",
             \A q \in requests' : status' = "draft" =>
               q \in requests \/ (q.kind \in {"audience", "send"} /\ q.pc # "enqueue")
      PROVE  TruthPart'
  BY <1>0, <1>1 DEF TruthPart, NotBegun, UnmergeableGetsNone, HeldBackForGood,
     CompletedMeansWalked
<1>2. ASSUME NEW k \in Kinds, Ask(k) PROVE TruthPart'
  <2>1. k \in {"audience", "send"}
    BY <1>2 DEF Ask, Allowed
  <2> QED
    BY <1>0, <1>1, <1>2, <2>1 DEF Ask, rows, messages
<1>3. ASSUME NEW q \in requests, RequestStep(q) PROVE TruthPart'
  <2>0. q.kind \in {"audience", "send"} /\ q.pc # "enqueue" /\ q \in Request
    BY <1>0 DEF TypeOK
  <2>1. CASE BuildAudience(q)
    <3>1. [q EXCEPT !.pc = "write", !.saw = Recipients \ optedOut].kind = q.kind
          /\ [q EXCEPT !.pc = "write", !.saw = Recipients \ optedOut].pc = "write"
      BY <2>0 DEF Request
    <3> QED
      BY <1>0, <1>1, <2>0, <2>1, <3>1 DEF BuildAudience, rows, messages
  <2>2. CASE FreezeAudience(q)
    BY <1>0, <1>1, <2>2 DEF FreezeAudience, Answer, messages
  <2>3. CASE CountPending(q)
    <3>1. [q EXCEPT !.pc = "write"].kind = q.kind /\ [q EXCEPT !.pc = "write"].pc = "write"
      BY <2>0 DEF Request
    <3> QED
      BY <1>0, <1>1, <2>0, <2>3, <3>1 DEF CountPending, Answer, Onward, rows, messages
  <2>4. CASE MarkSending(q)
    BY <1>0, <1>1, <2>4 DEF MarkSending, messages
  <2> QED
    BY <1>3, <2>0, <2>1, <2>2, <2>3, <2>4 DEF RequestStep, EnqueueFirstBatch, Pause
<1>4. ASSUME NEW j \in Jobs, Claim(j) \/ Reclaim(j) PROVE FALSE
  BY <1>0, <1>4 DEF Claim, Reclaim
<1>5. ASSUME NEW r \in Recipients, DeliverLater(r) PROVE FALSE
  BY <1>0, <1>5 DEF DeliverLater
<1>6. ASSUME NEW r \in Recipients, Unsubscribe(r) PROVE TruthPart'
  BY <1>0, <1>1, <1>6 DEF Unsubscribe, rows, messages
<1>7. CASE Exit
  BY <1>0, <1>1, <1>7 DEF Exit, rows, messages
<1> QED
  BY <1>0, <1>2, <1>3, <1>4, <1>5, <1>6, <1>7 DEF Next

LEMMA TruthNext ==
  ASSUME TruthInv, [Next]_vars, [frozen' # frozen => status = "draft"]_vars
  PROVE  TruthInv'
<1>0. TypeOK
  BY DEF TruthInv, DeliveryInv
<1>1. DeliveryInv'
  BY DeliveryNext DEF TruthInv
<1>2. ASSUME status # "draft", UNCHANGED <<rec, msg>>, runs' \subseteq runs,
             status' = status \/ status' \in {"sending", "paused"}
      PROVE  TruthPart'
  <2>1. Pending' = Pending
    BY <1>2 DEF Pending
  <2> QED
    BY <1>2, <2>1, TruthKept
<1>3. ASSUME UNCHANGED vars PROVE TruthPart'
  <2>1. TruthPart /\ UNCHANGED <<status, rec, msg, job, runs, requests>>
    BY <1>3 DEF TruthInv, vars
  <2>2. \A t \in runs' : RunIsTrue(t)'
    BY <2>1 DEF TruthPart, RunIsTrue, Pending
  <2>3. (NotBegun /\ UnmergeableGetsNone /\ HeldBackForGood)'
    BY <2>1 DEF TruthPart, NotBegun, UnmergeableGetsNone, HeldBackForGood
  <2>4. CompletedMeansWalked'
    BY <2>1 DEF TruthPart, CompletedMeansWalked, Pending
  <2> QED
    BY <2>2, <2>3, <2>4 DEF TruthPart
<1>4. ASSUME Next, status # "draft" PROVE TruthPart'
  <2>1. ASSUME NEW k \in Kinds, Ask(k) PROVE TruthPart'
    BY <1>2, <1>4, <2>1 DEF Ask, rows, messages
  <2>2. ASSUME NEW q \in requests, RequestStep(q) PROVE TruthPart'
    <3>1. CASE FreezeAudience(q)
      <4>1. frozen' # frozen
        BY <1>0, <3>1 DEF FreezeAudience, TypeOK
      <4> QED
        BY <1>4, <4>1 DEF vars
    <3>2. CASE ~FreezeAudience(q)
      BY <1>2, <1>4, <2>2, <3>2 DEF RequestStep, BuildAudience, CountPending, MarkSending,
         EnqueueFirstBatch, Pause, rows, messages
    <3> QED
      BY <3>1, <3>2
  <2>3. ASSUME NEW j \in Jobs, Claim(j) PROVE TruthPart'
    <3> DEFINE u == [job |-> j, gen |-> 0, batch |-> {}, pc |-> "status",
                     way |-> "none", out |-> "none", id |-> "own"]
    <3>1. RunIsTrue(u)' /\ u.batch \subseteq Pending
      BY DEF RunIsTrue
    <3>2. runs' = runs \cup {u} /\ UNCHANGED <<status, rec, msg>>
      BY <2>3 DEF Claim, rows, messages
    <3>3. Pending' = Pending
      BY <3>2 DEF Pending
    <3> HIDE DEF u
    <3> QED
      BY <1>4, <3>1, <3>2, <3>3, TruthKept
  <2>4. ASSUME NEW j \in Jobs, Reclaim(j) PROVE TruthPart'
    BY <1>2, <1>4, <2>4 DEF Reclaim, rows, messages
  <2>5. ASSUME NEW t \in runs, RunStep(t) PROVE TruthPart'
    BY <2>5, TruthRun
  <2>6. ASSUME NEW r \in Recipients, DeliverLater(r) PROVE TruthPart'
    <3>1. /\ UNCHANGED <<status, rec, runs>> /\ msg[r] \in {"scheduled", "failed"}
          /\ \A s \in Recipients : s # r => msg'[s] = msg[s]
      BY <1>0, <2>6 DEF DeliverLater, Delivered, rows, TypeOK
    <3>2. r \notin Unmergeable
      BY <3>1 DEF TruthInv, TruthPart, UnmergeableGetsNone
    <3>3. Pending' = Pending
      BY <3>1 DEF Pending
    <3> QED
      BY <1>4, <3>1, <3>2, <3>3, TruthKept
  <2>7. ASSUME NEW r \in Recipients, Unsubscribe(r) PROVE TruthPart'
    BY <1>2, <1>4, <2>7 DEF Unsubscribe, rows, messages
  <2>8. CASE Exit
    BY <1>2, <1>4, <2>8 DEF Exit, rows, messages
  <2> QED
    BY <1>4, <2>1, <2>2, <2>3, <2>4, <2>5, <2>6, <2>7, <2>8 DEF Next
<1>5. ASSUME Next, status = "draft" PROVE TruthPart'
  BY <1>5, TruthDraft
<1> QED
  BY <1>1, <1>3, <1>4, <1>5 DEF TruthInv

(* As long as the audience is not built anew once sending began (what the  *)
(* comment at campaigns.ts:419 of the routes says), a row that says a      *)
(* client was held back is never one of a client who got the message, and  *)
(* "completed" is never said over rows nobody has walked.                  *)
THEOREM FixedAudienceIsToldTruly ==
  Spec /\ AudienceIsFixed => [](HeldBackMeansNotSent /\ CompletedMeansWalked)
<1>1. Init => TruthInv
  <2>1. Init => DeliveryInv
    BY CampaignAssumption DEF Init, TypeOK, Free, DeliveryInv, HeldByOne, SendingIsHeld,
       ReceivedIsSent, OncePerRecipient
  <2>2. Init => TruthPart
    BY CampaignAssumption DEF Init, Free, TruthPart, NotBegun, UnmergeableGetsNone,
       HeldBackForGood, CompletedMeansWalked
  <2> QED
    BY <2>1, <2>2 DEF TruthInv
<1>2. TruthInv /\ [Next]_vars /\ [frozen' # frozen => status = "draft"]_vars => TruthInv'
  BY TruthNext
<1>3. TruthInv => HeldBackMeansNotSent /\ CompletedMeansWalked
  <2>1. ASSUME TruthInv, NEW r \in Recipients, rec[r] = "suppressed" PROVE received[r] = 0
    <3>1. received[r] \in Nat /\ (received[r] > 0 => msg[r] = "sent")
      BY <2>1 DEF TruthInv, DeliveryInv, TypeOK, ReceivedIsSent
    <3>2. msg[r] \in {"none", "suppressed"}
      BY <2>1 DEF TruthInv, TruthPart, HeldBackForGood, UnmergeableGetsNone
    <3> QED
      BY <3>1, <3>2
  <2> QED
    BY <2>1 DEF HeldBackMeansNotSent, TruthInv, TruthPart
<1> QED
  BY <1>1, <1>2, <1>3, PTL DEF Spec, AudienceIsFixed

-----------------------------------------------------------------------------
(* What a pause lets through.                                              *)

(* A finite set of numbers that is not empty has a greatest one.           *)
LEMMA GreatestExists ==
  ASSUME NEW S \in SUBSET Nat, IsFiniteSet(S), S # {}
  PROVE  \E m \in S : \A s \in S : s <= m
<1> DEFINE T == {{s \in S : x <= s} : x \in S}
<1>1. IsWellFoundedOn(StrictSubsetOrdering(S), SUBSET S)
  BY FS_StrictSubsetOrderingWellFounded, FS_FiniteSubsetsOfFinite, Zenon
<1>2. T \subseteq SUBSET S /\ T # {}
  OBVIOUS
<1>3. PICK B \in T : \A C \in T : <<C, B>> \notin StrictSubsetOrdering(S)
  <2> HIDE DEF T
  <2> QED
    BY <1>1, <1>2, WFMin, Zenon
<1>4. \A C \in T : ~(C \subseteq B /\ C # B)
  BY <1>2, <1>3 DEF StrictSubsetOrdering
<1>5. PICK m \in S : B = {s \in S : m <= s}
  OBVIOUS
<1>6. ASSUME NEW s \in S, ~(s <= m) PROVE FALSE
  <2>1. S \subseteq Nat /\ s \in Nat /\ m \in Nat /\ m < s
    BY <1>6
  <2>2. {r \in S : s <= r} \in T
    OBVIOUS
  <2>3. ASSUME NEW r \in S, s <= r PROVE r \in B
    <3>1. r \in Nat
      BY <2>1
    <3> QED
      BY <1>5, <2>1, <2>3, <3>1
  <2>4. m \in B /\ m \notin {r \in S : s <= r}
    BY <1>5, <2>1
  <2> QED
    BY <1>4, <2>2, <2>3, <2>4
<1> QED
  BY <1>6

(* A fetch takes no more rows than a batch has: but the last of them are   *)
(* all before the last.                                                    *)
LEMMA FetchTakesABatch ==
  /\ IsFiniteSet(FirstPending)
  /\ Cardinality(FirstPending) <= Batch
<1>1. Pending \subseteq Nat /\ IsFiniteSet(Pending) /\ FirstPending \subseteq Pending
  BY CampaignAssumption, FS_Subset DEF Pending, FirstPending
<1>2. IsFiniteSet(FirstPending)
  BY <1>1, FS_Subset
<1>3. CASE FirstPending = {}
  BY <1>2, <1>3, FS_EmptySet, CampaignAssumption
<1>4. CASE FirstPending # {}
  <2>1. PICK m \in FirstPending : \A s \in FirstPending : s <= m
    BY <1>1, <1>2, <1>4, GreatestExists
  <2> DEFINE before == {s \in Pending : s < m}
  <2>2. FirstPending \ {m} \subseteq before
    BY <1>1, <2>1
  <2>3. IsFiniteSet(before) /\ Cardinality(before) < Batch
    BY <1>1, <2>1, FS_Subset DEF FirstPending
  <2>4. Cardinality(FirstPending \ {m}) <= Cardinality(before)
    BY <2>2, <2>3, FS_Subset
  <2>5. Cardinality(FirstPending \ {m}) = Cardinality(FirstPending) - 1
    BY <1>2, <2>1, FS_RemoveElement
  <2>6. Cardinality(before) \in Nat /\ Cardinality(FirstPending) \in Nat
    BY <1>2, <2>3, FS_CardinalityType
  <2> HIDE DEF before
  <2> QED
    BY <1>2, <2>3, <2>4, <2>5, <2>6, CampaignAssumption
<1> QED
  BY <1>2, <1>3, <1>4

(* The rows a handler may still take up before it plants the next job.     *)
Ahead(t) ==
  IF t.pc = "fetch" THEN Batch
  ELSE IF t.pc = "gate" THEN Cardinality(t.batch) ELSE Cardinality(t.batch) - 1

(* A handler holds a batch at most, its job is running, and where the      *)
(* campaign is paused it is one of those that were at a batch: what it has *)
(* taken up since and what is ahead of it are no more than a batch.        *)
RunHolds(t) ==
  /\ Cardinality(t.batch) <= Batch
  /\ t.pc \in {"gate", "record", "deliver", "note"} => t.batch # {}
  /\ job[t.job].state = "running"
  /\ status = "paused" /\ AtBatch(t) =>
       t.job \in inHand /\ afterPause[t.job] + Ahead(t) <= Batch

(* A job that is planted is in a row that was free.                        *)
LEMMA PlantKeeps ==
  ASSUME TypeOK, NEW own, Plant(own)
  PROVE  \A j \in Jobs : job[j].state = "running" => job'[j].state = "running"
<1> DEFINE free == {i \in Jobs : job[i].state = "free"}
<1>1. CASE UNCHANGED job
  BY <1>1
<1>2. CASE free # {} /\ job' = [job EXCEPT ![Min(free)] =
                                [state |-> "pending", own |-> own, attempts |-> 0]]
  <2>1. free \in SUBSET Nat /\ IsFiniteSet(free)
    BY CampaignAssumption, FS_Subset
  <2>2. Min(free) \in free
    <3> HIDE DEF free
    <3> QED
      BY <1>2, <2>1, MinIsLeast
  <2>3. \A j \in Jobs : j # Min(free) => job'[j] = job[j]
    BY <1>2 DEF TypeOK
  <2> QED
    BY <2>2, <2>3
<1> QED
  BY <1>1, <1>2 DEF Plant

(* A job is in one handler's hands.                                        *)
RunsApart == \A t, u \in runs : t.job = u.job => t = u

PausePart == RunsApart /\ PauseStopsTheNextBatch /\ \A t \in runs : RunHolds(t)

PauseInv == TypeOK /\ PausePart

LEMMA BatchCounts ==
  ASSUME TypeOK, NEW t \in runs
  PROVE  IsFiniteSet(t.batch) /\ Cardinality(t.batch) \in Nat
<1>1. t.batch \subseteq Recipients
  BY DEF TypeOK, Run
<1> QED
  BY <1>1, CampaignAssumption, FS_Subset, FS_CardinalityType

(* What is said of a pause.                                                *)
Marks == <<inHand, afterPause>>

(* A step after which no handler is new, and the jobs of those that are    *)
(* left run on, where the campaign is not paused by it.                    *)
LEMMA StayHolds ==
  ASSUME PauseInv, runs' \subseteq runs,
         (status' = status /\ UNCHANGED Marks) \/ status' # "paused",
         \A t \in runs' : job'[t.job].state = "running"
  PROVE  PausePart'
<1>1. RunsApart'
  BY DEF PauseInv, PausePart, RunsApart
<1>2. PauseStopsTheNextBatch'
  BY DEF PauseInv, PausePart, PauseStopsTheNextBatch, Marks, ghosts
<1>3. \A t \in runs' : RunHolds(t)'
  <2> SUFFICES ASSUME NEW t \in runs' PROVE RunHolds(t)'
    OBVIOUS
  <2>1. RunHolds(t) /\ job'[t.job].state = "running"
    BY DEF PauseInv, PausePart
  <2> QED
    BY <2>1 DEF RunHolds, AtBatch, Ahead, Marks, ghosts
<1> QED
  BY <1>1, <1>2, <1>3 DEF PausePart

(* A step of one handler, that takes a row up or none.                     *)
LEMMA StepHolds ==
  ASSUME PauseInv, NEW t \in runs, NEW u, Replace(t, u), u.job = t.job,
         \/ status' = status /\ ((TakenUp(t) /\ t.pc = "gate") \/ UNCHANGED Marks)
         \/ status' # "paused",
         \A j \in Jobs : job[j].state = "running" => job'[j].state = "running",
         RunHolds(u)'
  PROVE  PausePart'
<1>0. /\ TypeOK /\ RunsApart /\ t.job \in Jobs /\ RunHolds(t)
      /\ \A v \in runs : v.job \in Jobs /\ RunHolds(v)
  BY DEF PauseInv, PausePart, TypeOK, Run
<1>1. ASSUME status' = "paused"
      PROVE  /\ status = "paused"
             /\ inHand' = inHand /\ \A j \in Jobs : j # t.job => afterPause'[j] = afterPause[j]
             /\ \/ afterPause'[t.job] = afterPause[t.job]
                \/ t.pc = "gate" /\ afterPause'[t.job] = afterPause[t.job] + 1
  <2>1. CASE UNCHANGED Marks
    BY <1>1, <2>1 DEF Marks, ghosts
  <2>2. CASE TakenUp(t) /\ t.pc = "gate"
    BY <1>0, <1>1, <2>2 DEF TakenUp, TypeOK
  <2> QED
    BY <1>1, <2>1, <2>2
<1>2. RunsApart'
  BY <1>0 DEF RunsApart, Replace
<1>3. PauseStopsTheNextBatch'
  <2> SUFFICES ASSUME status' = "paused", NEW j \in Jobs
               PROVE  afterPause'[j] <= IF j \in inHand' THEN Batch ELSE 0
    BY DEF PauseStopsTheNextBatch
  <2>1. status = "paused" /\ afterPause[j] <= IF j \in inHand THEN Batch ELSE 0
    BY <1>1 DEF PauseInv, PausePart, PauseStopsTheNextBatch
  <2>2. CASE afterPause'[j] = afterPause[j]
    BY <1>1, <2>1, <2>2
  <2>3. CASE afterPause'[j] # afterPause[j]
    <3>1. j = t.job /\ t.pc = "gate" /\ afterPause'[j] = afterPause[j] + 1
      BY <1>1, <2>3
    <3>2. t.batch # {} /\ j \in inHand /\ afterPause[j] + Cardinality(t.batch) <= Batch
      BY <1>0, <2>1, <3>1 DEF RunHolds, AtBatch, Ahead
    <3>3. Cardinality(t.batch) \in Nat \ {0}
      BY <1>0, <3>2, BatchCounts, FS_EmptySet
    <3>4. afterPause[j] \in Nat
      BY <1>0 DEF TypeOK
    <3> QED
      BY <1>1, <3>1, <3>2, <3>3, <3>4, CampaignAssumption
  <2> QED
    BY <2>2, <2>3
<1>4. \A v \in runs' : RunHolds(v)'
  <2> SUFFICES ASSUME NEW v \in runs', v # u PROVE RunHolds(v)'
    OBVIOUS
  <2>1. v \in runs /\ v # t
    BY DEF Replace
  <2>2. v.job # t.job
    BY <1>0, <2>1 DEF RunsApart
  <2> QED
    BY <1>0, <1>1, <2>1, <2>2 DEF RunHolds, AtBatch, Ahead
<1> QED
  BY <1>2, <1>3, <1>4 DEF PausePart

(* A handler at a row leaves a batch that has one row less.                *)
LEMMA NextRowCounts ==
  ASSUME PauseInv, NEW t \in runs, t.batch # {}
  PROVE  Cardinality(t.batch \ {At(t)}) = Cardinality(t.batch) - 1
<1>1. t \in Run
  BY DEF PauseInv, TypeOK
<1>2. At(t) \in t.batch /\ IsFiniteSet(t.batch)
  BY <1>1, AtIsInBatch, BatchCounts DEF PauseInv
<1> QED
  BY <1>2, FS_RemoveElement

LEMMA PauseRun ==
  ASSUME PauseInv, TypeOK', NEW t \in runs, RunStep(t)
  PROVE  PausePart'
<1>0. /\ TypeOK /\ t.job \in Jobs /\ RunHolds(t) /\ Cardinality(t.batch) \in Nat
      /\ Batch \in Nat /\ afterPause[t.job] \in Nat
  BY BatchCounts, CampaignAssumption DEF PauseInv, PausePart, TypeOK, Run
<1>1. ASSUME UNCHANGED job
      PROVE  \A j \in Jobs : job[j].state = "running" => job'[j].state = "running"
  BY <1>1
(* A step that leaves the handler where it is with its batch, or past it.  *)
<1>2. ASSUME NEW u, Replace(t, u), u.job = t.job, u.batch = t.batch,
             (status' = status /\ UNCHANGED Marks) \/ status' # "paused",
             \A j \in Jobs : job[j].state = "running" => job'[j].state = "running",
             u.pc \in {"gate", "record", "deliver", "note"} => u.batch # {},
             \/ ~AtBatch(u) \/ status # "paused"
             \/ t.pc \in {"record", "deliver"} /\ u.pc \in {"deliver", "note"}
      PROVE  PausePart'
  <2>1. Ahead(u) = Ahead(t) \/ ~AtBatch(u) \/ status # "paused"
    BY <1>2 DEF Ahead
  <2>2. RunHolds(u)'
    BY <1>0, <1>2, <2>1 DEF RunHolds, AtBatch, Marks, ghosts, Ahead
  <2> QED
    BY <1>2, <2>2, StepHolds
(* ... and one that goes to the next row.                                  *)
<1>3. ASSUME NextRow(t), UNCHANGED <<status, job>>, t.batch # {},
             (TakenUp(t) /\ t.pc = "gate") \/ (UNCHANGED Marks /\ t.pc = "note")
      PROVE  PausePart'
  <2>1. PICK u : /\ Replace(t, u) /\ u.batch = t.batch \ {At(t)} /\ u.id = "own"
                 /\ u.job = t.job /\ u.pc = IF u.batch = {} THEN "chain" ELSE "gate"
    BY <1>0, <1>3, NextRowLeaves
  <2>2. Cardinality(u.batch) = Cardinality(t.batch) - 1
    BY <1>3, <2>1, NextRowCounts
  <2>3. ASSUME status = "paused"
        PROVE  t.job \in inHand' /\ afterPause'[t.job] + Cardinality(u.batch) <= Batch
    <3>1. t.job \in inHand /\ afterPause[t.job] + Ahead(t) <= Batch
      BY <1>0, <1>3, <2>3 DEF RunHolds, AtBatch
    <3>2. CASE TakenUp(t) /\ t.pc = "gate"
      <4>1. afterPause'[t.job] = afterPause[t.job] + 1 /\ inHand' = inHand
        BY <1>0, <2>3, <3>2 DEF TakenUp, TypeOK
      <4>2. Ahead(t) = Cardinality(t.batch)
        BY <3>2 DEF Ahead
      <4> QED
        BY <1>0, <2>2, <3>1, <4>1, <4>2
    <3>3. CASE UNCHANGED Marks /\ t.pc = "note"
      <4>1. Ahead(t) = Cardinality(u.batch)
        BY <2>2, <3>3 DEF Ahead
      <4> QED
        BY <3>1, <3>3, <4>1 DEF Marks, ghosts
    <3> QED
      BY <1>3, <3>2, <3>3
  <2>4. RunHolds(u)'
    <3>1. job'[u.job].state = "running" /\ Cardinality(u.batch) <= Batch
      BY <1>0, <1>3, <2>1, <2>2 DEF RunHolds
    <3>2. u.pc = "gate" => Ahead(u)' = Cardinality(u.batch)
      BY DEF Ahead
    <3>3. u.pc \in {"gate", "chain"} /\ (u.pc = "gate" => u.batch # {})
      BY <2>1
    <3> QED
      BY <1>3, <2>1, <2>3, <3>1, <3>2, <3>3 DEF RunHolds, AtBatch
  <2> QED
    BY <1>1, <1>3, <2>1, <2>4, StepHolds
<1>4. CASE ReadCampaign(t)
  <2>1. PICK u : /\ Replace(t, u) /\ u.batch = t.batch /\ u.job = t.job
                 /\ u.pc = IF status = "sending" THEN "fetch" ELSE "succeed"
    BY <1>0, <1>4, GotoLeaves DEF ReadCampaign, Places
  <2>2. ~AtBatch(u) \/ status # "paused"
    BY <2>1 DEF AtBatch
  <2> QED
    BY <1>1, <1>2, <1>4, <2>1, <2>2 DEF ReadCampaign, rows, Marks, ghosts
<1>5. CASE FetchBatch(t)
  <2>1. PICK u : /\ Replace(t, u) /\ u.batch = FirstPending /\ u.job = t.job
                 /\ u.pc = IF Pending = {} THEN "complete" ELSE "gate"
    BY <1>0, <1>5, FetchLeaves
  <2>2. Cardinality(u.batch) <= Batch /\ Cardinality(u.batch) \in Nat
    BY <2>1, FetchTakesABatch, FS_CardinalityType
  <2>3. u.pc = "gate" => u.batch # {}
    BY <2>1, FetchTakesSome
  <2>4. UNCHANGED <<status, job>> /\ UNCHANGED Marks /\ t.pc = "fetch"
    BY <1>5 DEF FetchBatch, rows, Marks, ghosts
  <2>5. status = "paused" => t.job \in inHand /\ afterPause[t.job] + Batch <= Batch
    BY <1>0, <2>4 DEF RunHolds, AtBatch, Ahead
  <2>6. RunHolds(u)'
    <3>1. u.pc = "gate" => Ahead(u)' = Cardinality(u.batch)
      BY DEF Ahead
    <3>2. u.pc \in {"complete", "gate"} /\ job'[u.job].state = "running"
      BY <1>0, <2>1, <2>4 DEF RunHolds
    <3>3. ~AtBatch(u) \/ u.pc = "gate"
      BY <3>2 DEF AtBatch
    <3>4. status' = "paused" =>
            u.job \in inHand' /\ afterPause'[u.job] + Cardinality(u.batch) <= Batch
      BY <1>0, <2>1, <2>2, <2>4, <2>5 DEF Marks, ghosts
    <3> QED
      BY <2>2, <2>3, <3>1, <3>2, <3>3, <3>4 DEF RunHolds, AtBatch
  <2> QED
    BY <1>1, <2>1, <2>4, <2>6, StepHolds
<1>6. CASE Complete(t)
  <2>1. PICK u : Replace(t, u) /\ u.pc = "succeed" /\ u.batch = t.batch /\ u.job = t.job
    BY <1>0, <1>6, GotoLeaves DEF Complete, Places
  <2> QED
    BY <1>1, <1>2, <1>6, <2>1 DEF Complete, AtBatch
<1>7. CASE SkipUnmergeable(t)
  <2>1. t.pc = "gate" /\ t.batch # {}
    BY <1>0, <1>7 DEF SkipUnmergeable, RunHolds
  <2>2. NextRow(t) /\ TakenUp(t) /\ UNCHANGED <<status, job>>
    BY <1>7 DEF SkipUnmergeable
  <2>3. (TakenUp(t) /\ t.pc = "gate") \/ (UNCHANGED Marks /\ t.pc = "note")
    BY <2>1, <2>2
  <2> QED
    BY <1>3, <2>1, <2>2, <2>3
<1>8. CASE ReadGate(t)
  <2>1. PICK u : Replace(t, u) /\ u.batch = t.batch /\ u.pc = "record" /\ u.job = t.job
    BY <1>0, <1>8, ReadGateLeaves
  <2>2. TakenUp(t) /\ t.pc = "gate" /\ UNCHANGED <<status, job>> /\ t.batch # {}
    BY <1>0, <1>8 DEF ReadGate, RunHolds, rows
  <2>3. ASSUME status = "paused"
        PROVE  t.job \in inHand' /\ afterPause'[t.job] + (Cardinality(t.batch) - 1) <= Batch
    <3>1. t.job \in inHand /\ afterPause[t.job] + Cardinality(t.batch) <= Batch
      BY <1>0, <2>2, <2>3 DEF RunHolds, AtBatch, Ahead
    <3>2. afterPause'[t.job] = afterPause[t.job] + 1 /\ inHand' = inHand
      BY <1>0, <2>2, <2>3 DEF TakenUp, TypeOK
    <3> QED
      BY <1>0, <3>1, <3>2
  <2>4. RunHolds(u)'
    <3>1. Ahead(u)' = Cardinality(t.batch) - 1
      BY <2>1 DEF Ahead
    <3> QED
      BY <1>0, <2>1, <2>2, <2>3, <3>1 DEF RunHolds
  <2> QED
    BY <1>1, <2>1, <2>2, <2>4, StepHolds
<1>9. CASE RecordDuplicate(t)
  <2>1. PICK u : Replace(t, u) /\ u.batch = t.batch /\ u.pc = "note" /\ u.job = t.job
    BY <1>0, <1>9, DuplicateLeaves
  <2> QED
    BY <1>0, <1>1, <1>2, <1>9, <2>1 DEF RecordDuplicate, RunHolds, rows, Marks, ghosts
<1>10. CASE RecordNew(t)
  <2>1. PICK u : /\ Replace(t, u) /\ u.batch = t.batch /\ u.job = t.job
                 /\ u.pc \in {"note", "deliver"}
    BY <1>0, <1>10, RecordLeaves
  <2> QED
    BY <1>0, <1>1, <1>2, <1>10, <2>1 DEF RecordNew, RunHolds, rows, Marks, ghosts
<1>11. CASE DeliverNow(t)
  <2>1. PICK out : Replace(t, Noted(t, out))
    BY <1>11 DEF DeliverNow, Noted
  <2>2. PICK u : Replace(t, u) /\ u.batch = t.batch /\ u.pc = "note" /\ u.job = t.job
    BY <1>0, <2>1, NoteLeaves
  <2> QED
    BY <1>0, <1>1, <1>2, <1>11, <2>2 DEF DeliverNow, RunHolds, rows, Marks, ghosts
<1>12. CASE NoteOutcome(t)
  <2>1. CASE t.id = "blank"
    <3>1. PICK u : Replace(t, u) /\ u.pc = "throw" /\ u.batch = t.batch /\ u.job = t.job
      BY <1>0, <1>12, <2>1, GotoLeaves DEF NoteOutcome, Places
    <3> QED
      BY <1>1, <1>2, <1>12, <3>1 DEF NoteOutcome, AtBatch, Marks, ghosts
  <2>2. CASE t.id # "blank"
    <3>1. NextRow(t) /\ t.pc = "note" /\ t.batch # {}
      BY <1>0, <1>12, <2>2 DEF NoteOutcome, RunHolds
    <3> QED
      BY <1>3, <1>12, <3>1 DEF NoteOutcome, Marks, ghosts
  <2> QED
    BY <2>1, <2>2
<1>13. CASE EnqueueNextBatch(t)
  <2>1. PICK u : Replace(t, u) /\ u.pc = "succeed" /\ u.batch = t.batch /\ u.job = t.job
    BY <1>0, <1>13, GotoLeaves DEF EnqueueNextBatch, Places
  <2>2. \A j \in Jobs : job[j].state = "running" => job'[j].state = "running"
    BY <1>13, PlantKeeps, <1>0 DEF EnqueueNextBatch
  <2> QED
    BY <1>2, <1>13, <2>1, <2>2 DEF EnqueueNextBatch, AtBatch, rows, Marks, ghosts
<1>14. CASE Settle(t)
  <2>1. runs' = runs \ {t} /\ UNCHANGED Marks /\ UNCHANGED status
        /\ \A j \in Jobs : j # t.job => job'[j] = job[j]
    BY <1>0, <1>14 DEF Settle, TypeOK, rows, Marks
  <2>2. \A v \in runs' : v \in runs /\ v.job \in Jobs /\ v.job # t.job
                         /\ job[v.job].state = "running"
    BY <2>1 DEF PauseInv, PausePart, RunsApart, RunHolds, TypeOK, Run
  <2> QED
    BY <2>1, <2>2, StayHolds
<1> QED
  BY <1>4, <1>5, <1>6, <1>7, <1>8, <1>9, <1>10, <1>11, <1>12, <1>13, <1>14 DEF RunStep

LEMMA PauseNext ==
  ASSUME PauseInv, [Next]_vars
  PROVE  PauseInv'
<1>0. TypeOK' /\ TypeOK
  BY NextType DEF PauseInv
<1>1. \A t \in runs : job[t.job].state = "running" /\ t.job \in Jobs
  BY DEF PauseInv, PausePart, RunHolds, TypeOK, Run
<1>2. ASSUME NEW k \in Kinds, Ask(k) PROVE PausePart'
  BY <1>1, <1>2, StayHolds DEF Ask, rows, Marks, ghosts
<1>3. ASSUME NEW q \in requests, RequestStep(q) PROVE PausePart'
  <2>1. CASE BuildAudience(q) \/ FreezeAudience(q) \/ CountPending(q) \/ MarkSending(q)
    <3>1. /\ UNCHANGED <<runs, job>>
          /\ (status' = status /\ UNCHANGED Marks) \/ status' = "sending"
      BY <2>1 DEF BuildAudience, FreezeAudience, CountPending, MarkSending, rows, Marks, ghosts
    <3> QED
      BY <1>1, <3>1, StayHolds
  <2>2. CASE EnqueueFirstBatch(q)
    <3>1. UNCHANGED <<runs, status>> /\ UNCHANGED Marks
          /\ \A j \in Jobs : job[j].state = "running" => job'[j].state = "running"
      BY <1>0, <2>2, PlantKeeps DEF EnqueueFirstBatch, rows, Marks
    <3> QED
      BY <1>1, <3>1, StayHolds
  <2>3. CASE Pause(q)
    <3>1. /\ UNCHANGED <<runs, job>>
          /\ inHand' = {t.job : t \in {u \in runs : AtBatch(u)}}
          /\ afterPause' = [j \in Jobs |-> 0]
      BY <2>3 DEF Pause, Watch
    <3>2. RunsApart'
      BY <3>1 DEF PauseInv, PausePart, RunsApart
    <3>3. PauseStopsTheNextBatch'
      BY <3>1, CampaignAssumption DEF PauseStopsTheNextBatch
    <3>4. ASSUME NEW t \in runs PROVE RunHolds(t)'
      <4>1. RunHolds(t) /\ Cardinality(t.batch) \in Nat /\ t.job \in Jobs
        BY <1>0, <1>1, BatchCounts DEF PauseInv, PausePart
      <4>2. Ahead(t)' <= Batch
        BY <4>1, CampaignAssumption DEF Ahead, RunHolds
      <4>3. afterPause'[t.job] + Ahead(t)' = Ahead(t)'
        BY <3>1, <4>1, CampaignAssumption DEF Ahead
      <4>4. AtBatch(t) => t.job \in inHand'
        BY <3>1
      <4> QED
        BY <3>1, <4>1, <4>2, <4>3, <4>4 DEF RunHolds, AtBatch
    <3> QED
      BY <3>1, <3>2, <3>3, <3>4 DEF PausePart
  <2> QED
    BY <1>3, <2>1, <2>2, <2>3 DEF RequestStep
<1>4. ASSUME NEW j \in Jobs, Claim(j) PROVE PausePart'
  <2> DEFINE u == [job |-> j, gen |-> 0, batch |-> {}, pc |-> "status",
                   way |-> "none", out |-> "none", id |-> "own"]
  <2>1. u.job = j /\ u.batch = {} /\ u.pc = "status"
    OBVIOUS
  <2>2. /\ runs' = runs \cup {u} /\ UNCHANGED Marks /\ UNCHANGED status
        /\ job[j].state = "pending" /\ job'[j].state = "running"
        /\ \A i \in Jobs : i # j => job'[i] = job[i]
    BY <1>0, <1>4 DEF Claim, TypeOK, rows
  <2> HIDE DEF u
  <2>3. \A t \in runs : t.job # j
    BY <1>1, <2>2
  <2>4. RunsApart'
    BY <2>1, <2>2, <2>3 DEF PauseInv, PausePart, RunsApart
  <2>5. PauseStopsTheNextBatch'
    BY <2>2 DEF PauseInv, PausePart, PauseStopsTheNextBatch, Marks, ghosts
  <2>6. RunHolds(u)'
    BY <2>1, <2>2, FS_EmptySet, CampaignAssumption DEF RunHolds, AtBatch
  <2>7. ASSUME NEW t \in runs PROVE RunHolds(t)'
    <3>1. RunHolds(t) /\ job'[t.job] = job[t.job]
      BY <1>1, <2>2, <2>3 DEF PauseInv, PausePart
    <3> QED
      BY <2>2, <3>1 DEF RunHolds, AtBatch, Ahead, Marks, ghosts
  <2> QED
    BY <2>2, <2>4, <2>5, <2>6, <2>7 DEF PausePart
<1>5. ASSUME NEW j \in Jobs, Reclaim(j) PROVE PausePart'
  <2>1. UNCHANGED runs /\ UNCHANGED Marks /\ UNCHANGED status
        /\ \A t \in runs : job'[t.job] = job[t.job]
    BY <1>0, <1>1, <1>5 DEF Reclaim, TypeOK, rows, Marks, ghosts
  <2> QED
    BY <1>1, <2>1, StayHolds
<1>6. ASSUME NEW t \in runs, RunStep(t) PROVE PausePart'
  BY <1>0, <1>6, PauseRun
<1>7. ASSUME NEW r \in Recipients, DeliverLater(r) \/ Unsubscribe(r) PROVE PausePart'
  <2>1. UNCHANGED <<runs, job, status>> /\ UNCHANGED Marks
    BY <1>7 DEF DeliverLater, Unsubscribe, rows, Marks, ghosts
  <2> QED
    BY <1>1, <2>1, StayHolds
<1>8. ASSUME Exit PROVE PausePart'
  <2>1. /\ runs' = {} /\ status' = status /\ UNCHANGED Marks
        /\ \A t \in runs' : job'[t.job].state = "running"
    BY <1>8 DEF Exit, rows, Marks
  <2>2. runs' \subseteq runs
    BY <2>1
  <2> QED
    BY <2>1, <2>2, StayHolds
<1>9. ASSUME UNCHANGED vars PROVE PausePart'
  <2>1. /\ runs' = runs /\ status' = status /\ UNCHANGED Marks
        /\ \A t \in runs' : job'[t.job].state = "running"
    BY <1>1, <1>9 DEF vars, Marks, ghosts
  <2> QED
    BY <2>1, StayHolds
<1> QED
  BY <1>0, <1>2, <1>3, <1>4, <1>5, <1>6, <1>7, <1>8, <1>9 DEF Next, PauseInv

(* A pause lets the handlers that are at a batch finish that one, and no   *)
(* other takes a row up (campaign.ts:46-53 reads the status once, before   *)
(* the batch): for any number of chains, of exits that double them, and of *)
(* pauses and resumes.                                                     *)
THEOREM PauseHolds == Spec => []PauseStopsTheNextBatch
<1>1. Init => PauseInv
  BY CampaignAssumption DEF Init, Free, TypeOK, PauseInv, PausePart, RunsApart,
     PauseStopsTheNextBatch
<1>2. PauseInv /\ [Next]_vars => PauseInv'
  BY PauseNext
<1>3. PauseInv => PauseStopsTheNextBatch
  BY DEF PauseInv, PausePart
<1> QED
  BY <1>1, <1>2, <1>3, PTL DEF Spec

-----------------------------------------------------------------------------
(* A campaign that is sending has a job that will take its next batch.     *)

(* A request that is about to plant a batch is a send or a resume.         *)
SendOrResume == \A q \in requests : q.pc = "enqueue" => q.kind \in {"send", "resume"}

(* It will be claimed or reclaimed, or it is at work and not yet settling. *)
Drives(j) ==
  \/ job[j].state = "pending"
  \/ job[j].state = "running" /\ \A t \in runs : t.job = j => t.pc # "succeed"

Driven ==
  status = "sending" /\ lost = {} =>
    (\E q \in requests : q.pc = "enqueue") \/ \E j \in Jobs : Drives(j)

DrivenInv == PauseInv /\ SendOrResume /\ Driven

(* What is planted is pending, and where it is not planted the one that    *)
(* has the first key is there; nothing else changes.                       *)
LEMMA PlantDrives ==
  ASSUME TypeOK, NEW own \in BOOLEAN, Plant(own)
  PROVE  /\ \/ ~own /\ FirstKeyTaken /\ UNCHANGED job
            \/ \E j \in Jobs : job'[j].state = "pending"
         /\ \A j \in Jobs : job[j].state # "free" => job'[j] = job[j]
<1> DEFINE free == {i \in Jobs : job[i].state = "free"}
<1>1. CASE ~own /\ FirstKeyTaken /\ UNCHANGED job
  BY <1>1
<1>2. CASE free # {} /\ job' = [job EXCEPT ![Min(free)] =
                                [state |-> "pending", own |-> own, attempts |-> 0]]
  <2>1. free \in SUBSET Nat /\ IsFiniteSet(free)
    BY CampaignAssumption, FS_Subset
  <2>2. Min(free) \in free
    <3> HIDE DEF free
    <3> QED
      BY <1>2, <2>1, MinIsLeast
  <2>3. \A j \in Jobs : j # Min(free) => job'[j] = job[j]
    BY <1>2 DEF TypeOK
  <2>4. Min(free) \in Jobs /\ job'[Min(free)].state = "pending"
    BY <1>2, <2>2 DEF TypeOK
  <2> QED
    BY <2>2, <2>3, <2>4
<1> QED
  BY <1>1, <1>2 DEF Plant

(* A step that leaves the rows of the queue and the requests about to      *)
(* plant alone, and after which no handler is newly settling.              *)
LEMMA StillDriven ==
  ASSUME Driven, status' = status, lost' = lost,
         \A q \in requests : q.pc = "enqueue" => q \in requests',
         \A j \in Jobs : Drives(j) => Drives(j)'
  PROVE  Driven'
BY DEF Driven

(* A handler goes on to a place where it is not settling.                  *)
LEMMA GoesOnDriving ==
  ASSUME DrivenInv, NEW t \in runs, NEW u, Replace(t, u), u.job = t.job, u.pc # "succeed",
         UNCHANGED <<status, job, requests, lost>>
  PROVE  Driven'
<1>1. \A j \in Jobs : Drives(j) => Drives(j)'
  BY DEF Drives, Replace
<1> QED
  BY <1>1, StillDriven DEF DrivenInv

LEMMA DrivenRun ==
  ASSUME DrivenInv, NEW t \in runs, RunStep(t)
  PROVE  Driven'
<1>0. /\ TypeOK /\ RunsApart /\ t \in Run /\ t.job \in Jobs /\ job[t.job].state = "running"
      /\ Driven
  BY DEF DrivenInv, PauseInv, PausePart, TypeOK, Run, RunHolds
<1>1. CASE ReadCampaign(t)
  <2>1. CASE status = "sending"
    <3>1. PICK u : Replace(t, u) /\ u.pc = "fetch" /\ u.job = t.job
      BY <1>0, <1>1, <2>1, GotoLeaves DEF ReadCampaign, Places
    <3> QED
      BY <1>1, <3>1, GoesOnDriving DEF ReadCampaign, rows, ghosts
  <2>2. CASE status # "sending"
    BY <1>1, <2>2 DEF ReadCampaign, rows, Driven
  <2> QED
    BY <2>1, <2>2
<1>2. CASE FetchBatch(t)
  <2> DEFINE u == [t EXCEPT !.batch = FirstPending, !.gen = frozen,
                          !.pc = IF Pending = {} THEN "complete" ELSE "gate"]
  <2>1. u.job = t.job /\ u.pc # "succeed"
    BY <1>0 DEF Run
  <2>2. Replace(t, u) /\ UNCHANGED <<status, job, requests, lost>>
    BY <1>2 DEF FetchBatch, rows, ghosts
  <2> HIDE DEF u
  <2> QED
    BY <2>1, <2>2, GoesOnDriving
<1>3. CASE Complete(t)
  BY <1>3 DEF Complete, Driven
<1>4. CASE SkipUnmergeable(t)
  <2>1. PICK u : Replace(t, u) /\ u.pc \in {"chain", "gate"} /\ u.job = t.job
    BY <1>0, <1>4, NextRowLeaves DEF SkipUnmergeable
  <2> QED
    BY <1>4, <2>1, GoesOnDriving DEF SkipUnmergeable, TakenUp
<1>5. CASE ReadGate(t)
  <2>1. PICK u : Replace(t, u) /\ u.pc = "record" /\ u.job = t.job
    BY <1>0, <1>5, ReadGateLeaves DEF ReadGate
  <2> QED
    BY <1>5, <2>1, GoesOnDriving DEF ReadGate, rows, TakenUp
<1>6. CASE RecordDuplicate(t)
  <2>1. PICK u : Replace(t, u) /\ u.pc = "note" /\ u.job = t.job
    BY <1>0, <1>6, DuplicateLeaves
  <2> QED
    BY <1>6, <2>1, GoesOnDriving DEF RecordDuplicate, rows, ghosts
<1>7. CASE RecordNew(t)
  <2>1. PICK u : Replace(t, u) /\ u.pc # "succeed" /\ u.job = t.job
    BY <1>0, <1>7, RecordLeaves
  <2> QED
    BY <1>7, <2>1, GoesOnDriving DEF RecordNew, rows, ghosts
<1>8. CASE DeliverNow(t)
  <2>1. PICK out : Replace(t, Noted(t, out))
    BY <1>8 DEF DeliverNow, Noted
  <2>2. Noted(t, out).pc = "note" /\ Noted(t, out).job = t.job
    BY <1>0, NoteLeaves
  <2> QED
    BY <1>8, <2>1, <2>2, GoesOnDriving DEF DeliverNow, rows, ghosts
<1>9. CASE NoteOutcome(t)
  <2>1. PICK u : Replace(t, u) /\ u.pc # "succeed" /\ u.job = t.job
    BY <1>0, <1>9, GotoLeaves, NextRowLeaves DEF NoteOutcome, Places
  <2> QED
    BY <1>9, <2>1, GoesOnDriving DEF NoteOutcome, rows, ghosts
<1>10. CASE EnqueueNextBatch(t)
  <2>1. PICK u : Replace(t, u) /\ u.pc = "succeed" /\ u.job = t.job
    BY <1>0, <1>10, GotoLeaves DEF EnqueueNextBatch, Places
  <2>2. \E j \in Jobs : job'[j].state = "pending"
    BY <1>0, <1>10, PlantDrives DEF EnqueueNextBatch
  <2> QED
    BY <2>2 DEF Driven, Drives
<1>11. CASE Settle(t)
  <2>1. /\ runs' = runs \ {t} /\ UNCHANGED <<status, requests>>
        /\ \A j \in Jobs : j # t.job => job'[j] = job[j]
    BY <1>0, <1>11 DEF Settle, TypeOK, rows
  <2>2. \A j \in Jobs \ {t.job} : Drives(j) => Drives(j)'
    BY <2>1 DEF Drives
  <2>3. CASE t.pc = "succeed"
    <3>1. ~Drives(t.job)
      BY <1>0, <2>3 DEF Drives
    <3>2. lost' = lost
      BY <1>11, <2>3 DEF Settle
    <3>3. \A j \in Jobs : Drives(j) => Drives(j)'
      BY <2>2, <3>1
    <3> QED
      BY <1>0, <2>1, <3>2, <3>3, StillDriven
  <2>4. CASE t.pc = "throw" /\ job[t.job].attempts >= MaxAttempts
    <3>1. lost' # {}
      BY <1>11, <2>4 DEF Settle
    <3> QED
      BY <3>1 DEF Driven
  <2>5. CASE t.pc = "throw" /\ ~(job[t.job].attempts >= MaxAttempts)
    <3>1. job'[t.job].state = "pending"
      BY <1>0, <1>11, <2>5 DEF Settle, TypeOK
    <3> QED
      BY <1>0, <3>1 DEF Driven, Drives
  <2> QED
    BY <1>11, <2>3, <2>4, <2>5 DEF Settle
<1> QED
  BY <1>1, <1>2, <1>3, <1>4, <1>5, <1>6, <1>7, <1>8, <1>9, <1>10, <1>11 DEF RunStep

LEMMA DrivenNext ==
  ASSUME DrivenInv, [Next]_vars
  PROVE  DrivenInv'
<1>0. TypeOK /\ Driven /\ PauseInv' /\ \A t \in runs : job[t.job].state = "running"
  BY PauseNext DEF DrivenInv, PauseInv, PausePart, RunHolds
<1>9. SendOrResume'
  <2>1. CASE \A q \in requests' \ requests : q.pc # "enqueue"
    BY <2>1 DEF SendOrResume, DrivenInv
  <2>2. ASSUME NEW k \in Kinds, Ask(k) PROVE \A q \in requests' \ requests : q.pc # "enqueue"
    BY <2>2 DEF Ask
  <2>3. ASSUME NEW q \in requests, RequestStep(q) PROVE SendOrResume'
    <3>1. CASE BuildAudience(q) \/ CountPending(q)
      <4>1. \A o \in requests' \ requests : o.pc = "write"
        BY <1>0, <3>1 DEF BuildAudience, CountPending, Answer, Onward, TypeOK, Request
      <4> QED
        BY <2>1, <4>1
    <3>2. CASE FreezeAudience(q) \/ EnqueueFirstBatch(q) \/ Pause(q)
      BY <2>1, <3>2 DEF FreezeAudience, EnqueueFirstBatch, Pause, Answer
    <3>3. CASE MarkSending(q)
      <4>1. requests' = (requests \ {q}) \cup {[q EXCEPT !.pc = "enqueue"]}
            /\ q.kind \in {"send", "resume"}
        BY <3>3 DEF MarkSending, Onward
      <4>2. [q EXCEPT !.pc = "enqueue"].kind = q.kind
        BY <1>0 DEF TypeOK, Request
      <4> QED
        BY <4>1, <4>2 DEF SendOrResume, DrivenInv
    <3> QED
      BY <2>3, <3>1, <3>2, <3>3 DEF RequestStep
  <2>4. ASSUME NEW t \in runs, RunStep(t) PROVE requests' = requests
    BY <2>4 DEF RunStep, ReadCampaign, FetchBatch, Complete, SkipUnmergeable, ReadGate,
       RecordDuplicate, RecordNew, DeliverNow, NoteOutcome, EnqueueNextBatch, Settle
  <2>5. ASSUME \/ \E j \in Jobs : Claim(j) \/ Reclaim(j)
               \/ \E r \in Recipients : DeliverLater(r) \/ Unsubscribe(r)
               \/ Exit \/ UNCHANGED vars
        PROVE  requests' \subseteq requests
    BY <2>5 DEF Claim, Reclaim, DeliverLater, Unsubscribe, Exit, vars
  <2> QED
    BY <2>1, <2>2, <2>3, <2>4, <2>5 DEF Next
<1>1. ASSUME NEW k \in Kinds, Ask(k) PROVE Driven'
  BY <1>0, <1>1 DEF Ask, Driven, Drives, rows, ghosts
<1>2. ASSUME NEW q \in requests, RequestStep(q) PROVE Driven'
  <2>1. CASE BuildAudience(q) \/ FreezeAudience(q) \/ CountPending(q)
    <3>1. UNCHANGED <<status, job, runs, lost>> /\ requests \ {q} \subseteq requests'
      BY <2>1 DEF BuildAudience, FreezeAudience, CountPending, Answer, Onward, rows, ghosts
    <3>2. q.pc # "enqueue"
      BY <2>1 DEF BuildAudience, FreezeAudience, CountPending
    <3> QED
      BY <1>0, <3>1, <3>2 DEF Driven, Drives
  <2>2. CASE MarkSending(q)
    <3>1. [q EXCEPT !.pc = "enqueue"] \in requests'
      BY <2>2 DEF MarkSending, Onward
    <3>2. [q EXCEPT !.pc = "enqueue"].pc = "enqueue"
      BY <1>0 DEF TypeOK, Request
    <3> QED
      BY <3>1, <3>2 DEF Driven
  <2>3. CASE EnqueueFirstBatch(q)
    <3>1. CASE \E j \in Jobs : job'[j].state = "pending"
      BY <3>1 DEF Driven, Drives
    <3>2. CASE q.kind # "resume" /\ FirstKeyTaken /\ UNCHANGED job
      <4>1. PICK j \in Jobs : job[j].state \in {"pending", "running"} /\ ~job[j].own
        BY <3>2 DEF FirstKeyTaken
      <4>2. CASE Drives(j)
        BY <2>3, <3>2, <4>2 DEF EnqueueFirstBatch, Driven, Drives
      <4>3. CASE ~Drives(j)
        <5>1. PICK t \in runs : t.job = j /\ t.pc = "succeed" /\ job[j].state = "running"
          BY <4>1, <4>3 DEF Drives
        <5>2. q.kind = "send"
          BY <2>3, <3>2 DEF EnqueueFirstBatch, SendOrResume, DrivenInv
        <5>3. DroppedForNothing(q)
          BY <4>1, <5>1, <5>2 DEF DroppedForNothing
        <5>4. lost' # {}
          BY <2>3, <5>3 DEF EnqueueFirstBatch
        <5> QED
          BY <5>4 DEF Driven
      <4> QED
        BY <4>2, <4>3
    <3> QED
      BY <1>0, <2>3, <3>1, <3>2, PlantDrives DEF EnqueueFirstBatch
  <2>4. CASE Pause(q)
    BY <2>4 DEF Pause, Driven
  <2> QED
    BY <1>2, <2>1, <2>2, <2>3, <2>4 DEF RequestStep
<1>3. ASSUME NEW j \in Jobs, Claim(j) PROVE Driven'
  <2> DEFINE u == [job |-> j, gen |-> 0, batch |-> {}, pc |-> "status",
                   way |-> "none", out |-> "none", id |-> "own"]
  <2>1. u.job = j /\ u.pc = "status"
    OBVIOUS
  <2>2. /\ runs' = runs \cup {u} /\ UNCHANGED <<status, requests, lost>>
        /\ job[j].state = "pending" /\ job'[j].state = "running"
        /\ \A i \in Jobs : i # j => job'[i] = job[i]
    BY <1>0, <1>3 DEF Claim, TypeOK, rows, ghosts
  <2> HIDE DEF u
  <2>3. Drives(j)'
    BY <1>0, <2>1, <2>2 DEF Drives
  <2>4. \A i \in Jobs : Drives(i) => Drives(i)'
    BY <2>1, <2>2, <2>3 DEF Drives
  <2> QED
    BY <1>0, <2>2, <2>4, StillDriven
<1>4. ASSUME NEW j \in Jobs, Reclaim(j) PROVE Driven'
  <2>1. /\ UNCHANGED <<status, requests, lost, runs>> /\ job'[j].state = "pending"
        /\ \A i \in Jobs : i # j => job'[i] = job[i]
    BY <1>0, <1>4 DEF Reclaim, TypeOK, rows, ghosts
  <2>2. \A i \in Jobs : Drives(i) => Drives(i)'
    BY <2>1 DEF Drives
  <2> QED
    BY <1>0, <2>1, <2>2, StillDriven
<1>5. ASSUME NEW t \in runs, RunStep(t) PROVE Driven'
  BY <1>5, DrivenRun
<1>6. ASSUME NEW r \in Recipients, DeliverLater(r) \/ Unsubscribe(r) PROVE Driven'
  BY <1>0, <1>6 DEF DeliverLater, Unsubscribe, Driven, Drives, rows, ghosts
<1>7. ASSUME Exit PROVE Driven'
  <2>1. runs' = {} /\ status' = status /\ job' = job
    BY <1>7 DEF Exit, rows
  <2>2. CASE \E q \in requests : q.pc = "enqueue"
    <3>1. lost' # {}
      BY <1>7, <2>2 DEF Exit
    <3> QED
      BY <3>1 DEF Driven
  <2>3. CASE ~\E q \in requests : q.pc = "enqueue"
    <3>1. lost' = lost
      BY <1>7, <2>3 DEF Exit
    <3>2. \A j \in Jobs : Drives(j) => Drives(j)'
      BY <2>1 DEF Drives
    <3> QED
      BY <1>0, <2>1, <2>3, <3>1, <3>2 DEF Driven
  <2> QED
    BY <2>2, <2>3
<1>8. ASSUME UNCHANGED vars PROVE Driven'
  BY <1>0, <1>8 DEF vars, Driven, Drives
<1> QED
  BY <1>0, <1>1, <1>2, <1>3, <1>4, <1>5, <1>6, <1>7, <1>8, <1>9 DEF Next, DrivenInv

(* A campaign that says it is sending has a job that will take its next    *)
(* batch or a request about to plant one (campaign.ts:193), but for the    *)
(* three ways `lost` names: for any number of sends, pauses, chains, rows  *)
(* and exits.                                                              *)
THEOREM SendsAreDriven == Spec => []SendingIsDriven
<1>1. Init => DrivenInv
  BY CampaignAssumption DEF Init, Free, TypeOK, PauseInv, PausePart, RunsApart,
     PauseStopsTheNextBatch, DrivenInv, SendOrResume, Driven
<1>2. DrivenInv /\ [Next]_vars => DrivenInv'
  BY DrivenNext
<1>3. DrivenInv => SendingIsDriven
  BY DEF DrivenInv, Driven, Drives, SendingIsDriven
<1> QED
  BY <1>1, <1>2, <1>3, PTL DEF Spec
=============================================================================
