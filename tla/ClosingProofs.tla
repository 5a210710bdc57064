----------------------------- MODULE ClosingProofs -----------------------------
(***************************************************************************)
(* Proofs about what a file needs before it pays, the stories of MCClosing:*)
(* Compliance for any applicants, checklist and number of requests at once,*)
(* Funding (Deal), Documents (Papers) and AuditChain (Log) for any amounts,*)
(* rows and writers.                                                       *)
(***************************************************************************)
EXTENDS MCClosing, FiniteSetTheorems, SequenceTheorems, TLAPS

-----------------------------------------------------------------------------
(* What the tables and the requests hold.  TypeOK is not inductive: which  *)
(* items there are when the FINTRAC row is written, and whether a case is  *)
(* there when an assessment is, depends on what each request has read.     *)

Kinds == {"view", "refresh", "item", "rationale", "fintrac", "reassess", "override", "decide"}
Places ==
  {"open", "insert_case", "insert_item", "gather", "is_assessed", "risk_facts", "supersede",
   "assess", "read_assessment", "write_override", "read_items", "sync", "write_item",
   "write_rationale", "write_fintrac", "judge_items", "judge_risk", "judge_fintrac",
   "write_decision"}
Ratings == {"", "low", "high", "review_required"}
Words ==
  Statuses \cup {"", "none", "draft", "submitted", "unsaid", "unscreened", "clear", "match",
                 "low", "review_required", "approved", "changes_requested"}
Answers == [Derived -> BOOLEAN]
Corrections == UNION {[D -> {"complete", "outstanding"}] : D \in SUBSET Derived}

Op == [at : Places, kind : Kinds, item : Items \cup {""}, to : Words, complete : BOOLEAN,
       seen : {<<>>} \cup Answers \cup Corrections, old : SUBSET Nat, next : Nat,
       rating : Ratings]

Row == [state : {"unwritten", "current", "superseded"}, rating : Ratings, override : Words]

Judging == {"judge_items", "judge_risk", "judge_fintrac", "write_decision"}
Rated == {"risk_facts", "supersede", "assess"}

(* What a request under way is entitled to find when it goes on.           *)
Stands(op) ==
  /\ op.at \notin {"open", "insert_case"} => case # NoCase
  /\ op.at \in {"open", "insert_case", "insert_item"} => op.kind \in {"view", "rationale"}
  /\ op.at = "insert_item" =>
       op.next >= 1 /\ \A i \in DOMAIN Template : i < op.next => Template[i] \in DOMAIN items
  /\ op.at = "gather" => op.kind \in {"view", "refresh", "decide", "item"}
  /\ op.at = "is_assessed" => op.kind = "view"
  /\ op.at \in Rated => op.kind \in {"view", "fintrac", "reassess"}
  /\ op.at \in {"is_assessed", "read_items", "judge_items"} => op.seen \in Answers
  /\ op.at \in Rated /\ op.kind = "view" => op.seen \in Answers
  /\ op.at = "sync" => op.seen \in Corrections
  /\ op.at = "write_item" => op.kind = "item"
  /\ op.kind = "item" =>
       op.item \in DOMAIN items /\ op.to \in Statuses /\ op.at \in {"gather", "write_item"}
  /\ op.at \in Judging => op.kind = "decide"
  /\ op.kind = "decide" =>
       op.to \in {"approved", "changes_requested"} /\ op.at \in {"gather"} \cup Judging
  /\ op.at = "write_fintrac" => op.kind = "fintrac"
  /\ op.at \in {"assess", "write_override"} => op.next \in DOMAIN assessments

Tables ==
  /\ case \in {NoCase, "in_progress", "approved", "changes_requested"}
  /\ DOMAIN items \subseteq Items /\ \A one \in DOMAIN items : items[one] \in Statuses
  /\ DOMAIN items # {} => case # NoCase
  /\ assessments \in Seq(Row)
  /\ \A i \in DOMAIN assessments : assessments[i].state = "unwritten" \/ case # NoCase
  /\ fintrac \in Seq([pep : Words, completed : BOOLEAN])
  /\ Len(fintrac) <= 1 /\ (Len(fintrac) # 0 => DOMAIN items = Items)
  /\ verified \subseteq applicants

Requests ==
  /\ work \in [Clerks -> Op \cup {Idle}]
  /\ \A w \in Clerks : work[w] # Idle => Stands(work[w])

TypeInv == Tables /\ Requests

(* What the next request of w needs is a matter of w's own record, as long *)
(* as the tables only grow.                                                *)
LEMMA OneMoves ==
  ASSUME TypeInv, Tables', NEW v \in Clerks, NEW op,
         work' = [work EXCEPT ![v] = op],
         case # NoCase => case' # NoCase,
         DOMAIN items \subseteq DOMAIN items',
         DOMAIN assessments \subseteq DOMAIN assessments',
         op = Idle \/ (op \in Op /\ Stands(work[v])')
  PROVE  TypeInv'
<1>1. work \in [Clerks -> Op \cup {Idle}]
  BY DEF TypeInv, Requests
<1>2. work' \in [Clerks -> Op \cup {Idle}]
  BY <1>1
<1>3. ASSUME NEW w \in Clerks, w # v, work'[w] # Idle PROVE Stands(work[w])'
  <2>1. work'[w] = work[w] /\ Stands(work[w])
    BY <1>1, <1>3 DEF TypeInv, Requests
  <2> QED
    BY <2>1 DEF Stands
<1>4. work'[v] # Idle => Stands(work[v])'
  BY <1>1
<1> QED
  BY <1>2, <1>3, <1>4 DEF TypeInv, Requests

(* The file as it was.                                                     *)
LEMMA OnlyOneMoves ==
  ASSUME TypeInv, NEW v \in Clerks, NEW op,
         work' = [work EXCEPT ![v] = op], UNCHANGED file,
         op = Idle \/ (op \in Op /\ Stands(work[v])')
  PROVE  TypeInv'
<1>1. Tables'
  BY DEF TypeInv, Tables, file
<1> QED
  BY <1>1, OneMoves DEF file

LEMMA OpOf ==
  ASSUME TypeInv, NEW v \in Clerks, work[v] # Idle
  PROVE  work[v] \in Op /\ Stands(work[v])
  BY DEF TypeInv, Requests

(* The fields of a request that goes on to another place.                  *)
LEMMA Onward ==
  ASSUME NEW op \in Op, NEW at \in Places
  PROVE  [op EXCEPT !.at = at] \in Op
  BY DEF Op

-----------------------------------------------------------------------------
(* The steps that only read.                                               *)

LEMMA ReadsKeepTypes ==
  ASSUME TypeInv, NEW v \in Clerks, work[v] # Idle,
         \/ OpenRead(v) \/ Gather(v) \/ IsAssessed(v) \/ RiskFacts(v) \/ ReadAssessment(v)
         \/ ReadItems(v) \/ JudgeItems(v) \/ JudgeRisk(v) \/ JudgeFintrac(v)
  PROVE  TypeInv'
<1> USE DEF To, Go, Done
<1>0. work[v] \in Op /\ Stands(work[v])
  BY OpOf
<1>1. /\ UNCHANGED file /\ work \in [Clerks -> Op \cup {Idle}]
      /\ case' = case /\ items' = items /\ assessments' = assessments
  BY DEF OpenRead, Gather, IsAssessed, RiskFacts, ReadAssessment, ReadItems, JudgeItems,
     JudgeRisk, JudgeFintrac, file, TypeInv, Requests
<1>2. CASE OpenRead(v)
  <2>1. PICK at \in {AfterOpen(work[v]), "insert_case"} :
          /\ work' = [work EXCEPT ![v] = [work[v] EXCEPT !.at = at]]
          /\ at # "insert_case" => case # NoCase
    BY <1>2 DEF OpenRead
  <2>2. work[v].kind \in {"view", "rationale"} /\ at \in {"gather", "write_rationale", "insert_case"}
    BY <1>0, <1>2 DEF OpenRead, Stands, AfterOpen
  <2>3. (at = "gather" => work[v].kind = "view")
    BY <2>1, <2>2 DEF AfterOpen
  <2>4. [work[v] EXCEPT !.at = at] \in Op
    BY <1>0, <2>2, Onward DEF Places
  <2>5. Stands(work[v])'
    BY <1>0, <1>1, <2>1, <2>2, <2>3 DEF Stands, Op, Rated, Judging
  <2> QED
    BY <1>1, <2>1, <2>4, <2>5, OnlyOneMoves
<1>3. CASE Gather(v)
  <2>1. Evidence \in Answers
    <3>1. \A one \in Derived : Derive(one) \in BOOLEAN
      BY DEF Derived, Derivable, Derive
    <3> QED
      BY <3>1 DEF Evidence, Answers
  <2>2. \/ work' = [work EXCEPT ![v] = Idle]
        \/ /\ work[v].kind = "item"
           /\ work' = [work EXCEPT ![v] = [work[v] EXCEPT !.at = "write_item"]]
        \/ \E at \in {"is_assessed", "read_items", "judge_items"} :
             /\ work' = [work EXCEPT ![v] = [work[v] EXCEPT !.at = at, !.seen = Evidence]]
             /\ at = "is_assessed" => work[v].kind = "view"
             /\ at = "read_items" => work[v].kind = "refresh"
             /\ at = "judge_items" => work[v].kind = "decide"
    BY <1>0, <1>3 DEF Gather, Stands
  <2>3. ASSUME work[v].kind = "item",
               work' = [work EXCEPT ![v] = [work[v] EXCEPT !.at = "write_item"]]
        PROVE  TypeInv'
    <3>1. [work[v] EXCEPT !.at = "write_item"] \in Op
      BY <1>0, Onward DEF Places
    <3>2. Stands(work[v])'
      BY <1>0, <1>1, <1>3, <2>3 DEF Gather, Stands, Op, Rated, Judging
    <3> QED
      BY <1>1, <2>3, <3>1, <3>2, OnlyOneMoves
  <2>4. ASSUME NEW at \in {"is_assessed", "read_items", "judge_items"},
               work' = [work EXCEPT ![v] = [work[v] EXCEPT !.at = at, !.seen = Evidence]],
               at = "is_assessed" => work[v].kind = "view",
               at = "read_items" => work[v].kind = "refresh",
               at = "judge_items" => work[v].kind = "decide"
        PROVE  TypeInv'
    <3>1. PICK seen \in Answers : seen = Evidence
      BY <2>1
    <3>2. [work[v] EXCEPT !.at = at, !.seen = seen] \in Op
      BY <1>0 DEF Op, Places
    <3>3. work' = [work EXCEPT ![v] = [work[v] EXCEPT !.at = at, !.seen = seen]]
      BY <2>4, <3>1
    <3>4. /\ work'[v].at = at /\ work'[v].seen = seen /\ work'[v].kind = work[v].kind
          /\ work'[v].to = work[v].to /\ work'[v].item = work[v].item
      BY <1>0, <1>1, <3>3 DEF Op
    <3>5. work[v].at = "gather" /\ work[v].kind # "item"
      BY <1>3, <2>4 DEF Gather
    <3>6. Stands(work[v])'
      BY <1>0, <1>1, <2>4, <3>4, <3>5 DEF Stands, Rated, Judging
    <3> QED
      BY <1>1, <3>2, <3>3, <3>6, OnlyOneMoves
  <2>5. ASSUME work' = [work EXCEPT ![v] = Idle] PROVE TypeInv'
    BY <1>1, <2>5, OnlyOneMoves
  <2> QED
    BY <2>2, <2>3, <2>4, <2>5
<1>4. CASE IsAssessed(v)
  <2>1. PICK at \in {"risk_facts", "read_items"} :
          work' = [work EXCEPT ![v] = [work[v] EXCEPT !.at = at]]
    BY <1>4 DEF IsAssessed
  <2>2. [work[v] EXCEPT !.at = at] \in Op
    BY <1>0, Onward DEF Places
  <2>3. /\ work'[v].at = at /\ work'[v].kind = work[v].kind
        /\ work'[v].seen = work[v].seen
    BY <1>0, <1>1, <2>1 DEF Op
  <2>4. Stands(work[v])'
    BY <1>0, <1>1, <1>4, <2>3 DEF IsAssessed, Stands, Rated, Judging
  <2> QED
    BY <1>1, <2>1, <2>2, <2>4, OnlyOneMoves
<1>5. CASE RiskFacts(v)
  <2>1. PICK rating \in Ratings : rating = Rating
    BY DEF Rating, Ratings
  <2>2. work' = [work EXCEPT ![v] = [work[v] EXCEPT !.at = "supersede", !.rating = rating]]
    BY <1>5, <2>1 DEF RiskFacts
  <2>3. [work[v] EXCEPT !.at = "supersede", !.rating = rating] \in Op
    BY <1>0 DEF Op, Places
  <2>4. /\ work'[v].at = "supersede" /\ work'[v].kind = work[v].kind
        /\ work'[v].seen = work[v].seen
    BY <1>0, <1>1, <2>2 DEF Op
  <2>5. Stands(work[v])'
    BY <1>0, <1>1, <1>5, <2>4 DEF RiskFacts, Stands, Rated, Judging
  <2> QED
    BY <1>1, <2>2, <2>3, <2>5, OnlyOneMoves
<1>6. CASE ReadAssessment(v)
  <2>1. CASE work' = [work EXCEPT ![v] = Idle]
    BY <1>1, <2>1, OnlyOneMoves
  <2>2. ASSUME NEW i \in Latest,
               work' = [work EXCEPT ![v] = [work[v] EXCEPT !.at = "write_override", !.next = i]]
        PROVE  TypeInv'
    <3>1. i \in DOMAIN assessments /\ i \in Nat
      BY DEF Latest, Current, TypeInv, Tables
    <3>2. [work[v] EXCEPT !.at = "write_override", !.next = i] \in Op
      BY <1>0, <3>1 DEF Op, Places
    <3>3. Stands(work[v])'
      BY <1>0, <1>1, <1>6, <2>2, <3>1 DEF ReadAssessment, Stands, Op, Rated, Judging
    <3> QED
      BY <1>1, <2>2, <3>2, <3>3, OnlyOneMoves
  <2> QED
    BY <1>6, <2>1, <2>2 DEF ReadAssessment
<1>7. CASE ReadItems(v)
  <2>1. CASE work' = [work EXCEPT ![v] = Idle]
    BY <1>1, <2>1, OnlyOneMoves
  <2>2. CASE work' # [work EXCEPT ![v] = Idle]
    <3> DEFINE changed == {one \in Derived \cap DOMAIN items :
                 items[one] \notin {"not_applicable",
                                     IF work[v].seen[one] THEN "complete" ELSE "outstanding"}}
               answers == [one \in changed |->
                            IF work[v].seen[one] THEN "complete" ELSE "outstanding"]
    <3>1. work' = [work EXCEPT ![v] = [work[v] EXCEPT !.at = "sync", !.seen = answers]]
      BY <1>7, <2>2 DEF ReadItems
    <3>2. answers \in Corrections
      <4>1. answers \in [changed -> {"complete", "outstanding"}]
        OBVIOUS
      <4>2. changed \in SUBSET Derived
        OBVIOUS
      <4> HIDE DEF answers, changed
      <4> QED
        BY <4>1, <4>2 DEF Corrections
    <3>3. PICK seen \in Corrections : seen = answers
      BY <3>2
    <3> HIDE DEF answers
    <3>4. work' = [work EXCEPT ![v] = [work[v] EXCEPT !.at = "sync", !.seen = seen]]
      BY <3>1, <3>3
    <3>5. [work[v] EXCEPT !.at = "sync", !.seen = seen] \in Op
      BY <1>0 DEF Op, Places
    <3>6. Stands(work[v])'
      BY <1>0, <1>1, <1>7, <3>4 DEF ReadItems, Stands, Op, Rated, Judging
    <3> QED
      BY <1>1, <3>4, <3>5, <3>6, OnlyOneMoves
  <2> QED
    BY <2>1, <2>2
<1>8. CASE JudgeItems(v)
  <2>1. CASE work' = [work EXCEPT ![v] = Idle]
    BY <1>1, <2>1, OnlyOneMoves
  <2>2. CASE work' = [work EXCEPT ![v] = [work[v] EXCEPT !.at = "judge_risk", !.seen = <<>>]]
    <3>1. [work[v] EXCEPT !.at = "judge_risk", !.seen = <<>>] \in Op
      BY <1>0 DEF Op, Places
    <3>2. Stands(work[v])'
      BY <1>0, <1>1, <1>8, <2>2 DEF JudgeItems, Stands, Op, Rated, Judging
    <3> QED
      BY <1>1, <2>2, <3>1, <3>2, OnlyOneMoves
  <2> QED
    BY <1>8, <2>1, <2>2 DEF JudgeItems
<1>9. CASE JudgeRisk(v) \/ JudgeFintrac(v)
  <2>1. CASE work' = [work EXCEPT ![v] = Idle]
    BY <1>1, <2>1, OnlyOneMoves
  <2>2. ASSUME NEW at \in {"judge_fintrac", "write_decision"},
               work' = [work EXCEPT ![v] = [work[v] EXCEPT !.at = at]]
        PROVE  TypeInv'
    <3>1. [work[v] EXCEPT !.at = at] \in Op
      BY <1>0, Onward DEF Places
    <3>2. Stands(work[v])'
      BY <1>0, <1>1, <1>9, <2>2 DEF JudgeRisk, JudgeFintrac, Stands, Op, Rated, Judging
    <3> QED
      BY <1>1, <2>2, <3>1, <3>2, OnlyOneMoves
  <2> QED
    BY <1>9, <2>1, <2>2 DEF JudgeRisk, JudgeFintrac
<1> QED
  BY <1>2, <1>3, <1>4, <1>5, <1>6, <1>7, <1>8, <1>9

-----------------------------------------------------------------------------
(* The steps that write.                                                   *)

(* What a write to one of the tables leaves of the others.                 *)
LEMMA WritesKeepTypes ==
  ASSUME ComplianceAssumption, TypeInv, NEW v \in Clerks, work[v] # Idle,
         \/ InsertCase(v) \/ Materialise(v) \/ Sync(v) \/ WriteItem(v) \/ WriteRationale(v)
         \/ WriteFintrac(v) \/ WriteDecision(v)
  PROVE  TypeInv'
<1> USE DEF To, Go, Done
<1>0. work[v] \in Op /\ Stands(work[v]) /\ work \in [Clerks -> Op \cup {Idle}]
  BY OpOf DEF TypeInv, Requests
<1>1. Tables
  BY DEF TypeInv
<1>2. CASE InsertCase(v)
  <2>1. UNCHANGED <<items, fintrac, applicants, verified, assessments>>
    BY <1>2 DEF InsertCase
  <2>2. CASE case # NoCase
    <3>1. case' = case /\ work' = [work EXCEPT ![v] = Idle]
      BY <1>2, <2>2 DEF InsertCase
    <3>2. Tables'
      BY <1>1, <2>1, <3>1 DEF Tables
    <3> QED
      BY <2>1, <3>1, <3>2, OneMoves
  <2>3. CASE case = NoCase
    <3>1. /\ case' = "in_progress" /\ case' # NoCase
          /\ work' = [work EXCEPT ![v] = [work[v] EXCEPT !.at = "insert_item", !.next = 1]]
      BY <1>2, <2>3 DEF InsertCase, NoCase
    <3>2. Tables'
      BY <1>1, <2>1, <3>1 DEF Tables
    <3>3. [work[v] EXCEPT !.at = "insert_item", !.next = 1] \in Op
      BY <1>0 DEF Op, Places
    <3>4. /\ work'[v].at = "insert_item" /\ work'[v].next = 1
          /\ work'[v].kind = work[v].kind
      BY <1>0, <3>1 DEF Op
    <3>5. work[v].kind \in {"view", "rationale"}
      BY <1>0, <1>2 DEF InsertCase, Stands
    <3>6. \A i \in DOMAIN Template : i \in Nat /\ i >= 1
      <4>1. Template \in Seq(STRING \ {"risk", "fintrac"})
        BY DEF ComplianceAssumption
      <4>2. DOMAIN Template = 1..Len(Template) /\ Len(Template) \in Nat
        BY <4>1
      <4> QED
        BY <4>2
    <3>7. Stands(work[v])'
      BY <3>1, <3>4, <3>5, <3>6 DEF Stands, Rated, Judging
    <3> QED
      BY <2>1, <2>3, <3>1, <3>2, <3>3, <3>7, OneMoves
  <2> QED
    BY <2>2, <2>3
<1>3. CASE Materialise(v)
  <2>1. UNCHANGED <<case, applicants, verified, assessments>>
    BY <1>3 DEF Materialise
  <2>2. case # NoCase /\ work[v].kind \in {"view", "rationale"} /\ work[v].at = "insert_item"
    BY <1>0, <1>3 DEF Materialise, Stands
  <2>3. /\ Template \in Seq(STRING \ {"risk", "fintrac"})
        /\ DOMAIN Template = 1..Len(Template) /\ Len(Template) \in Nat
    <3>1. Template \in Seq(STRING \ {"risk", "fintrac"})
      BY DEF ComplianceAssumption
    <3> QED
      BY <3>1
  <2>4. /\ work[v].next \in Nat /\ work[v].next >= 1
        /\ \A i \in DOMAIN Template : i < work[v].next => Template[i] \in DOMAIN items
    BY <1>0, <2>2 DEF Op, Stands
  <2>5. CASE work[v].next \in DOMAIN Template
    <3> DEFINE n == work[v].next
    <3>1. /\ items' = [one \in DOMAIN items \cup {Template[n]} |->
                         IF one \in DOMAIN items THEN items[one] ELSE "outstanding"]
          /\ work' = [work EXCEPT ![v] = [work[v] EXCEPT !.next = n + 1]]
          /\ UNCHANGED fintrac
      BY <1>3, <2>5 DEF Materialise
    <3>2. /\ DOMAIN items' = DOMAIN items \cup {Template[n]} /\ Template[n] \in Items
          /\ \A one \in DOMAIN items' : items'[one] \in Statuses
      BY <1>1, <2>5, <3>1 DEF Items, Tables, Statuses
    <3>3. Tables'
      BY <1>1, <2>1, <2>2, <3>1, <3>2 DEF Tables
    <3>4. [work[v] EXCEPT !.next = n + 1] \in Op
      <4>1. PICK m \in Nat : m = n + 1
        BY <2>4
      <4>2. [work[v] EXCEPT !.next = m] \in Op
        BY <1>0 DEF Op
      <4> QED
        BY <4>1, <4>2
    <3>5. /\ work'[v].at = "insert_item" /\ work'[v].next = n + 1
          /\ work'[v].kind = work[v].kind
      BY <1>0, <2>2, <3>1 DEF Op
    <3>6. \A i \in DOMAIN Template : i < n + 1 => Template[i] \in DOMAIN items'
      BY <2>3, <2>4, <3>2
    <3>7. Stands(work[v])'
      BY <2>1, <2>2, <2>4, <3>5, <3>6 DEF Stands, Rated, Judging
    <3> QED
      BY <2>1, <3>1, <3>2, <3>3, <3>4, <3>7, OneMoves
  <2>6. CASE work[v].next \notin DOMAIN Template
    <3>1. /\ fintrac' = IF fintrac = <<>> THEN <<Blank>> ELSE fintrac
          /\ work' = [work EXCEPT ![v] = [work[v] EXCEPT !.at = AfterOpen(work[v]), !.next = 0]]
          /\ UNCHANGED items
      BY <1>3, <2>6 DEF Materialise
    <3>2. DOMAIN items = Items
      <4>1. \A i \in DOMAIN Template : Template[i] \in DOMAIN items
        BY <2>3, <2>4, <2>6
      <4> QED
        BY <1>1, <4>1 DEF Items, Tables
    <3>3. fintrac' \in Seq([pep : Words, completed : BOOLEAN]) /\ Len(fintrac') <= 1
      <4>1. Blank \in [pep : Words, completed : BOOLEAN]
        BY DEF Blank, Words
      <4>2. <<Blank>> \in Seq([pep : Words, completed : BOOLEAN]) /\ Len(<<Blank>>) = 1
        BY <4>1
      <4>3. fintrac \in Seq([pep : Words, completed : BOOLEAN]) /\ Len(fintrac) <= 1
        BY <1>1 DEF Tables
      <4>4. CASE fintrac = <<>>
        BY <3>1, <4>2, <4>4
      <4>5. CASE fintrac # <<>>
        BY <3>1, <4>3, <4>5
      <4> QED
        BY <4>4, <4>5
    <3>4. Tables'
      BY <1>1, <2>1, <3>1, <3>2, <3>3 DEF Tables
    <3>5. PICK at \in {"gather", "write_rationale"} :
            at = AfterOpen(work[v]) /\ (at = "gather" => work[v].kind = "view")
      BY DEF AfterOpen
    <3>6. [work[v] EXCEPT !.at = at, !.next = 0] \in Op
      BY <1>0 DEF Op, Places
    <3>7. work' = [work EXCEPT ![v] = [work[v] EXCEPT !.at = at, !.next = 0]]
      BY <3>1, <3>5
    <3>8. work'[v].at = at /\ work'[v].kind = work[v].kind
      BY <1>0, <3>7 DEF Op
    <3>9. Stands(work[v])'
      BY <2>1, <2>2, <3>5, <3>8 DEF Stands, Rated, Judging
    <3> QED
      BY <2>1, <3>1, <3>4, <3>6, <3>7, <3>9, OneMoves
  <2> QED
    BY <2>5, <2>6
<1>4. CASE Sync(v)
  <2>1. /\ UNCHANGED <<case, fintrac, applicants, verified, assessments>>
        /\ work' = [work EXCEPT ![v] = Idle] /\ DOMAIN items' = DOMAIN items
    BY <1>4 DEF Sync
  <2>2. work[v].seen \in Corrections
    BY <1>0, <1>4 DEF Sync, Stands
  <2>3. PICK D \in SUBSET Derived : work[v].seen \in [D -> {"complete", "outstanding"}]
    BY <2>2 DEF Corrections
  <2>4. \A one \in DOMAIN items' : items'[one] \in Statuses
    BY <1>1, <1>4, <2>3 DEF Sync, Tables, Statuses
  <2>5. Tables'
    BY <1>1, <2>1, <2>4 DEF Tables
  <2> QED
    BY <2>1, <2>5, OneMoves
<1>5. CASE WriteItem(v)
  <2>1. /\ UNCHANGED <<case, fintrac, applicants, verified, assessments>>
        /\ work' = [work EXCEPT ![v] = Idle] /\ DOMAIN items' = DOMAIN items
    BY <1>5 DEF WriteItem
  <2>2. work[v].to \in Statuses
    BY <1>0, <1>5 DEF WriteItem, Stands
  <2>3. \A one \in DOMAIN items' : items'[one] \in Statuses
    BY <1>1, <1>5, <2>2 DEF WriteItem, Tables
  <2>4. Tables'
    BY <1>1, <2>1, <2>3 DEF Tables
  <2> QED
    BY <2>1, <2>4, OneMoves
<1>6. CASE WriteRationale(v)
  <2>1. /\ UNCHANGED <<case, items, fintrac, applicants, verified, assessments>>
        /\ work' = [work EXCEPT ![v] = Idle]
    BY <1>6 DEF WriteRationale
  <2>2. Tables'
    BY <1>1, <2>1 DEF Tables
  <2> QED
    BY <2>1, <2>2, OneMoves
<1>7. CASE WriteFintrac(v)
  <2>1. /\ UNCHANGED <<case, items, applicants, verified, assessments>>
        /\ work' = [work EXCEPT ![v] = [work[v] EXCEPT !.at = "risk_facts"]]
    BY <1>7 DEF WriteFintrac
  <2>2. fintrac' \in Seq([pep : Words, completed : BOOLEAN]) /\ Len(fintrac') = Len(fintrac)
    <3>1. /\ fintrac \in Seq([pep : Words, completed : BOOLEAN])
          /\ DOMAIN fintrac = 1..Len(fintrac) /\ Len(fintrac) \in Nat
      <4>1. fintrac \in Seq([pep : Words, completed : BOOLEAN])
        BY <1>1 DEF Tables
      <4> QED
        BY <4>1
    <3>2. \A i \in DOMAIN fintrac :
            /\ fintrac[i].pep \in Words /\ fintrac[i].completed \in BOOLEAN
            /\ work[v].to \in Words /\ work[v].complete \in BOOLEAN
      <4>1. ASSUME NEW i \in DOMAIN fintrac
            PROVE  fintrac[i] \in [pep : Words, completed : BOOLEAN]
        BY <3>1, ElementOfSeq
      <4> QED
        BY <1>0, <4>1 DEF Op
    <3>3. \A i \in 1..Len(fintrac) :
            [pep |-> IF work[v].to = "unsaid" THEN fintrac[i].pep ELSE work[v].to,
             completed |-> fintrac[i].completed \/ work[v].complete]
              \in [pep : Words, completed : BOOLEAN]
      <4>1. ASSUME NEW i \in 1..Len(fintrac)
            PROVE  (fintrac[i].completed \/ work[v].complete) \in BOOLEAN
        BY <3>1, <3>2, Zenon
      <4> QED
        BY <3>1, <3>2, <4>1
    <3>4. fintrac' = [i \in 1..Len(fintrac) |->
            [pep |-> IF work[v].to = "unsaid" THEN fintrac[i].pep ELSE work[v].to,
             completed |-> fintrac[i].completed \/ work[v].complete]]
      BY <1>7, <3>1 DEF WriteFintrac
    <3> QED
      BY <3>1, <3>3, <3>4, IsASeq, LenProperties
  <2>3. Tables'
    BY <1>1, <2>1, <2>2 DEF Tables
  <2>4. [work[v] EXCEPT !.at = "risk_facts"] \in Op
    BY <1>0, Onward DEF Places
  <2>5. work'[v].at = "risk_facts" /\ work'[v].kind = work[v].kind
    BY <1>0, <2>1 DEF Op
  <2>6. case # NoCase /\ work[v].kind = "fintrac"
    BY <1>0, <1>7 DEF WriteFintrac, Stands
  <2>7. Stands(work[v])'
    BY <2>1, <2>5, <2>6 DEF Stands, Rated, Judging
  <2> QED
    BY <2>1, <2>3, <2>4, <2>7, OneMoves
<1>8. CASE WriteDecision(v)
  <2>1. /\ UNCHANGED <<items, fintrac, applicants, verified, assessments>>
        /\ work' = [work EXCEPT ![v] = Idle]
        /\ case' \in {"approved", "changes_requested"} /\ case' # NoCase
    BY <1>0, <1>8 DEF WriteDecision, Stands, Judging, NoCase
  <2>2. Tables'
    BY <1>1, <2>1 DEF Tables
  <2> QED
    BY <2>1, <2>2, OneMoves
<1> QED
  BY <1>2, <1>3, <1>4, <1>5, <1>6, <1>7, <1>8

(* The rows of the assessments under a write to one of their fields.       *)
LEMMA RowsRewritten ==
  ASSUME assessments \in Seq(Row), NEW New(_),
         assessments' = [i \in DOMAIN assessments |-> New(i)],
         \A i \in DOMAIN assessments : New(i) \in Row
  PROVE  assessments' \in Seq(Row) /\ DOMAIN assessments' = DOMAIN assessments
  BY IsASeq, LenProperties

LEMMA AssessmentsKeepTypes ==
  ASSUME TypeInv, NEW v \in Clerks, work[v] # Idle,
         Supersede(v) \/ Assess(v) \/ WriteOverride(v)
  PROVE  TypeInv'
<1> USE DEF To, Go, Done
<1>0. work[v] \in Op /\ Stands(work[v]) /\ work \in [Clerks -> Op \cup {Idle}]
  BY OpOf DEF TypeInv, Requests
<1>1. /\ Tables /\ case # NoCase /\ UNCHANGED <<case, items, fintrac, applicants, verified>>
      /\ assessments \in Seq(Row) /\ Len(assessments) \in Nat
      /\ DOMAIN assessments = 1..Len(assessments)
  <2>1. assessments \in Seq(Row) /\ Tables
    BY DEF TypeInv, Tables
  <2>2. case # NoCase /\ UNCHANGED <<case, items, fintrac, applicants, verified>>
    BY <1>0 DEF Supersede, Assess, WriteOverride, Stands
  <2> QED
    BY <2>1, <2>2
<1>2. CASE Supersede(v)
  <2> DEFINE row == [state |-> "unwritten", rating |-> work[v].rating, override |-> "none"]
  <2>1. row \in Row
    BY <1>0 DEF Op, Row, Words
  <2>2. assessments' = Append(assessments, row)
    BY <1>2 DEF Supersede
  <2>3. /\ assessments' \in Seq(Row)
        /\ DOMAIN assessments' = 1..(Len(assessments) + 1)
    <3> HIDE DEF row
    <3> QED
      BY <1>1, <2>1, <2>2
  <2>4. Tables'
    BY <1>1, <2>3 DEF Tables
  <2>5. PICK old \in SUBSET Nat, next \in Nat :
          old = Superseded /\ next = Len(assessments) + 1
    <3>1. Superseded \in SUBSET Nat
      BY <1>1 DEF Superseded, Current
    <3> QED
      BY <1>1, <3>1
  <2>6. work' = [work EXCEPT ![v] = [work[v] EXCEPT !.at = "assess", !.rating = "",
                                                    !.old = old, !.next = next]]
    BY <1>2, <2>5 DEF Supersede
  <2>7. [work[v] EXCEPT !.at = "assess", !.rating = "", !.old = old, !.next = next] \in Op
    BY <1>0 DEF Op, Places, Ratings
  <2>8. /\ work'[v].at = "assess" /\ work'[v].kind = work[v].kind
        /\ work'[v].seen = work[v].seen /\ work'[v].next = next
    BY <1>0, <2>6 DEF Op
  <2>9. next \in DOMAIN assessments'
    BY <1>1, <2>3, <2>5
  <2>10. Stands(work[v])'
    BY <1>0, <1>1, <1>2, <2>8, <2>9 DEF Supersede, Stands, Rated, Judging
  <2>11. DOMAIN assessments \subseteq DOMAIN assessments'
    BY <1>1, <2>3
  <2> QED
    BY <1>1, <2>4, <2>6, <2>7, <2>10, <2>11, OneMoves
<1>3. CASE Assess(v)
  <2> DEFINE New(i) ==
        IF i \in work[v].old THEN [assessments[i] EXCEPT !.state = "superseded"]
        ELSE IF i = work[v].next THEN [assessments[i] EXCEPT !.state = "current"]
        ELSE assessments[i]
  <2>1. assessments' = [i \in DOMAIN assessments |-> New(i)]
    BY <1>3 DEF Assess
  <2>2. ASSUME NEW i \in DOMAIN assessments PROVE New(i) \in Row
    <3>1. assessments[i] \in Row
      BY <1>1, ElementOfSeq
    <3> QED
      BY <3>1 DEF Row
  <2>3. assessments' \in Seq(Row) /\ DOMAIN assessments' = DOMAIN assessments
    <3> HIDE DEF New
    <3> QED
      BY <1>1, <2>1, <2>2, RowsRewritten
  <2>4. Tables'
    BY <1>1, <2>3 DEF Tables
  <2>5. CASE work[v].kind # "view"
    <3>1. work' = [work EXCEPT ![v] = Idle]
      BY <1>3, <2>5 DEF Assess
    <3> QED
      BY <1>1, <2>3, <2>4, <3>1, OneMoves
  <2>6. CASE work[v].kind = "view"
    <3>1. work' = [work EXCEPT ![v] = [work[v] EXCEPT !.at = "read_items", !.next = 0,
                                                      !.old = {}]]
      BY <1>3, <2>6 DEF Assess
    <3>2. [work[v] EXCEPT !.at = "read_items", !.next = 0, !.old = {}] \in Op
      BY <1>0 DEF Op, Places
    <3>3. /\ work'[v].at = "read_items" /\ work'[v].kind = "view"
          /\ work'[v].seen = work[v].seen
      BY <1>0, <2>6, <3>1 DEF Op
    <3>4. Stands(work[v])'
      BY <1>0, <1>1, <1>3, <2>6, <3>3 DEF Assess, Stands, Rated, Judging
    <3> QED
      BY <1>1, <2>3, <2>4, <3>1, <3>2, <3>4, OneMoves
  <2> QED
    BY <2>5, <2>6
<1>4. CASE WriteOverride(v)
  <2>1. work[v].next \in DOMAIN assessments /\ work[v].to \in Words
    BY <1>0, <1>4 DEF WriteOverride, Stands, Op
  <2> DEFINE New(i) == IF i = work[v].next THEN [assessments[i] EXCEPT !.override = work[v].to]
                       ELSE assessments[i]
  <2>2. assessments' = [i \in DOMAIN assessments |-> New(i)]
    BY <1>4, <2>1 DEF WriteOverride
  <2>3. ASSUME NEW i \in DOMAIN assessments PROVE New(i) \in Row
    <3>1. assessments[i] \in Row
      BY <1>1, ElementOfSeq
    <3> QED
      BY <2>1, <3>1 DEF Row
  <2>4. assessments' \in Seq(Row) /\ DOMAIN assessments' = DOMAIN assessments
    <3> HIDE DEF New
    <3> QED
      BY <1>1, <2>2, <2>3, RowsRewritten
  <2>5. Tables'
    BY <1>1, <2>4 DEF Tables
  <2>6. work' = [work EXCEPT ![v] = Idle]
    BY <1>4 DEF WriteOverride
  <2> QED
    BY <1>1, <2>4, <2>5, <2>6, OneMoves
<1> QED
  BY <1>2, <1>3, <1>4

-----------------------------------------------------------------------------
(* The requests that begin, and the rest.                                  *)

LEMMA AsksKeepTypes ==
  ASSUME TypeInv, NEW v \in Clerks, Asks(v)
  PROVE  TypeInv'
<1>0. /\ work[v] = Idle /\ UNCHANGED file
      /\ work \in [Clerks -> Op \cup {Idle}] /\ Tables
      /\ case' = case /\ items' = items /\ assessments' = assessments
  BY DEF Asks, AskView, AskRefresh, AskItem, AskRationale, AskFintrac, AskReassess, AskOverride,
     AskDecision, Ask, file, TypeInv, Requests
<1>1. ASSUME NEW op, work' = [work EXCEPT ![v] = op], op \in Op,
             op.at # "open" => case # NoCase,
             \/ op.at = "open" /\ op.kind \in {"view", "rationale"}
             \/ op.at = "gather" /\ op.kind = "refresh"
             \/ /\ op.at = "gather" /\ op.kind = "item"
                /\ op.item \in DOMAIN items /\ op.to \in Statuses
             \/ op.at = "write_fintrac" /\ op.kind = "fintrac"
             \/ op.at = "risk_facts" /\ op.kind = "reassess"
             \/ op.at = "read_assessment" /\ op.kind = "override"
             \/ /\ op.at \in {"gather", "write_decision"} /\ op.kind = "decide"
                /\ op.to \in {"approved", "changes_requested"}
      PROVE  TypeInv'
  <2>1. work'[v] = op
    BY <1>0, <1>1
  <2>2. Stands(work[v])'
    BY <1>0, <1>1, <2>1 DEF Stands, Rated, Judging
  <2> QED
    BY <1>0, <1>1, <2>2, OnlyOneMoves
<1>2. CASE AskView(v)
  <2>1. [Request EXCEPT !.at = "open", !.kind = "view"] \in Op
    BY DEF Request, Op, Places, Kinds, Words, Ratings
  <2> QED
    BY <1>1, <1>2, <2>1 DEF AskView, Ask, Request
<1>3. CASE AskRefresh(v)
  <2>1. [Request EXCEPT !.at = "gather", !.kind = "refresh"] \in Op
    BY DEF Request, Op, Places, Kinds, Words, Ratings
  <2> QED
    BY <1>1, <1>3, <2>1 DEF AskRefresh, Ask, Request
<1>4. CASE AskItem(v)
  <2>1. PICK one \in DOMAIN items, to \in Statuses :
          work' = [work EXCEPT ![v] = [Request EXCEPT !.at = "gather", !.kind = "item",
                                                      !.item = one, !.to = to]]
    BY <1>4 DEF AskItem, Ask
  <2>2. one \in Items /\ case # NoCase
    BY <1>0 DEF Tables
  <2>3. [Request EXCEPT !.at = "gather", !.kind = "item", !.item = one, !.to = to] \in Op
    BY <2>2 DEF Request, Op, Places, Kinds, Words, Ratings
  <2> QED
    BY <1>1, <2>1, <2>2, <2>3 DEF Request
<1>5. CASE AskRationale(v)
  <2>1. PICK to \in {"draft", "submitted"} :
          work' = [work EXCEPT ![v] = [Request EXCEPT !.at = "open", !.kind = "rationale",
                                                      !.to = to]]
    BY <1>5 DEF AskRationale, Ask
  <2>2. [Request EXCEPT !.at = "open", !.kind = "rationale", !.to = to] \in Op
    BY DEF Request, Op, Places, Kinds, Words, Ratings
  <2> QED
    BY <1>1, <2>1, <2>2 DEF Request
<1>6. CASE AskFintrac(v)
  <2>1. PICK to \in {"unsaid", "unscreened", "clear", "match"}, whole \in BOOLEAN :
          /\ case # NoCase
          /\ work' = [work EXCEPT ![v] = [Request EXCEPT !.at = "write_fintrac",
                                            !.kind = "fintrac", !.to = to, !.complete = whole]]
    BY <1>6 DEF AskFintrac, Ask
  <2>2. [Request EXCEPT !.at = "write_fintrac", !.kind = "fintrac", !.to = to,
                        !.complete = whole] \in Op
    BY DEF Request, Op, Places, Kinds, Words, Ratings
  <2> QED
    BY <1>1, <2>1, <2>2 DEF Request
<1>7. CASE AskReassess(v)
  <2>1. [Request EXCEPT !.at = "risk_facts", !.kind = "reassess"] \in Op
    BY DEF Request, Op, Places, Kinds, Words, Ratings
  <2> QED
    BY <1>1, <1>7, <2>1 DEF AskReassess, Ask, Request
<1>8. CASE AskOverride(v)
  <2>1. PICK to \in {"low", "review_required"} :
          /\ case # NoCase
          /\ work' = [work EXCEPT ![v] = [Request EXCEPT !.at = "read_assessment",
                                                         !.kind = "override", !.to = to]]
    BY <1>8 DEF AskOverride, Ask
  <2>2. [Request EXCEPT !.at = "read_assessment", !.kind = "override", !.to = to] \in Op
    BY DEF Request, Op, Places, Kinds, Words, Ratings
  <2> QED
    BY <1>1, <2>1, <2>2 DEF Request
<1>9. CASE AskDecision(v)
  <2>1. PICK to \in {"approved", "changes_requested"}, at \in {"gather", "write_decision"} :
          /\ case # NoCase
          /\ work' = [work EXCEPT ![v] = [Request EXCEPT !.at = at, !.kind = "decide",
                                                         !.to = to]]
    BY <1>9 DEF AskDecision, Ask
  <2>2. [Request EXCEPT !.at = at, !.kind = "decide", !.to = to] \in Op
    BY DEF Request, Op, Places, Kinds, Words, Ratings
  <2> QED
    BY <1>1, <2>1, <2>2 DEF Request
<1> QED
  BY <1>2, <1>3, <1>4, <1>5, <1>6, <1>7, <1>8, <1>9 DEF Asks

LEMMA StepKeepsTypes ==
  ASSUME ComplianceAssumption, TypeInv, NEW v \in Clerks, work[v] # Idle, Step(v)
  PROVE  TypeInv'
  BY ReadsKeepTypes, WritesKeepTypes, AssessmentsKeepTypes DEF Step

LEMMA TypeNext ==
  ASSUME ComplianceAssumption, TypeInv, [Next]_vars
  PROVE  TypeInv'
<1>1. ASSUME NEW w \in Clerks, Asks(w) PROVE TypeInv'
  BY <1>1, AsksKeepTypes
<1>2. ASSUME NEW w \in Clerks, work[w] # Idle, Step(w) PROVE TypeInv'
  BY <1>2, StepKeepsTypes
<1>3. CASE FileChanges
  <2>1. /\ UNCHANGED <<case, items, fintrac, assessments, work>>
        /\ verified' \subseteq applicants'
    BY <1>3 DEF FileChanges, RecordIdentity, ImportAnswers, TypeInv, Tables
  <2> QED
    BY <2>1 DEF TypeInv, Tables, Requests, Stands
<1>4. CASE Exit
  <2>1. work' = [w \in Clerks |-> Idle] /\ UNCHANGED file
    BY <1>4 DEF Exit
  <2> QED
    BY <2>1 DEF TypeInv, Tables, Requests, file
<1>5. CASE UNCHANGED vars
  BY <1>5 DEF vars, TypeInv, Tables, Requests, Stands
<1> QED
  BY <1>1, <1>2, <1>3, <1>4, <1>5 DEF Next

LEMMA TypeInit == ASSUME ComplianceAssumption, Init PROVE TypeInv
<1>1. Requests
  BY DEF Init, Requests
<1>2. NoCase \notin {"in_progress", "approved", "changes_requested"} /\ <<>> \in Seq(Row)
  BY DEF NoCase
<1>3. CASE items = <<>> /\ fintrac = <<>> /\ assessments = <<>>
  <2>1. DOMAIN items = {} /\ DOMAIN assessments = {} /\ Len(fintrac) = 0
        /\ fintrac \in Seq([pep : Words, completed : BOOLEAN])
    BY <1>3
  <2> QED
    BY <1>1, <1>2, <1>3, <2>1 DEF Init, TypeInv, Tables
<1>4. CASE /\ case = "in_progress" /\ applicants = Persons
           /\ items \in [Items -> {"outstanding", "complete"}]
           /\ fintrac \in {<<Blank>>} \cup
                {<<[pep |-> pep, completed |-> TRUE]>> : pep \in {"clear", "match"}}
           /\ assessments = <<[state |-> "current", rating |-> Rating, override |-> "none"]>>
  <2>1. PICK answer \in [pep : Words, completed : BOOLEAN] : fintrac = <<answer>>
    BY <1>4 DEF Blank, Words
  <2>2. PICK row \in Row : assessments = <<row>>
    <3>1. Rating \in Ratings
      BY DEF Rating, Ratings
    <3> QED
      BY <1>4, <3>1 DEF Row, Words
  <2>3. /\ fintrac \in Seq([pep : Words, completed : BOOLEAN]) /\ Len(fintrac) = 1
        /\ assessments \in Seq(Row)
    BY <2>1, <2>2
  <2>4. /\ DOMAIN items = Items /\ \A one \in DOMAIN items : items[one] \in Statuses
        /\ case # NoCase /\ verified \subseteq applicants
    BY <1>4 DEF Statuses, NoCase, Init
  <2> QED
    BY <1>1, <1>4, <2>3, <2>4 DEF TypeInv, Tables
<1> QED
  BY <1>3, <1>4 DEF Init

LEMMA TypesFollow == ASSUME TypeInv PROVE TypeOK
<1>1. fintrac # <<>> => Len(fintrac) # 0
  BY EmptySeq DEF TypeInv, Tables
<1> QED
  BY <1>1 DEF TypeInv, Tables, TypeOK

-----------------------------------------------------------------------------
(* One assessment is current.                                              *)

(* Whoever replaces an assessment supersedes all that are current, as long *)
(* as nobody else does so at the same time.                                *)
Replacing ==
  /\ \A v, w \in Clerks : work[v].at = "assess" /\ work[w].at = "assess" => v = w
  /\ \A w \in Clerks : work[w].at = "assess" =>
       work[w].old = Current /\ assessments[work[w].next].state = "unwritten"
  /\ \A i, j \in Current : i = j

CurrentInv == TypeInv /\ (~overlapped => Replacing)

(* Which are current, and who is replacing them, is changed by two steps.  *)
LEMMA ReplacingKept ==
  ASSUME TypeInv, Replacing, NEW v \in Clerks,
         \A w \in Clerks : w # v => work'[w] = work[w],
         work'[v].at # "assess",
         DOMAIN assessments' = DOMAIN assessments,
         \A i \in DOMAIN assessments : assessments'[i].state = assessments[i].state
  PROVE  Replacing'
<1>1. Current' = Current
  BY DEF Current
<1>2. \A w \in Clerks : work'[w].at = "assess" => work'[w] = work[w]
  OBVIOUS
<1>3. \A w \in Clerks : work[w].at = "assess" => work[w].next \in DOMAIN assessments
  BY DEF TypeInv, Requests, Stands, Idle
<1> QED
  BY <1>1, <1>2, <1>3 DEF Replacing

(* A step is of one request, and only Supersede brings it to "assess".     *)
LEMMA PlaceAfter ==
  ASSUME TypeInv, NEW v \in Clerks, work[v] # Idle, Step(v)
  PROVE  /\ \A w \in Clerks : w # v => work'[w] = work[w]
         /\ work'[v].at = "assess" => Supersede(v)
         /\ ~Supersede(v) => UNCHANGED overlapped
         /\ ~(Supersede(v) \/ Assess(v) \/ WriteOverride(v)) => UNCHANGED assessments
         /\ work'[v].at = "insert_item" => Materialise(v) \/ (InsertCase(v) /\ case = NoCase)
         /\ ~Materialise(v) => DOMAIN items' = DOMAIN items
         /\ work'[v] # Idle => work'[v].kind = work[v].kind /\ work'[v].to = work[v].to
<1> USE DEF To, Go, Done
<1>0. work[v] \in Op /\ work \in [Clerks -> Op \cup {Idle}] /\ Idle.at = "idle"
  BY OpOf DEF TypeInv, Requests, Idle
<1>1. ASSUME OpenRead(v) \/ InsertCase(v) \/ Materialise(v) \/ Gather(v) \/ IsAssessed(v)
               \/ RiskFacts(v) \/ Assess(v) \/ ReadAssessment(v) \/ WriteOverride(v)
               \/ ReadItems(v) \/ Sync(v) \/ WriteItem(v) \/ WriteRationale(v)
               \/ WriteFintrac(v) \/ JudgeItems(v) \/ JudgeRisk(v) \/ JudgeFintrac(v)
               \/ WriteDecision(v)
      PROVE  /\ \A w \in Clerks : w # v => work'[w] = work[w]
             /\ work'[v].at # "assess"
             /\ UNCHANGED overlapped
             /\ work'[v].at = "insert_item" =>
                  Materialise(v) \/ (InsertCase(v) /\ case = NoCase)
             /\ work'[v] # Idle => work'[v].kind = work[v].kind /\ work'[v].to = work[v].to
  <2>1. AfterOpen(work[v]) \notin {"assess", "insert_item"}
    BY DEF AfterOpen
  <2>2. CASE OpenRead(v) \/ InsertCase(v) \/ Materialise(v) \/ IsAssessed(v)
               \/ RiskFacts(v) \/ Assess(v)
    <3>1. CASE OpenRead(v)
      BY <1>0, <2>1, <3>1 DEF OpenRead, Op
    <3>2. CASE InsertCase(v)
      BY <1>0, <3>2, ZenonT(40) DEF InsertCase, Op
    <3>3. CASE Materialise(v)
      BY <1>0, <2>1, <3>3, ZenonT(40) DEF Materialise, Op
    <3>4. CASE IsAssessed(v)
      BY <1>0, <3>4 DEF IsAssessed, Op
    <3>5. CASE RiskFacts(v)
      BY <1>0, <3>5 DEF RiskFacts, Op
    <3>6. CASE Assess(v)
      BY <1>0, <3>6 DEF Assess, Op
    <3> QED
      BY <2>2, <3>1, <3>2, <3>3, <3>4, <3>5, <3>6
  <2>3. CASE Gather(v)
    <3>1. work[v].kind \in {"view", "refresh", "decide", "item"} /\ UNCHANGED overlapped
      BY <2>3, OpOf DEF Gather, Stands
    <3>2. \/ work' = [work EXCEPT ![v] = Idle]
          \/ work' = [work EXCEPT ![v] = [work[v] EXCEPT !.at = "write_item"]]
          \/ \E at \in {"is_assessed", "read_items", "judge_items"} :
               work' = [work EXCEPT ![v] = [work[v] EXCEPT !.at = at, !.seen = Evidence]]
      BY <2>3, <3>1 DEF Gather
    <3> QED
      BY <1>0, <3>1, <3>2, ZenonT(40) DEF Op
  <2>4. CASE ReadAssessment(v)
    BY <1>0, <2>4, ZenonT(40) DEF ReadAssessment, Op
  <2>5. CASE ReadItems(v)
    BY <1>0, <2>5, ZenonT(40) DEF ReadItems, Op
  <2>6. CASE WriteOverride(v) \/ Sync(v) \/ WriteItem(v) \/ WriteRationale(v) \/ WriteFintrac(v)
               \/ JudgeItems(v) \/ JudgeRisk(v) \/ JudgeFintrac(v) \/ WriteDecision(v)
    <3>1. CASE WriteOverride(v)
      BY <1>0, <3>1, ZenonT(40) DEF WriteOverride, Op
    <3>2. CASE Sync(v)
      BY <1>0, <3>2, ZenonT(40) DEF Sync, Op
    <3>3. CASE WriteItem(v)
      BY <1>0, <3>3, ZenonT(40) DEF WriteItem, Op
    <3>4. CASE WriteRationale(v)
      BY <1>0, <3>4, ZenonT(40) DEF WriteRationale, Op
    <3>5. CASE WriteFintrac(v)
      BY <1>0, <3>5, ZenonT(40) DEF WriteFintrac, Op
    <3>6. CASE JudgeItems(v)
      BY <1>0, <3>6, ZenonT(40) DEF JudgeItems, Op
    <3>7. CASE JudgeRisk(v)
      BY <1>0, <3>7, ZenonT(40) DEF JudgeRisk, Op
    <3>8. CASE JudgeFintrac(v)
      BY <1>0, <3>8, ZenonT(40) DEF JudgeFintrac, Op
    <3>9. CASE WriteDecision(v)
      BY <1>0, <3>9, ZenonT(40) DEF WriteDecision, Op
    <3> QED
      BY <2>6, <3>1, <3>2, <3>3, <3>4, <3>5, <3>6, <3>7, <3>8, <3>9
  <2> QED
    BY <1>1, <2>2, <2>3, <2>4, <2>5, <2>6
<1>2. Supersede(v) => /\ \A w \in Clerks : w # v => work'[w] = work[w]
                      /\ work'[v].at = "assess"
                      /\ work'[v].kind = work[v].kind /\ work'[v].to = work[v].to
  BY <1>0, ZenonT(40) DEF Supersede, Op
<1>3. ~(Supersede(v) \/ Assess(v) \/ WriteOverride(v)) => UNCHANGED assessments
  BY DEF Step, OpenRead, InsertCase, Materialise, IsAssessed, RiskFacts, Gather, ReadAssessment,
     ReadItems, Sync, WriteItem, WriteRationale, WriteFintrac, JudgeItems, JudgeRisk,
     JudgeFintrac, WriteDecision, file
<1>4. ~Materialise(v) => DOMAIN items' = DOMAIN items
  BY DEF Step, OpenRead, InsertCase, Supersede, Assess, WriteOverride, IsAssessed, RiskFacts,
     Gather, ReadAssessment, ReadItems, Sync, WriteItem, WriteRationale, WriteFintrac,
     JudgeItems, JudgeRisk, JudgeFintrac, WriteDecision, file
<1> QED
  BY <1>1, <1>2, <1>3, <1>4 DEF Step

(* Where a request begins.                                                 *)
LEMMA AskBegins ==
  ASSUME NEW v \in Clerks, Asks(v)
  PROVE  \E op : /\ Ask(v, op) /\ op.at \notin {"assess", "insert_item"}
                 /\ op.kind = "decide" /\ op.to = "approved" => op.at = "gather" /\ case # NoCase
<1>1. CASE AskView(v)
  <2>1. LET op == [Request EXCEPT !.at = "open", !.kind = "view"]
        IN  Ask(v, op) /\ op.at = "open" /\ op.kind = "view"
    BY <1>1 DEF AskView, Request
  <2> QED
    BY <2>1
<1>2. CASE AskRefresh(v)
  <2>1. LET op == [Request EXCEPT !.at = "gather", !.kind = "refresh"]
        IN  Ask(v, op) /\ op.at = "gather" /\ op.kind = "refresh"
    BY <1>2 DEF AskRefresh, Request
  <2> QED
    BY <2>1
<1>3. CASE AskItem(v)
  <2>1. PICK one \in DOMAIN items, to \in Statuses :
          Ask(v, [Request EXCEPT !.at = "gather", !.kind = "item", !.item = one, !.to = to])
    BY <1>3 DEF AskItem
  <2>2. LET op == [Request EXCEPT !.at = "gather", !.kind = "item", !.item = one, !.to = to]
        IN  Ask(v, op) /\ op.at = "gather" /\ op.kind = "item"
    BY <2>1 DEF Request
  <2> QED
    BY <2>2
<1>4. CASE AskRationale(v)
  <2>1. PICK to \in {"draft", "submitted"} :
          Ask(v, [Request EXCEPT !.at = "open", !.kind = "rationale", !.to = to])
    BY <1>4 DEF AskRationale
  <2>2. LET op == [Request EXCEPT !.at = "open", !.kind = "rationale", !.to = to]
        IN  Ask(v, op) /\ op.at = "open" /\ op.kind = "rationale"
    BY <2>1 DEF Request
  <2> QED
    BY <2>2
<1>5. CASE AskFintrac(v)
  <2>1. PICK to \in {"unsaid", "unscreened", "clear", "match"}, whole \in BOOLEAN :
          Ask(v, [Request EXCEPT !.at = "write_fintrac", !.kind = "fintrac", !.to = to,
                                 !.complete = whole])
    BY <1>5 DEF AskFintrac
  <2>2. LET op == [Request EXCEPT !.at = "write_fintrac", !.kind = "fintrac", !.to = to,
                                  !.complete = whole]
        IN  Ask(v, op) /\ op.at = "write_fintrac" /\ op.kind = "fintrac"
    BY <2>1 DEF Request
  <2> QED
    BY <2>2
<1>6. CASE AskReassess(v)
  <2>1. LET op == [Request EXCEPT !.at = "risk_facts", !.kind = "reassess"]
        IN  Ask(v, op) /\ op.at = "risk_facts" /\ op.kind = "reassess"
    BY <1>6 DEF AskReassess, Request
  <2> QED
    BY <2>1
<1>7. CASE AskOverride(v)
  <2>1. PICK to \in {"low", "review_required"} :
          Ask(v, [Request EXCEPT !.at = "read_assessment", !.kind = "override", !.to = to])
    BY <1>7 DEF AskOverride
  <2>2. LET op == [Request EXCEPT !.at = "read_assessment", !.kind = "override", !.to = to]
        IN  Ask(v, op) /\ op.at = "read_assessment" /\ op.kind = "override"
    BY <2>1 DEF Request
  <2> QED
    BY <2>2
<1>8. CASE AskDecision(v)
  <2>1. PICK to \in {"approved", "changes_requested"}, at \in {"gather", "write_decision"} :
          /\ case # NoCase /\ (to = "approved" => at = "gather")
          /\ Ask(v, [Request EXCEPT !.at = at, !.kind = "decide", !.to = to])
    BY <1>8 DEF AskDecision
  <2>2. LET op == [Request EXCEPT !.at = at, !.kind = "decide", !.to = to]
        IN  Ask(v, op) /\ op.at = at /\ op.to = to
    BY <2>1 DEF Request
  <2> QED
    BY <2>1, <2>2
<1> QED
  BY <1>1, <1>2, <1>3, <1>4, <1>5, <1>6, <1>7, <1>8 DEF Asks

LEMMA SupersedeReplaces ==
  ASSUME TypeInv, Replacing, NEW v \in Clerks, work[v] # Idle, Supersede(v), ~overlapped'
  PROVE  Replacing'
<1>1. /\ assessments \in Seq(Row) /\ Len(assessments) \in Nat
      /\ DOMAIN assessments = 1..Len(assessments)
      /\ work \in [Clerks -> Op \cup {Idle}] /\ work[v] \in Op
  <2>1. assessments \in Seq(Row)
    BY DEF TypeInv, Tables
  <2> QED
    BY <2>1, OpOf DEF TypeInv, Requests
<1>2. PICK row : /\ assessments' = Append(assessments, row) /\ row.state = "unwritten"
  BY DEF Supersede
<1>3. PICK next \in Nat : next = Len(assessments) + 1
  BY <1>1
<1>4. /\ DOMAIN assessments' = DOMAIN assessments \cup {next} /\ next \notin DOMAIN assessments
      /\ assessments'[next] = row
      /\ \A i \in DOMAIN assessments : assessments'[i] = assessments[i]
  BY <1>1, <1>2, <1>3
<1>5. Current' = Current
  BY <1>2, <1>4 DEF Current
<1>6. /\ work'[v].next = next /\ work'[v].old = Current
      /\ \A w \in Clerks : w # v => work'[w] = work[w]
  BY <1>1, <1>3 DEF Supersede, Go, Superseded, Op
<1>7. \A w \in Clerks : w # v => work'[w].at # "assess"
  BY <1>6 DEF Supersede
<1> QED
  BY <1>2, <1>4, <1>5, <1>6, <1>7 DEF Replacing

LEMMA AssessReplaces ==
  ASSUME TypeInv, Replacing, NEW v \in Clerks, work[v] # Idle, Assess(v), work'[v].at # "assess",
         \A w \in Clerks : w # v => work'[w] = work[w]
  PROVE  Replacing'
<1>1. \A i \in DOMAIN assessments : assessments[i] \in Row
  <2>1. assessments \in Seq(Row)
    BY DEF TypeInv, Tables
  <2> QED
    BY <2>1, ElementOfSeq
<1>2. work[v].at = "assess" /\ work[v].old = Current
  BY DEF Assess, Replacing
<1>3. ASSUME NEW i \in Current' PROVE i = work[v].next
  <2>1. /\ DOMAIN assessments' = DOMAIN assessments
        /\ i \in DOMAIN assessments /\ assessments'[i].state = "current"
    BY <1>3 DEF Current, Assess
  <2>2. i \in Current => assessments'[i].state = "superseded"
    BY <1>1, <1>2, <2>1 DEF Assess, Row
  <2>3. i \notin Current
    BY <2>1, <2>2
  <2>4. i # work[v].next => assessments'[i] = assessments[i]
    BY <1>2, <2>1, <2>3 DEF Assess
  <2> QED
    BY <2>1, <2>3, <2>4 DEF Current
<1>4. \A w \in Clerks : work'[w].at # "assess"
  BY <1>2 DEF Replacing
<1> QED
  BY <1>3, <1>4 DEF Replacing

LEMMA CurrentNext ==
  ASSUME ComplianceAssumption, CurrentInv, [Next]_vars
  PROVE  CurrentInv'
<1>1. TypeInv /\ TypeInv'
  BY TypeNext DEF CurrentInv
<1> SUFFICES ASSUME ~overlapped' PROVE Replacing'
  BY <1>1 DEF CurrentInv
<1>2. ASSUME NEW v \in Clerks, Asks(v) PROVE Replacing'
  <2>1. PICK op : Ask(v, op) /\ op.at # "assess"
    BY <1>2, AskBegins
  <2>2. /\ UNCHANGED <<assessments, overlapped>> /\ Replacing
        /\ work'[v].at # "assess"
        /\ \A w \in Clerks : w # v => work'[w] = work[w]
    BY <1>1, <2>1 DEF Ask, file, CurrentInv, TypeInv, Requests
  <2> QED
    BY <1>1, <2>2, ReplacingKept
<1>3. ASSUME NEW v \in Clerks, work[v] # Idle, Step(v) PROVE Replacing'
  <2>1. CASE Supersede(v)
    <3>1. ~overlapped
      BY <2>1 DEF Supersede
    <3> QED
      BY <1>1, <1>3, <2>1, <3>1, SupersedeReplaces DEF CurrentInv
  <2>2. CASE ~Supersede(v)
    <3>1. /\ \A w \in Clerks : w # v => work'[w] = work[w]
          /\ work'[v].at # "assess" /\ UNCHANGED overlapped
          /\ ~(Assess(v) \/ WriteOverride(v)) => UNCHANGED assessments
      BY <1>1, <1>3, <2>2, PlaceAfter
    <3>2. Replacing
      BY <3>1 DEF CurrentInv
    <3>3. CASE Assess(v)
      BY <1>1, <1>3, <3>1, <3>2, <3>3, AssessReplaces
    <3>4. CASE ~Assess(v)
      <4>1. /\ DOMAIN assessments' = DOMAIN assessments
            /\ \A i \in DOMAIN assessments : assessments'[i].state = assessments[i].state
        <5>1. CASE WriteOverride(v)
          <6>1. \A i \in DOMAIN assessments : assessments[i] \in Row
            <7>1. assessments \in Seq(Row)
              BY <1>1 DEF TypeInv, Tables
            <7> QED
              BY <7>1, ElementOfSeq
          <6> QED
            BY <5>1, <6>1 DEF WriteOverride, Row
        <5> QED
          BY <3>1, <3>4, <5>1
      <4> QED
        BY <1>1, <3>1, <3>2, <4>1, ReplacingKept
    <3> QED
      BY <3>3, <3>4
  <2> QED
    BY <2>1, <2>2
<1>4. CASE FileChanges \/ UNCHANGED vars
  <2>1. UNCHANGED <<assessments, work, overlapped>>
    BY <1>4 DEF FileChanges, RecordIdentity, ImportAnswers, vars
  <2> QED
    BY <2>1 DEF CurrentInv, Replacing, Current
<1>5. CASE Exit
  <2>1. /\ UNCHANGED <<assessments, overlapped>>
        /\ \A w \in Clerks : work'[w].at = "idle"
    BY <1>5 DEF Exit, file, Idle
  <2> QED
    BY <2>1 DEF CurrentInv, Replacing, Current
<1> QED
  BY <1>2, <1>3, <1>4, <1>5 DEF Next

LEMMA CurrentInit == ASSUME ComplianceAssumption, Init PROVE CurrentInv
<1>1. TypeInv
  BY TypeInit
<1>2. \A w \in Clerks : work[w].at # "assess"
  BY DEF Init, Idle
<1>3. \A i, j \in Current : i = j
  <2>1. assessments = <<>> \/ \E row : assessments = <<row>>
    BY DEF Init
  <2> QED
    BY <2>1 DEF Current
<1> QED
  BY <1>1, <1>2, <1>3 DEF CurrentInv, Replacing

(* Whatever requests follow each other, cross or stop when the process     *)
(* ends, at most one assessment of a case is current, unless two were      *)
(* being replaced at the same moment; and the case, its checklist and its  *)
(* FINTRAC row come into being in the order openCase gives them.           *)
THEOREM OneIsCurrent ==
  ASSUME ComplianceAssumption
  PROVE  Spec => [](TypeOK /\ OneCurrentAssessment)
<1>1. Init => CurrentInv
  BY CurrentInit
<1>2. CurrentInv /\ [Next]_vars => CurrentInv'
  BY CurrentNext
<1>3. CurrentInv => TypeOK /\ OneCurrentAssessment
  <2>1. ASSUME CurrentInv, ~overlapped PROVE Cardinality(Current) <= 1
    <3>1. CASE Current = {}
      BY <3>1, FS_EmptySet
    <3>2. CASE Current # {}
      <4>1. PICK i \in Current : Current = {i}
        BY <2>1, <3>2 DEF CurrentInv, Replacing
      <4> QED
        BY <4>1, FS_Singleton, SMTT(30)
    <3> QED
      BY <3>1, <3>2
  <2> QED
    BY <2>1, TypesFollow DEF CurrentInv, OneCurrentAssessment
<1> QED
  BY <1>1, <1>2, <1>3, PTL DEF Spec

-----------------------------------------------------------------------------
(* Approvals.                                                              *)

(* What stood in the way from the beginning of w's request, still does,    *)
(* and has not been judged yet: an item it found done it did not read as   *)
(* such, one it has judged was not there to be judged, and then the        *)
(* FINTRAC row is not there either.                                        *)
Judged(w) ==
  work[w] # Idle /\ work[w].kind = "decide" /\ work[w].to = "approved" /\ standing[w] # {} =>
    /\ ~BeingOpened
    /\ work[w].at = "judge_items" =>
         \A one \in standing[w] \cap Derived \cap DOMAIN items : ~work[w].seen[one]
    /\ work[w].at \in {"judge_risk", "judge_fintrac"} => standing[w] \cap DOMAIN items = {}
    /\ work[w].at = "judge_fintrac" => "risk" \notin standing[w]
    /\ work[w].at # "write_decision"

JudgedInv ==
  /\ TypeInv
  /\ standing \in [Clerks -> SUBSET (Items \cup {"risk", "fintrac"})]
  /\ \A w \in Clerks : standing[w] \subseteq Outstanding /\ Judged(w)

LEMMA OwnNames ==
  ASSUME ComplianceAssumption
  PROVE  /\ "risk" \notin Items /\ "fintrac" \notin Items /\ Derived \subseteq Items
         /\ Outstanding \subseteq Items \cup {"risk", "fintrac"}
<1>1. ASSUME NEW i \in DOMAIN Template PROVE Template[i] \notin {"risk", "fintrac"}
  <2>1. Template \in Seq(STRING \ {"risk", "fintrac"}) /\ i \in 1..Len(Template)
    BY DEF ComplianceAssumption
  <2> QED
    BY <2>1, ElementOfSeq
<1> QED
  BY <1>1 DEF Items, Derived, Outstanding

(* Nobody opens the case of a file that has one.                           *)
LEMMA OpeningIsOver ==
  ASSUME TypeInv, NEW v \in Clerks, work[v] # Idle, Step(v), case # NoCase, ~BeingOpened
  PROVE  ~BeingOpened' /\ DOMAIN items' = DOMAIN items
<1>1. ~Materialise(v)
  BY DEF Materialise, BeingOpened
<1>2. work'[v].at # "insert_item"
  BY <1>1, PlaceAfter
<1> QED
  BY <1>1, <1>2, PlaceAfter DEF BeingOpened

(* What others do takes nothing from what a request was judged by.         *)
LEMMA JudgedMeanwhile ==
  ASSUME NEW w \in Clerks, Judged(w), work'[w] = work[w], standing'[w] \subseteq standing[w],
         work[w] # Idle /\ work[w].kind = "decide" /\ ~BeingOpened =>
           ~BeingOpened' /\ DOMAIN items' = DOMAIN items
  PROVE  Judged(w)'
  BY DEF Judged

(* The four reads of an approval, each of which tells what it could see.   *)
LEMMA JudgedStep ==
  ASSUME ComplianceAssumption, JudgedInv, NEW w \in Clerks, work[w] # Idle, Step(w),
         standing'[w] \subseteq standing[w]
  PROVE  Judged(w)'
<1> USE DEF To, Go, Done
<1>0. /\ TypeInv /\ standing[w] \subseteq Outstanding /\ Judged(w)
      /\ work[w] \in Op /\ Stands(work[w]) /\ work \in [Clerks -> Op \cup {Idle}]
  BY OpOf DEF JudgedInv, TypeInv, Requests
<1>1. SUFFICES ASSUME work'[w] # Idle, work'[w].kind = "decide", work'[w].to = "approved",
                      standing'[w] # {}
               PROVE  Judged(w)'
  BY DEF Judged
<1>2. work[w].kind = "decide" /\ work[w].to = "approved"
  BY <1>0, <1>1, PlaceAfter
<1>3. /\ case # NoCase /\ standing[w] # {} /\ ~BeingOpened
      /\ work[w].at \in {"gather"} \cup Judging
  BY <1>0, <1>1, <1>2 DEF Stands, Judged, Judging
<1>4. ~BeingOpened' /\ DOMAIN items' = DOMAIN items
  BY <1>0, <1>3, OpeningIsOver
<1>5. CASE Gather(w)
  <2>1. work' = [work EXCEPT ![w] = [work[w] EXCEPT !.at = "judge_items", !.seen = Evidence]]
    BY <1>2, <1>5 DEF Gather
  <2>2. work'[w].at = "judge_items" /\ work'[w].seen = Evidence
    BY <1>0, <2>1 DEF Op
  <2>3. ASSUME NEW one \in standing[w] \cap Derived \cap DOMAIN items PROVE ~Evidence[one]
    <3>1. one \in Outstanding /\ one \in Items /\ one \notin {"risk", "fintrac"}
      BY <1>0, <2>3, OwnNames
    <3> QED
      BY <2>3, <3>1 DEF Outstanding
  <2> QED
    BY <1>4, <2>2, <2>3 DEF Judged
<1>6. CASE JudgeItems(w)
  <2>1. /\ ItemBlockers(work[w].seen) = {}
        /\ work' = [work EXCEPT ![w] = [work[w] EXCEPT !.at = "judge_risk", !.seen = <<>>]]
    BY <1>0, <1>1, <1>6 DEF JudgeItems
  <2>2. work'[w].at = "judge_risk"
    BY <1>0, <2>1 DEF Op
  <2>3. ASSUME NEW one \in standing[w] \cap DOMAIN items PROVE FALSE
    <3>1. one \in Outstanding /\ one \in Items /\ one \notin {"risk", "fintrac"}
      BY <1>0, <2>3, OwnNames DEF TypeInv, Tables
    <3>2. items[one] # "not_applicable" /\ (one \notin Derived => items[one] # "complete")
      BY <2>3, <3>1 DEF Outstanding
    <3>3. one \in Derived => ~work[w].seen[one]
      BY <1>0, <1>2, <1>3, <1>6, <2>3 DEF Judged, JudgeItems
    <3> QED
      BY <2>1, <2>3, <3>2, <3>3 DEF ItemBlockers
  <2> QED
    BY <1>4, <2>2, <2>3 DEF Judged
<1>7. CASE JudgeRisk(w)
  <2>1. /\ ~Unresolved /\ work' = [work EXCEPT ![w] = [work[w] EXCEPT !.at = "judge_fintrac"]]
    BY <1>0, <1>1, <1>7 DEF JudgeRisk
  <2>2. work'[w].at = "judge_fintrac"
    BY <1>0, <2>1 DEF Op
  <2>3. "risk" \notin Outstanding
    BY <2>1, OwnNames DEF Outstanding
  <2>4. standing[w] \cap DOMAIN items = {}
    BY <1>0, <1>2, <1>3, <1>7 DEF Judged, JudgeRisk
  <2> QED
    BY <1>0, <1>4, <2>2, <2>3, <2>4 DEF Judged
<1>8. CASE JudgeFintrac(w)
  <2>1. ~NotCompleted
    BY <1>0, <1>1, <1>8 DEF JudgeFintrac
  <2>2. "fintrac" \notin Outstanding
    BY <2>1, OwnNames DEF Outstanding
  <2>3. DOMAIN items = Items
    <3>1. PICK i \in DOMAIN fintrac : fintrac[i].completed
      BY <2>1 DEF NotCompleted
    <3>2. fintrac \in Seq([pep : Words, completed : BOOLEAN])
      BY <1>0 DEF TypeInv, Tables
    <3>3. Len(fintrac) # 0
      BY <3>1, <3>2
    <3> QED
      BY <1>0, <3>3 DEF TypeInv, Tables
  <2>4. standing[w] \cap DOMAIN items = {} /\ "risk" \notin standing[w]
    BY <1>0, <1>2, <1>3, <1>8 DEF Judged, JudgeFintrac
  <2>5. standing[w] = {}
    BY <1>0, <2>2, <2>3, <2>4, OwnNames
  <2> QED
    BY <1>3, <2>5
<1>9. CASE WriteDecision(w)
  <2>1. work'[w] = Idle
    BY <1>0, <1>9 DEF WriteDecision
  <2> QED
    BY <1>1, <2>1
<1> QED
  BY <1>3, <1>5, <1>6, <1>7, <1>8, <1>9 DEF Step, Judging, OpenRead, InsertCase, Materialise,
     IsAssessed, RiskFacts, Supersede, Assess, ReadAssessment, WriteOverride, ReadItems, Sync,
     WriteItem, WriteRationale, WriteFintrac

LEMMA JudgedNext ==
  ASSUME ComplianceAssumption, JudgedInv, [Next]_vars
  PROVE  JudgedInv'
<1>0. /\ TypeInv /\ TypeInv' /\ standing \in [Clerks -> SUBSET (Items \cup {"risk", "fintrac"})]
      /\ \A w \in Clerks : standing[w] \subseteq Outstanding /\ Judged(w)
      /\ work \in [Clerks -> Op \cup {Idle}]
  BY TypeNext DEF JudgedInv, TypeInv, Requests
<1>1. ASSUME NEW v \in Clerks, Asks(v) PROVE JudgedInv'
  <2>1. PICK op : /\ Ask(v, op) /\ op.at \notin {"assess", "insert_item"}
                  /\ op.kind = "decide" /\ op.to = "approved" => op.at = "gather" /\ case # NoCase
    BY <1>1, AskBegins
  <2>2. /\ UNCHANGED file /\ work' = [work EXCEPT ![v] = op]
        /\ standing' = [standing EXCEPT ![v] = IF BeingOpened THEN {} ELSE Outstanding]
    BY <2>1 DEF Ask
  <2>3. Outstanding' = Outstanding /\ DOMAIN items' = DOMAIN items
    BY <2>2 DEF file, Outstanding, Evidence, Derive, Unresolved, Latest, Current, NotCompleted
  <2>4. standing' \in [Clerks -> SUBSET (Items \cup {"risk", "fintrac"})]
    BY <1>0, <2>2, OwnNames
  <2>5. \A w \in Clerks : standing'[w] \subseteq Outstanding'
    BY <1>0, <2>2, <2>3
  <2>6. BeingOpened' => BeingOpened
    BY <1>0, <2>1, <2>2 DEF BeingOpened
  <2>7. ASSUME NEW w \in Clerks PROVE Judged(w)'
    <3>1. CASE w # v
      BY <1>0, <2>2, <2>3, <2>6, <3>1, JudgedMeanwhile
    <3>2. CASE w = v
      BY <1>0, <2>1, <2>2, <2>6, <3>2 DEF Judged
    <3> QED
      BY <3>1, <3>2
  <2> QED
    BY <1>0, <2>4, <2>5, <2>7 DEF JudgedInv
<1>2. ASSUME StillStanding
      PROVE  /\ standing' \in [Clerks -> SUBSET (Items \cup {"risk", "fintrac"})]
             /\ \A w \in Clerks : standing'[w] \subseteq Outstanding'
             /\ \A w \in Clerks : standing'[w] \subseteq standing[w]
  <2>1. \A w \in Clerks :
          standing'[w] = IF work'[w] = Idle THEN {} ELSE standing[w] \cap Outstanding'
    BY <1>2 DEF StillStanding
  <2>2. standing' = [w \in Clerks |-> standing'[w]]
    BY <1>2 DEF StillStanding
  <2> QED
    BY <1>0, <2>1, <2>2
<1>3. ASSUME NEW v \in Clerks, work[v] # Idle, Step(v), StillStanding PROVE JudgedInv'
  <2>1. ASSUME NEW w \in Clerks PROVE Judged(w)'
    <3>1. CASE w # v
      <4>1. work'[w] = work[w]
        BY <1>0, <1>3, <3>1, PlaceAfter
      <4>2. work[w] # Idle /\ work[w].kind = "decide" => case # NoCase
        BY <1>0 DEF TypeInv, Requests, Stands, Judging
      <4> QED
        BY <1>0, <1>2, <1>3, <4>1, <4>2, OpeningIsOver, JudgedMeanwhile
    <3>2. CASE w = v
      BY <1>2, <1>3, <3>2, JudgedStep
    <3> QED
      BY <3>1, <3>2
  <2> QED
    BY <1>0, <1>2, <1>3, <2>1 DEF JudgedInv
<1>4. ASSUME FileChanges, StillStanding PROVE JudgedInv'
  <2>1. UNCHANGED <<items, work>>
    BY <1>4 DEF FileChanges
  <2>2. BeingOpened' = BeingOpened
    BY <2>1 DEF BeingOpened
  <2>3. \A w \in Clerks : Judged(w)'
    BY <1>0, <1>2, <1>4, <2>1, <2>2, JudgedMeanwhile
  <2> QED
    BY <1>0, <1>2, <1>4, <2>3 DEF JudgedInv
<1>5. CASE Exit
  <2>1. \A w \in Clerks : work'[w] = Idle /\ standing'[w] = {}
    BY <1>5 DEF Exit
  <2>2. standing' = [w \in Clerks |-> {}]
    BY <1>5 DEF Exit
  <2> QED
    BY <1>0, <2>1, <2>2 DEF JudgedInv, Judged
<1>6. CASE UNCHANGED vars
  <2>1. Outstanding' = Outstanding /\ UNCHANGED <<items, work, standing>>
    BY <1>6 DEF vars, Outstanding, Evidence, Derive, Unresolved, Latest, Current, NotCompleted
  <2>2. BeingOpened' = BeingOpened
    BY <2>1 DEF BeingOpened
  <2>3. \A w \in Clerks : Judged(w)'
    BY <1>0, <2>1, <2>2, JudgedMeanwhile
  <2> QED
    BY <1>0, <2>1, <2>3 DEF JudgedInv
<1> QED
  BY <1>1, <1>3, <1>4, <1>5, <1>6 DEF Next

(* An approval is never written over something that stood in its way from  *)
(* the beginning of the request to its end: each of the four reads sees    *)
(* what belongs to it, and an item that was never written stands in the    *)
(* way through the FINTRAC row, which is written last.                     *)
THEOREM ApprovalsAreJudged ==
  ASSUME ComplianceAssumption
  PROVE  Spec => ApprovalsAreClear
<1>1. Init => JudgedInv
  <2>1. ASSUME Init PROVE JudgedInv
    <3>1. TypeInv
      BY <2>1, TypeInit
    <3> QED
      BY <2>1, <3>1 DEF Init, JudgedInv, Judged
  <2> QED
    BY <2>1
<1>2. JudgedInv /\ [Next]_vars => JudgedInv'
  BY JudgedNext
<1>3. JudgedInv /\ [Next]_vars => [ApprovesWhatIsClear]_vars
  <2>1. ASSUME JudgedInv, NEW w \in Clerks, work[w].at = "write_decision",
               work[w].to = "approved"
        PROVE  standing[w] = {}
    <3>1. work[w] # Idle
      BY <2>1 DEF Idle
    <3>2. work[w].kind = "decide"
      BY <2>1, <3>1 DEF JudgedInv, TypeInv, Requests, Stands, Judging
    <3> QED
      BY <2>1, <3>1, <3>2 DEF JudgedInv, Judged
  <2> QED
    BY <2>1 DEF ApprovesWhatIsClear
<1> QED
  BY <1>1, <1>2, <1>3, PTL DEF Spec, ApprovalsAreClear

-----------------------------------------------------------------------------
(* The funding.                                                            *)

(* Sets are counted alike in every module.                                 *)
LEMMA DealCounts ==
  ASSUME NEW S PROVE (Deal!IsFiniteSet(S) <=> IsFiniteSet(S)) /\ Deal!Cardinality(S) = Cardinality(S)
BY DEF Deal!IsFiniteSet, IsFiniteSet, Deal!Cardinality, Cardinality

LEMMA OneInt ==
  ASSUME NEW a \in Seq(Int), Len(a) = 1 PROVE DOMAIN a = 1 .. 1 /\ a[1] \in Int
<1>1. DOMAIN a = 1 .. 1 /\ 1 \in 1 .. 1
  BY LenProperties
<1> QED
  BY <1>1, ElementOfSeq

LEMMA ThreeInts ==
  ASSUME NEW a \in Seq(Int), Len(a) = 3
  PROVE  DOMAIN a = 1 .. 3 /\ a[1] \in Int /\ a[2] \in Int /\ a[3] \in Int
<1>1. DOMAIN a = 1 .. 3 /\ 1 \in 1 .. 3 /\ 2 \in 1 .. 3 /\ 3 \in 1 .. 3
  BY LenProperties
<1> QED
  BY <1>1, ElementOfSeq

LEMMA IntsAreASeq ==
  ASSUME NEW n \in Nat, NEW a \in [1 .. n -> Int]
  PROVE  a \in Seq(Int) /\ Len(a) = n
<1>1. a \in Seq(Int)
  BY SeqDef
<1>2. DOMAIN a = 1 .. Len(a) /\ Len(a) \in Nat
  BY <1>1, LenProperties
<1> QED
  BY <1>1, <1>2

(* divideCommission: a table of splits has one entry, or three.            *)
UpTo(a) == CHOOSE upTo : upTo = [i \in 0 .. Len(a) |-> IF i = 0 THEN 0 ELSE upTo[i - 1] + a[i]]

LEMMA TotalIsUpTo ==
  ASSUME NEW a PROVE Deal!Total(a) = UpTo(a)[Len(a)]
  BY Zenon DEF Deal!Total, UpTo

LEMMA TotalOfOne ==
  ASSUME NEW a \in Seq(Int), Len(a) = 1 PROVE Deal!Total(a) = a[1]
<1> DEFINE F(f) == f = [i \in 0 .. Len(a) |-> IF i = 0 THEN 0 ELSE f[i - 1] + a[i]]
           g == [i \in 0 .. 1 |-> IF i = 0 THEN 0 ELSE a[1]]
<1>1. DOMAIN a = 1 .. 1 /\ a[1] \in Int
  BY OneInt
<1>2. F(g)
  BY <1>1
<1>3. F(UpTo(a))
  <2>1. UpTo(a) = CHOOSE f : F(f)
    BY Zenon DEF UpTo
  <2> HIDE DEF F
  <2> QED
    BY <1>2, <2>1, Zenon
<1>4. PICK u : u = UpTo(a)
  OBVIOUS
<1>5. u = [i \in 0 .. 1 |-> IF i = 0 THEN 0 ELSE u[i - 1] + a[i]]
  BY <1>3, <1>4
<1>6. u[0] = 0 /\ u[1] = u[0] + a[1]
  BY <1>5
<1>7. Deal!Total(a) = u[1]
  BY <1>4, TotalIsUpTo
<1> QED
  BY <1>1, <1>6, <1>7

LEMMA TotalOfThree ==
  ASSUME NEW a \in Seq(Int), Len(a) = 3 PROVE Deal!Total(a) = a[1] + a[2] + a[3]
<1> DEFINE F(f) == f = [i \in 0 .. Len(a) |-> IF i = 0 THEN 0 ELSE f[i - 1] + a[i]]
           g == [i \in 0 .. 3 |-> IF i = 0 THEN 0
                                  ELSE IF i = 1 THEN a[1]
                                  ELSE IF i = 2 THEN a[1] + a[2]
                                  ELSE a[1] + a[2] + a[3]]
<1>1. a[1] \in Int /\ a[2] \in Int /\ a[3] \in Int
  BY ThreeInts
<1>2. F(g)
  BY <1>1
<1>3. F(UpTo(a))
  <2>1. UpTo(a) = CHOOSE f : F(f)
    BY Zenon DEF UpTo
  <2> HIDE DEF F
  <2> QED
    BY <1>2, <2>1, Zenon
<1>4. PICK u : u = UpTo(a)
  OBVIOUS
<1>5. u = [i \in 0 .. 3 |-> IF i = 0 THEN 0 ELSE u[i - 1] + a[i]]
  BY <1>3, <1>4
<1>6. u[0] = 0 /\ u[1] = u[0] + a[1] /\ u[2] = u[1] + a[2] /\ u[3] = u[2] + a[3]
  BY <1>5
<1>7. Deal!Total(a) = u[3]
  BY <1>4, TotalIsUpTo
<1> QED
  BY <1>1, <1>6, <1>7

(* The largest share takes the rest.                                       *)
LEMMA RestToLargest ==
  ASSUME NEW a \in Seq(Int), Len(a) = 3, NEW rest \in Int
  PROVE  \E i \in 1 .. 3 : /\ Deal!GiveRest(a, rest) = [a EXCEPT ![i] = a[i] + rest]
                           /\ \A j \in 1 .. 3 : a[j] <= a[i]
<1> DEFINE P(i) == \A j \in DOMAIN a : a[j] < a[i] \/ (a[j] = a[i] /\ i <= j)
<1>1. DOMAIN a = 1 .. 3
  BY ThreeInts
<1>2. a[1] \in Int /\ a[2] \in Int /\ a[3] \in Int
  BY ThreeInts
<1>3. P(1) \/ P(2) \/ P(3)
  BY <1>1, <1>2
<1>4. PICK i : i = CHOOSE k \in DOMAIN a : P(k)
  OBVIOUS
<1>5. i \in DOMAIN a /\ P(i)
  BY <1>1, <1>3, <1>4
<1>6. Deal!GiveRest(a, rest) = [a EXCEPT ![i] = a[i] + rest]
  BY <1>4 DEF Deal!GiveRest
<1>7. \A j \in 1 .. 3 : a[j] <= a[i]
  BY <1>1, <1>2, <1>5
<1> QED
  BY <1>1, <1>5, <1>6, <1>7

(* What the splits pay out, of three shares that miss the whole by a cent  *)
(* or two.                                                                 *)
AddsUp(splits, gross, table) ==
  /\ splits \in Seq(Int)
  /\ Deal!Total(splits) <= gross /\ \A i \in DOMAIN splits : splits[i] >= 0
  /\ (\E i \in DOMAIN table : table[i].percent # None) => Deal!Total(splits) = gross

LEMMA ThreeAddUp ==
  ASSUME NEW a \in Seq(Int), Len(a) = 3, NEW rest \in Int,
         a[1] >= 0, a[2] >= 0, a[3] >= 0, -1 <= rest, rest = -1 => Deal!Total(a) >= 1
  PROVE  /\ Deal!GiveRest(a, rest) \in Seq(Int) /\ Deal!Total(Deal!GiveRest(a, rest)) = Deal!Total(a) + rest
         /\ \A i \in DOMAIN Deal!GiveRest(a, rest) : Deal!GiveRest(a, rest)[i] >= 0
<1>1. DOMAIN a = 1 .. 3 /\ Deal!Total(a) = a[1] + a[2] + a[3]
  BY ThreeInts, TotalOfThree
<1>2. a[1] \in Int /\ a[2] \in Int /\ a[3] \in Int
  BY ThreeInts
<1>3. PICK i \in 1 .. 3 : /\ Deal!GiveRest(a, rest) = [a EXCEPT ![i] = a[i] + rest]
                          /\ \A j \in 1 .. 3 : a[j] <= a[i]
  BY RestToLargest
<1>4. PICK s : s = [a EXCEPT ![i] = a[i] + rest]
  OBVIOUS
<1>5. i = 1 \/ i = 2 \/ i = 3
  OBVIOUS
<1>6. a[i] + rest \in Int /\ a[i] + rest >= 0
  <2>1. a[1] <= a[i] /\ a[2] <= a[i] /\ a[3] <= a[i]
    BY <1>3
  <2>2. a[i] \in Int
    BY <1>2, <1>5
  <2> QED
    BY <1>1, <1>2, <2>1, <2>2
<1>7. \A j \in 1 .. 3 : s[j] = IF j = i THEN a[i] + rest ELSE a[j]
  BY <1>1, <1>4
<1>8. s \in Seq(Int) /\ Len(s) = 3 /\ DOMAIN s = 1 .. 3
  <2>1. DOMAIN s = 1 .. 3 /\ s = [j \in 1 .. 3 |-> s[j]]
    BY <1>1, <1>4
  <2>2. \A j \in 1 .. 3 : s[j] \in Int
    BY <1>2, <1>6, <1>7
  <2>3. s \in [1 .. 3 -> Int]
    BY <2>1, <2>2
  <2> QED
    BY <2>1, <2>3, IntsAreASeq
<1>9. Deal!Total(s) = s[1] + s[2] + s[3]
  BY <1>8, TotalOfThree
<1>10. s[1] + s[2] + s[3] = a[1] + a[2] + a[3] + rest
  BY <1>2, <1>7, <1>5
<1>11. \A j \in 1 .. 3 : s[j] >= 0
  BY <1>2, <1>5, <1>6, <1>7
<1> QED
  BY <1>1, <1>3, <1>4, <1>8, <1>9, <1>10, <1>11

LEMMA SharesOfFixedAndHalves ==
  ASSUME Deal!FundingAssumption, NEW gross \in Nat,
         NEW table, table = <<Deal!Fixed(1), Deal!Percent(50), Deal!Percent(50)>>, ~Deal!Problems(gross, table)
  PROVE  AddsUp(Deal!Shares(gross, table), gross, table)
<1>1. None # 1 /\ None # 50 /\ None \notin Int
  BY DEF Deal!FundingAssumption
<1>2. /\ DOMAIN table = 1 .. 3 /\ Len(table) = 3
      /\ table[1].amount = 1 /\ table[2].amount = None /\ table[3].amount = None
      /\ table[2].percent = 50 /\ table[3].percent = 50
  BY DEF Deal!Fixed, Deal!Percent
<1>3. Deal!FixedTotal(table) = 1
  <2>1. PICK f : f = [i \in DOMAIN table |-> IF table[i].amount = None THEN 0 ELSE table[i].amount]
    OBVIOUS
  <2>2. f[1] = 1 /\ f[2] = 0 /\ f[3] = 0
    BY <1>1, <1>2, <2>1
  <2>3. f \in Seq(Int) /\ Len(f) = 3
    <3>1. f \in [1 .. 3 -> Int]
      BY <1>1, <1>2, <2>1
    <3> QED
      BY <3>1, IntsAreASeq
  <2>4. Deal!FixedTotal(table) = Deal!Total(f)
    BY <2>1 DEF Deal!FixedTotal
  <2>5. Deal!Total(f) = f[1] + f[2] + f[3]
    BY <2>3, TotalOfThree
  <2> QED
    BY <2>2, <2>4, <2>5
<1>4. gross >= 1
  BY <1>3 DEF Deal!Problems
<1>5. PICK half : half = (2 * (gross - 1) * 50 + 100) \div 200
  OBVIOUS
<1>6. half \in Int /\ half >= 0 /\ 2 * half <= gross /\ 2 * half >= gross - 1
  BY <1>4, <1>5
<1>7. PICK pool : pool = IF gross > Deal!FixedTotal(table) THEN gross - Deal!FixedTotal(table) ELSE 0
  OBVIOUS
<1>8. pool = gross - 1
  BY <1>3, <1>4, <1>7
<1>9. PICK a : a = [i \in DOMAIN table |-> IF table[i].amount # None THEN table[i].amount
                                           ELSE Deal!Rounded(pool, table[i].percent)]
  OBVIOUS
<1>10. a[1] = 1 /\ a[2] = half /\ a[3] = half
  BY <1>1, <1>2, <1>5, <1>8, <1>9 DEF Deal!Rounded
<1>11. a \in Seq(Int) /\ Len(a) = 3
  <2>1. DOMAIN a = 1 .. 3 /\ a = [i \in 1 .. 3 |-> a[i]]
    BY <1>2, <1>9
  <2>2. a \in [1 .. 3 -> Int]
    BY <1>6, <1>10, <2>1
  <2> QED
    BY <2>2, IntsAreASeq
<1>12. Deal!Total(a) = 1 + half + half
  BY <1>6, <1>10, <1>11, TotalOfThree
<1>13. PICK rest : rest = gross - Deal!Total(a)
  OBVIOUS
<1>14. rest \in Int /\ rest \in {0, -1} /\ (rest = -1 => Deal!Total(a) >= 1)
  BY <1>6, <1>12, <1>13
<1>15. PICK s : s = IF rest # 0 /\ rest <= 3 /\ -rest <= 3 THEN Deal!GiveRest(a, rest) ELSE a
  OBVIOUS
<1>16. s \in Seq(Int) /\ Deal!Total(s) = gross /\ \A i \in DOMAIN s : s[i] >= 0
  <2>1. CASE rest = 0
    <3>1. s = a
      BY <1>15, <2>1
    <3>2. Deal!Total(a) = gross
      BY <1>5, <1>6, <1>12, <1>13, <2>1
    <3>3. DOMAIN a = 1 .. 3
      BY <1>11, ThreeInts
    <3>4. \A i \in 1 .. 3 : a[i] >= 0
      BY <1>5, <1>6, <1>10
    <3> QED
      BY <1>11, <3>1, <3>2, <3>3, <3>4
  <2>2. CASE rest # 0
    <3>1. s = Deal!GiveRest(a, rest)
      BY <1>14, <1>15, <2>2
    <3>2. a[1] >= 0 /\ a[2] >= 0 /\ a[3] >= 0 /\ -1 <= rest
      BY <1>5, <1>6, <1>10, <1>14
    <3>3. /\ Deal!GiveRest(a, rest) \in Seq(Int) /\ Deal!Total(Deal!GiveRest(a, rest)) = Deal!Total(a) + rest
          /\ \A i \in DOMAIN Deal!GiveRest(a, rest) : Deal!GiveRest(a, rest)[i] >= 0
      BY <1>11, <1>14, <3>2, ThreeAddUp
    <3>4. Deal!Total(a) + rest = gross
      BY <1>5, <1>6, <1>12, <1>13
    <3> QED
      BY <3>1, <3>3, <3>4
  <2> QED
    BY <2>1, <2>2
<1>17. Deal!Shares(gross, table) = s
  BY <1>2, <1>7, <1>9, <1>13, <1>15 DEF Deal!Shares
<1>18. Deal!Total(s) <= gross
  BY <1>16
<1> QED
  BY <1>16, <1>17, <1>18 DEF AddsUp

LEMMA SharesOfThirds ==
  ASSUME Deal!FundingAssumption, NEW gross \in Nat,
         NEW table, table = <<Deal!Percent(33), Deal!Percent(33), Deal!Percent(34)>>, ~Deal!Problems(gross, table)
  PROVE  AddsUp(Deal!Shares(gross, table), gross, table)
<1>1. None \notin Int
  BY DEF Deal!FundingAssumption
<1>2. /\ DOMAIN table = 1 .. 3 /\ Len(table) = 3
      /\ table[1].amount = None /\ table[2].amount = None /\ table[3].amount = None
      /\ table[1].percent = 33 /\ table[2].percent = 33 /\ table[3].percent = 34
  BY DEF Deal!Percent
<1>3. Deal!FixedTotal(table) = 0
  <2>1. PICK f : f = [i \in DOMAIN table |-> IF table[i].amount = None THEN 0 ELSE table[i].amount]
    OBVIOUS
  <2>2. f[1] = 0 /\ f[2] = 0 /\ f[3] = 0
    BY <1>1, <1>2, <2>1
  <2>3. f \in Seq(Int) /\ Len(f) = 3
    <3>1. f \in [1 .. 3 -> Int]
      BY <1>1, <1>2, <2>1
    <3> QED
      BY <3>1, IntsAreASeq
  <2>4. Deal!FixedTotal(table) = Deal!Total(f)
    BY <2>1 DEF Deal!FixedTotal
  <2>5. Deal!Total(f) = f[1] + f[2] + f[3]
    BY <2>3, TotalOfThree
  <2> QED
    BY <2>2, <2>4, <2>5
<1>4. PICK third, more : /\ third = (2 * gross * 33 + 100) \div 200
                         /\ more = (2 * gross * 34 + 100) \div 200
  OBVIOUS
<1>5. /\ third \in Int /\ third >= 0 /\ 200 * third <= 66 * gross + 100
      /\ 200 * third > 66 * gross - 100
  BY <1>4
<1>6. /\ more \in Int /\ more >= 0 /\ 200 * more <= 68 * gross + 100
      /\ 200 * more > 68 * gross - 100
  BY <1>4
<1>7. PICK pool : pool = IF gross > Deal!FixedTotal(table) THEN gross - Deal!FixedTotal(table) ELSE 0
  OBVIOUS
<1>8. pool = gross
  BY <1>3, <1>7
<1>9. PICK a : a = [i \in DOMAIN table |-> IF table[i].amount # None THEN table[i].amount
                                           ELSE Deal!Rounded(pool, table[i].percent)]
  OBVIOUS
<1>10. a[1] = third /\ a[2] = third /\ a[3] = more
  BY <1>1, <1>2, <1>4, <1>8, <1>9 DEF Deal!Rounded
<1>11. a \in Seq(Int) /\ Len(a) = 3
  <2>1. DOMAIN a = 1 .. 3 /\ a = [i \in 1 .. 3 |-> a[i]]
    BY <1>2, <1>9
  <2>2. a \in [1 .. 3 -> Int]
    BY <1>5, <1>6, <1>10, <2>1
  <2> QED
    BY <2>2, IntsAreASeq
<1>12. Deal!Total(a) = third + third + more
  BY <1>5, <1>6, <1>10, <1>11, TotalOfThree
<1>13. PICK rest : rest = gross - Deal!Total(a)
  OBVIOUS
<1>14. rest \in Int /\ rest <= 1 /\ -1 <= rest /\ (rest = -1 => Deal!Total(a) >= 1)
  BY <1>5, <1>6, <1>12, <1>13
<1>15. PICK s : s = IF rest # 0 /\ rest <= 3 /\ -rest <= 3 THEN Deal!GiveRest(a, rest) ELSE a
  OBVIOUS
<1>16. s \in Seq(Int) /\ Deal!Total(s) = gross /\ \A i \in DOMAIN s : s[i] >= 0
  <2>1. CASE rest = 0
    <3>1. s = a
      BY <1>15, <2>1
    <3>2. Deal!Total(a) = gross
      BY <1>5, <1>6, <1>12, <1>13, <2>1
    <3>3. DOMAIN a = 1 .. 3
      BY <1>11, ThreeInts
    <3>4. \A i \in 1 .. 3 : a[i] >= 0
      BY <1>5, <1>6, <1>10
    <3> QED
      BY <1>11, <3>1, <3>2, <3>3, <3>4
  <2>2. CASE rest # 0
    <3>1. s = Deal!GiveRest(a, rest)
      BY <1>14, <1>15, <2>2
    <3>2. a[1] >= 0 /\ a[2] >= 0 /\ a[3] >= 0 /\ -1 <= rest
      BY <1>5, <1>6, <1>10, <1>14
    <3>3. /\ Deal!GiveRest(a, rest) \in Seq(Int) /\ Deal!Total(Deal!GiveRest(a, rest)) = Deal!Total(a) + rest
          /\ \A i \in DOMAIN Deal!GiveRest(a, rest) : Deal!GiveRest(a, rest)[i] >= 0
      BY <1>11, <1>14, <3>2, ThreeAddUp
    <3>4. Deal!Total(a) + rest = gross
      BY <1>5, <1>6, <1>12, <1>13
    <3> QED
      BY <3>1, <3>3, <3>4
  <2> QED
    BY <2>1, <2>2
<1>17. Deal!Shares(gross, table) = s
  BY <1>2, <1>7, <1>9, <1>13, <1>15 DEF Deal!Shares
<1>18. Deal!Total(s) <= gross
  BY <1>16
<1> QED
  BY <1>16, <1>17, <1>18 DEF AddsUp

LEMMA SharesOfOne ==
  ASSUME Deal!FundingAssumption, NEW gross \in Nat,
         NEW table, table = <<Deal!Fixed(1)>>, ~Deal!Problems(gross, table)
  PROVE  AddsUp(Deal!Shares(gross, table), gross, table)
<1>1. None \notin Int
  BY DEF Deal!FundingAssumption
<1>2. /\ DOMAIN table = 1 .. 1 /\ Len(table) = 1
      /\ table[1].amount = 1 /\ table[1].percent = None
  BY DEF Deal!Fixed
<1>3. Deal!FixedTotal(table) = 1
  <2>1. PICK f : f = [i \in DOMAIN table |-> IF table[i].amount = None THEN 0 ELSE table[i].amount]
    OBVIOUS
  <2>2. f[1] = 1
    BY <1>1, <1>2, <2>1
  <2>3. f \in Seq(Int) /\ Len(f) = 1
    <3>1. f \in [1 .. 1 -> Int]
      BY <1>1, <1>2, <2>1
    <3> QED
      BY <3>1, IntsAreASeq
  <2> QED
    BY <2>1, <2>2, <2>3, TotalOfOne DEF Deal!FixedTotal
<1>4. gross >= 1
  BY <1>3 DEF Deal!Problems
<1>5. PICK pool : pool = IF gross > Deal!FixedTotal(table) THEN gross - Deal!FixedTotal(table) ELSE 0
  OBVIOUS
<1>6. PICK a : a = [i \in DOMAIN table |-> IF table[i].amount # None THEN table[i].amount
                                           ELSE Deal!Rounded(pool, table[i].percent)]
  OBVIOUS
<1>7. a[1] = 1 /\ DOMAIN a = 1 .. 1
  BY <1>1, <1>2, <1>6
<1>8. a \in Seq(Int) /\ Len(a) = 1
  <2>1. a \in [1 .. 1 -> Int]
    BY <1>1, <1>2, <1>6
  <2> QED
    BY <2>1, IntsAreASeq
<1>9. Deal!Total(a) = 1
  BY <1>7, <1>8, TotalOfOne
<1>10. PICK rest : rest = gross - Deal!Total(a)
  OBVIOUS
<1>11. PICK s : s = IF rest # 0 /\ rest <= 1 /\ -rest <= 1 THEN Deal!GiveRest(a, rest) ELSE a
  OBVIOUS
<1>12. Deal!Shares(gross, table) = s
  BY <1>2, <1>5, <1>6, <1>10, <1>11 DEF Deal!Shares
<1>13. s \in Seq(Int) /\ Deal!Total(s) <= gross /\ \A i \in DOMAIN s : s[i] >= 0
  <2>1. CASE rest = 1
    <3>1. PICK i : i = CHOOSE k \in DOMAIN a : \A j \in DOMAIN a : a[j] < a[k] \/ (a[j] = a[k] /\ k <= j)
      OBVIOUS
    <3>2. i = 1
      BY <1>7, <3>1
    <3>3. s = [a EXCEPT ![1] = 2]
      <4>1. Deal!GiveRest(a, rest) = [a EXCEPT ![i] = a[i] + rest]
        BY <3>1 DEF Deal!GiveRest
      <4>2. s = Deal!GiveRest(a, rest)
        BY <1>11, <2>1
      <4> QED
        BY <1>7, <2>1, <3>2, <4>1, <4>2
    <3>4. s \in Seq(Int) /\ Len(s) = 1 /\ DOMAIN s = 1 .. 1 /\ s[1] = 2
      BY <1>7, <1>8, <3>3
    <3>5. Deal!Total(s) = 2
      BY <3>4, TotalOfOne
    <3> QED
      BY <1>9, <1>10, <2>1, <3>4, <3>5
  <2>2. CASE rest # 1
    <3>1. s = a
      BY <1>4, <1>9, <1>10, <1>11, <2>2
    <3> QED
      BY <1>4, <1>7, <1>8, <1>9, <3>1
  <2> QED
    BY <2>1, <2>2
<1> QED
  BY <1>2, <1>12, <1>13 DEF AddsUp

LEMMA SharesAddUp ==
  ASSUME Deal!FundingAssumption, NEW gross \in Nat, NEW table \in Deal!Tables, ~Deal!Problems(gross, table)
  PROVE  AddsUp(Deal!Shares(gross, table), gross, table)
  BY SharesOfFixedAndHalves, SharesOfThirds, SharesOfOne DEF Deal!Tables

-----------------------------------------------------------------------------
(* The requests under way, by what they have read.                         *)
FundOp == [kind : {"fund"}, on : {"funding"}, new : BOOLEAN, amount : Amounts, maturity : Days]
ConfirmOp == [kind : {"confirm"}, on : {"funding"}, saw : Deal!FundingRow, table : Deal!Tables]
CommissionOp ==
  [kind : {"commission"}, on : Commissions, at : {"check", "split", "write"},
   expected : Amounts, received : Amounts \cup {None}, status : Deal!Statuses, note : BOOLEAN,
   table : Deal!Tables \cup {None}, was : Deal!Statuses, late : BOOLEAN]
RenewalOp ==
  [kind : {"renewal"}, on : Renewals, status : Deal!Open \cup {"renewed_with_us", None},
   maturity : Days \cup {None}, was : Days]

DealOps == {Deal!Idle} \cup FundOp \cup ConfirmOp \cup CommissionOp \cup RenewalOp

Divided(op) == IF op.received # None THEN op.received ELSE op.expected

(* What a request is entitled to find when it writes.                      *)
CommissionStands(op) ==
  /\ commission[op.on] # None
  /\ op.expected = commission[op.on].expected
  /\ Deal!Differs(op.expected, op.received) =>
       op.status # "received" /\ (op.status = "reconciled" => op.note)
  /\ op.table # None => ~Deal!Problems(Divided(op), op.table)
  /\ op.at = "split" => op.table # None
  /\ ~op.late => op.was = commission[op.on].status
  /\ op.at # "check" /\ ~op.late /\ Deal!MustAsk(op) => complete

DealStands(op) ==
  /\ op.kind = "fund" /\ ~op.new => funding # None
  /\ op.kind = "confirm" =>
       funding # None /\ ~op.saw.confirmed /\ ~Deal!Problems(op.saw.amount, op.table)
  /\ op.kind = "commission" => CommissionStands(op)
  /\ op.kind = "renewal" => renewal[op.on] # None

DealWork ==
  /\ deals \in [Workers -> DealOps]
  /\ \A w \in Workers : DealStands(deals[w])

(* While no two requests on the funding have overlapped.                   *)
DealOnce ==
  "funding" \notin crossing =>
    /\ funding = None \/ ~funding.confirmed =>
         /\ \A c \in Commissions : commission[c] = None
         /\ \A r \in Renewals : renewal[r] = None
    /\ funding # None /\ funding.confirmed =>
         \A w \in Workers :
           deals[w].kind # "confirm" /\ (deals[w].kind = "fund" => ~deals[w].new)
    /\ \A c, d \in Commissions : commission[c] # None /\ commission[d] # None => c = d
    /\ \A q, r \in Renewals : renewal[q] # None /\ renewal[r] # None => q = r
    /\ \A c \in Commissions : commission[c] # None => commission[c].expected = funding.amount

DealInv == Deal!TypeOK /\ DealWork /\ DealOnce /\ Deal!MoneyAddsUp /\ Deal!MilestonesFollow

LEMMA DealAtInit ==
  ASSUME Deal!FundingAssumption, Deal!Init PROVE DealInv
<1>1. Deal!TypeOK
  BY DEF Deal!Init, Deal!TypeOK, Deal!FundingRow
<1>2. DealWork
  BY DEF Deal!Init, DealWork, DealOps, DealStands, Deal!Idle
<1>3. DealOnce /\ Deal!MoneyAddsUp /\ Deal!MilestonesFollow
  BY DEF Deal!Init, DealOnce, Deal!MoneyAddsUp, Deal!MilestonesFollow, Deal!FundingRow
<1> QED
  BY <1>1, <1>2, <1>3 DEF DealInv

LEMMA DealOpOf ==
  ASSUME DealInv, NEW w \in Workers
  PROVE  /\ deals[w] \in DealOps /\ DealStands(deals[w])
         /\ deals[w].kind = "fund" => deals[w] \in FundOp
         /\ deals[w].kind = "confirm" => deals[w] \in ConfirmOp
         /\ deals[w].kind = "commission" => deals[w] \in CommissionOp
         /\ deals[w].kind = "renewal" => deals[w] \in RenewalOp
  BY DEF DealInv, DealWork, DealOps, Deal!Idle, FundOp, ConfirmOp, CommissionOp, RenewalOp

(* What a request waits on stays for it, as long as no row is taken away   *)
(* and what has changed under it is marked.                                *)
LEMMA DealKeeps ==
  ASSUME NEW op, DealStands(op), funding # None => funding' # None,
         op.kind = "commission" /\ commission[op.on] # None =>
           /\ commission'[op.on] # None
           /\ commission'[op.on].expected = commission[op.on].expected
           /\ op.late \/ (commission'[op.on].status = commission[op.on].status
                          /\ complete' = complete),
         op.kind = "renewal" /\ renewal[op.on] # None => renewal'[op.on] # None
  PROVE  DealStands(op)'
<1>1. op.kind = "commission" => CommissionStands(op)'
  BY DEF DealStands, CommissionStands
<1> QED
  BY <1>1 DEF DealStands

(* A step of one request that leaves the file as it is.                    *)
LEMMA DealOneMoves ==
  ASSUME DealInv, NEW w \in Workers, NEW op \in DealOps,
         UNCHANGED <<funding, won, commission, renewal, complete, crossing, reopened>>,
         deals' = [deals EXCEPT ![w] = op], DealStands(op),
         op.kind = "confirm" \/ (op.kind = "fund" /\ op.new) => funding = None \/ ~funding.confirmed
  PROVE  DealInv'
<1>1. \A v \in Workers : deals'[v] = IF v = w THEN op ELSE deals[v]
  BY DEF DealInv, DealWork
<1>2. DealWork'
  <2>1. deals' \in [Workers -> DealOps]
    BY DEF DealInv, DealWork
  <2>2. ASSUME NEW v \in Workers PROVE DealStands(deals[v])'
    <3>1. PICK o : o = deals'[v]
      OBVIOUS
    <3>2. DealStands(o)
      BY <1>1, <3>1 DEF DealInv, DealWork
    <3>3. DealStands(o)'
      BY <3>2 DEF DealStands, CommissionStands
    <3> QED
      BY <3>1, <3>3
  <2> QED
    BY <2>1, <2>2 DEF DealWork
<1>3. DealOnce'
  BY <1>1 DEF DealInv, DealOnce
<1>4. Deal!TypeOK' /\ Deal!MoneyAddsUp' /\ Deal!MilestonesFollow'
  BY DEF DealInv, Deal!TypeOK, Deal!MoneyAddsUp, Deal!MilestonesFollow
<1> QED
  BY <1>2, <1>3, <1>4 DEF DealInv

LEMMA DealExit ==
  ASSUME DealInv, NEW w \in Workers, Deal!Exit(w) PROVE DealInv'
<1>1. Deal!Idle \in DealOps /\ DealStands(Deal!Idle) /\ Deal!Idle.kind = "idle"
  BY DEF DealOps, DealStands, Deal!Idle
<1> QED
  BY <1>1, DealOneMoves DEF Deal!Exit, Deal!Done

LEMMA DealCheck ==
  ASSUME DealInv, NEW w \in Workers, Deal!CheckBlockers(w) PROVE DealInv'
<1> DEFINE to == IF deals[w].table = None THEN "write" ELSE "split"
           op == [deals[w] EXCEPT !.at = to]
<1>1. deals[w] \in CommissionOp /\ CommissionStands(deals[w]) /\ deals[w].at = "check"
  BY DealOpOf DEF Deal!CheckBlockers, DealStands
<1>2. Deal!Idle \in DealOps /\ DealStands(Deal!Idle) /\ Deal!Idle.kind = "idle"
  BY DEF DealOps, DealStands, Deal!Idle
<1>3. op \in CommissionOp
  BY <1>1 DEF CommissionOp
<1>4. op.kind = "commission" /\ op.on = deals[w].on /\ op.expected = deals[w].expected
      /\ op.received = deals[w].received /\ op.status = deals[w].status /\ op.note = deals[w].note
      /\ op.table = deals[w].table /\ op.was = deals[w].was /\ op.late = deals[w].late /\ op.at = to
  BY <1>1 DEF CommissionOp
<1>5. CASE Deal!MustAsk(deals[w]) /\ ~complete
  BY <1>2, <1>5, DealOneMoves DEF Deal!CheckBlockers
<1>6. CASE ~(Deal!MustAsk(deals[w]) /\ ~complete)
  <2>1. CommissionStands(op)
    BY <1>1, <1>4, <1>6 DEF CommissionStands, Deal!MustAsk, Divided
  <2>2. DealStands(op) /\ op \in DealOps
    BY <1>3, <1>4, <2>1 DEF DealStands, DealOps
  <2>3. deals' = [deals EXCEPT ![w] = op]
    BY <1>6 DEF Deal!CheckBlockers
  <2> HIDE DEF op
  <2> QED
    BY <1>4, <2>2, <2>3, DealOneMoves DEF Deal!CheckBlockers
<1> QED
  BY <1>5, <1>6

LEMMA DealAsks ==
  ASSUME Deal!FundingAssumption, DealInv, NEW w \in Workers, Deal!Ask(w) PROVE DealInv'
<1>1. ASSUME NEW amount \in Amounts, NEW maturity \in Days, NEW admin \in BOOLEAN,
             Deal!AskFunding(w, amount, maturity, admin)
      PROVE  DealInv'
  <2> DEFINE op == [kind |-> "fund", on |-> "funding", new |-> (funding = None),
                    amount |-> amount, maturity |-> maturity]
  <2>1. op \in FundOp /\ op \in DealOps /\ DealStands(op)
    BY DEF FundOp, DealOps, DealStands
  <2>2. op.kind = "fund" /\ (op.new => funding = None)
    OBVIOUS
  <2>3. Deal!Start(w, op)
    BY <1>1 DEF Deal!AskFunding
  <2> HIDE DEF op
  <2> QED
    BY <2>1, <2>2, <2>3, DealOneMoves DEF Deal!Start
<1>2. ASSUME NEW table \in Deal!Tables, Deal!AskConfirm(w, table) PROVE DealInv'
  <2> DEFINE op == [kind |-> "confirm", on |-> "funding", saw |-> funding, table |-> table]
  <2>1. funding \in Deal!FundingRow /\ funding # None /\ ~funding.confirmed /\ ~Deal!Problems(funding.amount, table)
    BY <1>2 DEF Deal!AskConfirm, Deal!NotConfirmed, DealInv, Deal!TypeOK
  <2>2. op \in ConfirmOp /\ op \in DealOps /\ DealStands(op)
    BY <2>1 DEF ConfirmOp, DealOps, DealStands
  <2>3. Deal!Start(w, op)
    BY <1>2 DEF Deal!AskConfirm
  <2> HIDE DEF op
  <2> QED
    BY <2>1, <2>2, <2>3, DealOneMoves DEF Deal!Start
<1>3. ASSUME NEW c \in Commissions, NEW said \in Deal!Statuses \cup {None},
             NEW received \in Amounts \cup {None}, NEW note \in BOOLEAN,
             NEW table \in Deal!Tables \cup {None}, commission[c] # None,
             Deal!AskCommission(w, c, said, received, note, table)
      PROVE  DealInv'
  <2> DEFINE row == commission[c]
             got == IF received = None THEN row.received ELSE received
             status == IF said = None THEN row.status ELSE said
             after == Deal!StatusAfter(status, row.expected, got)
             op == [kind |-> "commission", on |-> c, at |-> "check", expected |-> row.expected,
                    received |-> got, status |-> after, note |-> note, table |-> table,
                    was |-> row.status, late |-> FALSE]
  <2>1. row \in Deal!CommissionRow
    BY <1>3 DEF DealInv, Deal!TypeOK
  <2>2. got \in Amounts \cup {None} /\ status \in Deal!Statuses /\ row.expected \in Amounts
        /\ row.status \in Deal!Statuses
    BY <2>1 DEF Deal!CommissionRow
  <2>3. after \in Deal!Statuses
    BY <2>2 DEF Deal!StatusAfter, Deal!Statuses
  <2>4. op \in CommissionOp /\ op \in DealOps
    BY <2>2, <2>3 DEF CommissionOp, DealOps
  <2>5. /\ status = "reconciled" /\ Deal!Differs(row.expected, got) => note
        /\ table # None => ~Deal!Problems(IF got # None THEN got ELSE row.expected, table)
        /\ Deal!Start(w, op)
    BY <1>3 DEF Deal!AskCommission
  <2>6. Deal!Differs(row.expected, got) => after # "received" /\ (after = "reconciled" => note)
    BY <2>5 DEF Deal!StatusAfter
  <2>7. CommissionStands(op)
    BY <1>3, <2>5, <2>6 DEF CommissionStands, Divided
  <2>8. DealStands(op) /\ op.kind = "commission"
    BY <2>7 DEF DealStands
  <2> HIDE DEF op
  <2> QED
    BY <2>4, <2>5, <2>8, DealOneMoves DEF Deal!Start
<1>4. ASSUME NEW r \in Renewals, NEW status \in Deal!Open \cup {"renewed_with_us", None},
             NEW maturity \in Days \cup {None}, Deal!AskRenewal(w, r, status, maturity)
      PROVE  DealInv'
  <2> DEFINE op == [kind |-> "renewal", on |-> r, status |-> status, maturity |-> maturity,
                    was |-> renewal[r].maturity]
  <2>1. renewal[r] # None /\ renewal[r] \in Deal!RenewalRow /\ Deal!Start(w, op)
    BY <1>4 DEF Deal!AskRenewal, DealInv, Deal!TypeOK
  <2>2. op \in RenewalOp /\ op \in DealOps /\ DealStands(op) /\ op.kind = "renewal"
    BY <2>1 DEF Deal!RenewalRow, RenewalOp, DealOps, DealStands
  <2> HIDE DEF op
  <2> QED
    BY <2>1, <2>2, DealOneMoves DEF Deal!Start
<1> QED
  BY <1>1, <1>2, <1>3, <1>4 DEF Deal!Ask

-----------------------------------------------------------------------------
(* The steps that write.                                                   *)

(* The work when w is done and the others go on as they were.              *)
LEMMA DealDone ==
  ASSUME DealInv, NEW w \in Workers, Deal!Done(w),
         \A o : (\E v \in Workers \ {w} : deals[v] = o) => DealStands(o)'
  PROVE  DealWork' /\ \A v \in Workers : deals'[v] = IF v = w THEN Deal!Idle ELSE deals[v]
<1>1. \A v \in Workers : deals'[v] = IF v = w THEN Deal!Idle ELSE deals[v]
  BY DEF Deal!Done, DealInv, DealWork
<1>2. deals' \in [Workers -> DealOps]
  BY DEF Deal!Done, DealInv, DealWork, DealOps
<1>3. DealStands(Deal!Idle)'
  BY DEF DealStands, Deal!Idle
<1>4. ASSUME NEW v \in Workers PROVE DealStands(deals[v])'
  <2>1. PICK o : o = deals'[v]
    OBVIOUS
  <2>2. DealStands(o)'
    BY <1>1, <1>3, <2>1
  <2> QED
    BY <2>1, <2>2
<1> QED
  BY <1>1, <1>2, <1>4 DEF DealWork

LEMMA DealWriteFunding ==
  ASSUME Deal!FundingAssumption, DealInv, NEW w \in Workers, Deal!WriteFunding(w) PROVE DealInv'
<1> DEFINE op == deals[w]
<1>1. op \in FundOp /\ DealStands(op) /\ op.kind = "fund"
  BY DealOpOf DEF Deal!WriteFunding
<1>2. /\ funding' = IF op.new /\ funding # None THEN funding
                    ELSE [amount |-> op.amount, maturity |-> op.maturity,
                          confirmed |-> IF op.new THEN FALSE ELSE funding.confirmed]
      /\ crossing' = IF Deal!Others(w, "funding") \/ (~op.new /\ funding.confirmed)
                         THEN crossing \cup {"funding"} ELSE crossing
      /\ Deal!Done(w) /\ UNCHANGED <<won, commission, renewal, complete, dealSteps, reopened>>
  BY DEF Deal!WriteFunding
<1>3. funding = None \/ funding \in Deal!FundingRow
  BY DEF DealInv, Deal!TypeOK
<1>4. funding' \in Deal!FundingRow /\ funding' # None
  <2>1. funding' \in Deal!FundingRow
    BY <1>1, <1>2, <1>3 DEF FundOp, DealStands, Deal!FundingRow
  <2> QED
    BY <2>1 DEF Deal!FundingAssumption
<1>5. funding # None => funding'.confirmed = funding.confirmed
  BY <1>1, <1>2, <1>3 DEF Deal!FundingRow
<1>6. ASSUME NEW o, DealStands(o) PROVE DealStands(o)'
  BY <1>2, <1>4, <1>6 DEF DealStands, CommissionStands
<1>7. DealWork' /\ \A v \in Workers : deals'[v] = IF v = w THEN Deal!Idle ELSE deals[v]
  BY <1>2, <1>6, DealDone, DealOpOf
<1>8. Deal!TypeOK'
  BY <1>2, <1>4, <1>5 DEF DealInv, Deal!TypeOK
<1>9. DealOnce'
  <2> SUFFICES ASSUME "funding" \notin crossing'
               PROVE  /\ funding' = None \/ ~funding'.confirmed =>
                           /\ \A c \in Commissions : commission[c] = None
                           /\ \A r \in Renewals : renewal[r] = None
                      /\ funding' # None /\ funding'.confirmed =>
                           \A v \in Workers :
                             deals'[v].kind # "confirm" /\ (deals'[v].kind = "fund" => ~deals'[v].new)
                      /\ \A c, d \in Commissions : commission[c] # None /\ commission[d] # None => c = d
                      /\ \A q, r \in Renewals : renewal[q] # None /\ renewal[r] # None => q = r
                      /\ \A c \in Commissions : commission[c] # None => commission[c].expected = funding'.amount
    BY <1>2 DEF DealOnce
  <2>1. "funding" \notin crossing /\ (op.new \/ ~funding.confirmed)
    BY <1>2
  <2>2. CASE funding = None \/ ~funding.confirmed
    <3>1. /\ \A c \in Commissions : commission[c] = None
          /\ \A r \in Renewals : renewal[r] = None
      BY <2>1, <2>2 DEF DealInv, DealOnce
    <3>2. ~funding'.confirmed
      BY <1>1, <1>2, <1>5, <2>2 DEF DealStands
    <3> QED
      BY <1>4, <3>1, <3>2
  <2>3. CASE funding # None /\ funding.confirmed
    <3>1. ~op.new
      BY <1>1, <2>1, <2>3 DEF DealInv, DealOnce
    <3> QED
      BY <2>1, <2>3, <3>1
  <2> QED
    BY <2>2, <2>3
<1>10. Deal!MoneyAddsUp'
  BY <1>2 DEF DealInv, Deal!MoneyAddsUp
<1>11. Deal!MilestonesFollow'
  <2>1. \A r : r \notin crossing' => r \notin crossing
    BY <1>2
  <2> QED
    BY <1>2, <2>1 DEF DealInv, Deal!MilestonesFollow
<1> QED
  BY <1>7, <1>8, <1>9, <1>10, <1>11 DEF DealInv

(* A row of the commission's split, as MoneyAddsUp has it.                 *)
RowAddsUp(row) ==
  /\ AddsUp(row.splits, row.base, row.table)
  /\ row.variance = Deal!Difference(row.expected, row.received)
  /\ Deal!Differs(row.expected, row.received) =>
       row.status # "received" /\ (row.status = "reconciled" => row.note)

LEMMA MoneyByRow ==
  ASSUME Deal!TypeOK
  PROVE  Deal!MoneyAddsUp <=> \A c \in Commissions : commission[c] # None => RowAddsUp(commission[c])
<1>1. \A c \in Commissions : commission[c] # None => commission[c].splits \in Seq(Int)
  BY DEF Deal!TypeOK, Deal!CommissionRow
<1> QED
  BY <1>1 DEF Deal!MoneyAddsUp, RowAddsUp, AddsUp

LEMMA DealConfirm ==
  ASSUME Deal!FundingAssumption, DealInv, NEW w \in Workers, Deal!Confirm(w) PROVE DealInv'
<1>1. PICK op : op = deals[w]
  OBVIOUS
<1>2. op \in ConfirmOp /\ DealStands(op) /\ op.kind = "confirm"
  BY <1>1, DealOpOf DEF Deal!Confirm
<1>3. PICK c : c = CHOOSE x \in Commissions : commission[x] = None
  OBVIOUS
<1>4. PICK r : r = CHOOSE x \in Renewals : renewal[x] = None
  OBVIOUS
<1>5. c \in Commissions /\ commission[c] = None /\ r \in Renewals /\ renewal[r] = None
  BY <1>3, <1>4 DEF Deal!Confirm
<1>6. PICK row : row = [expected |-> op.saw.amount, received |-> None, variance |-> None,
                        status |-> "expected", note |-> FALSE, base |-> op.saw.amount,
                        table |-> op.table, splits |-> Deal!Shares(op.saw.amount, op.table)]
  OBVIOUS
<1>7. commission' = [commission EXCEPT ![c] = row]
  BY <1>1, <1>3, <1>6 DEF Deal!Confirm
<1>8. PICK today \in Days : renewal' = [renewal EXCEPT ![r] =
        [maturity |-> op.saw.maturity, status |-> "upcoming",
         milestones |-> Deal!MilestonesFor(op.saw.maturity, today)]]
  BY <1>1, <1>4 DEF Deal!Confirm
<1>9. PICK due : due = [maturity |-> op.saw.maturity, status |-> "upcoming",
                        milestones |-> Deal!MilestonesFor(op.saw.maturity, today)]
  OBVIOUS
<1>10. renewal' = [renewal EXCEPT ![r] = due]
  BY <1>8, <1>9
<1>11. /\ funding' = [funding EXCEPT !.confirmed = TRUE] /\ won' = TRUE
       /\ crossing' = IF Deal!Others(w, "funding") \/ funding # op.saw
                          THEN crossing \cup {"funding"} ELSE crossing
       /\ Deal!Done(w) /\ UNCHANGED <<complete, dealSteps, reopened>>
  BY <1>1 DEF Deal!Confirm
<1>12. /\ op.saw \in Deal!FundingRow /\ op.table \in Deal!Tables /\ funding # None
       /\ ~op.saw.confirmed /\ ~Deal!Problems(op.saw.amount, op.table)
       /\ op.saw.amount \in Amounts /\ op.saw.amount \in Nat /\ op.saw.maturity \in Days
  BY <1>2 DEF ConfirmOp, DealStands, Deal!FundingRow, Deal!FundingAssumption
<1>13. funding \in Deal!FundingRow
  BY <1>12 DEF DealInv, Deal!TypeOK
<1>14. funding' \in Deal!FundingRow /\ funding' # None /\ funding'.confirmed /\ funding'.amount = funding.amount
  <2>1. funding' \in Deal!FundingRow /\ funding'.confirmed /\ funding'.amount = funding.amount
    BY <1>11, <1>13 DEF Deal!FundingRow
  <2> QED
    BY <2>1 DEF Deal!FundingAssumption
<1>15. AddsUp(Deal!Shares(op.saw.amount, op.table), op.saw.amount, op.table)
  BY <1>12, SharesAddUp
<1>16. row \in Deal!CommissionRow /\ row # None
  <2>1. Deal!Shares(op.saw.amount, op.table) \in Seq(Int)
    BY <1>15 DEF AddsUp
  <2>2. row \in Deal!CommissionRow
    BY <1>6, <1>12, <2>1 DEF Deal!CommissionRow, Deal!Statuses
  <2> QED
    BY <2>2 DEF Deal!FundingAssumption
<1>17. RowAddsUp(row)
  BY <1>6, <1>15 DEF RowAddsUp, Deal!Difference, Deal!Differs
<1>18. /\ \A m \in Deal!Milestones : due.milestones[m].due = op.saw.maturity - Deal!Before[m]
                                /\ due.milestones[m].status \in {"skipped", "pending"}
       /\ due.maturity = op.saw.maturity /\ due.status = "upcoming"
  BY <1>9 DEF Deal!MilestonesFor
<1>19. due \in Deal!RenewalRow /\ due # None
  <2>1. \A m \in Deal!Milestones : Deal!Before[m] \in Int
    BY DEF Deal!Milestones, Deal!Before
  <2>2. Deal!MilestonesFor(op.saw.maturity, today) \in
          [Deal!Milestones -> [due : Int, status : {"pending", "skipped", "cancelled"}]]
    <3>1. op.saw.maturity \in Int
      BY <1>12 DEF Deal!FundingAssumption
    <3>2. \A m \in Deal!Milestones : op.saw.maturity - Deal!Before[m] \in Int
      BY <2>1, <3>1
    <3> QED
      BY <3>2 DEF Deal!MilestonesFor
  <2>3. due \in Deal!RenewalRow
    BY <1>9, <1>12, <2>2 DEF Deal!RenewalRow, Deal!Open
  <2> QED
    BY <2>3 DEF Deal!FundingAssumption
<1>20. /\ \A x \in Commissions : commission'[x] = IF x = c THEN row ELSE commission[x]
       /\ \A x \in Renewals : renewal'[x] = IF x = r THEN due ELSE renewal[x]
  BY <1>7, <1>10 DEF DealInv, Deal!TypeOK
<1>21. Deal!TypeOK'
  <2>1. commission' \in [Commissions -> {None} \cup Deal!CommissionRow]
    BY <1>7, <1>16 DEF DealInv, Deal!TypeOK
  <2>2. renewal' \in [Renewals -> {None} \cup Deal!RenewalRow]
    BY <1>10, <1>19 DEF DealInv, Deal!TypeOK
  <2> QED
    BY <1>11, <1>14, <2>1, <2>2 DEF DealInv, Deal!TypeOK
<1>22. ASSUME NEW o \in DealOps, DealStands(o) PROVE DealStands(o)'
  <2>1. o.kind = "commission" => o.on \in Commissions
    BY DEF DealOps, Deal!Idle, FundOp, ConfirmOp, CommissionOp, RenewalOp
  <2>2. o.kind = "renewal" => o.on \in Renewals
    BY DEF DealOps, Deal!Idle, FundOp, ConfirmOp, CommissionOp, RenewalOp
  <2> QED
    BY <1>5, <1>11, <1>14, <1>19, <1>20, <1>22, <2>1, <2>2, DealKeeps
<1>23. DealWork' /\ \A v \in Workers : deals'[v] = IF v = w THEN Deal!Idle ELSE deals[v]
  BY <1>11, <1>22, DealDone, DealOpOf
<1>24. DealOnce'
  <2> SUFFICES ASSUME "funding" \notin crossing' PROVE DealOnce'
    BY DEF DealOnce
  <2>1. "funding" \notin crossing /\ ~Deal!Others(w, "funding") /\ funding = op.saw
    BY <1>11
  <2>2. /\ \A x \in Commissions : commission[x] = None
        /\ \A x \in Renewals : renewal[x] = None
    BY <2>1, <1>12 DEF DealInv, DealOnce
  <2>3. ASSUME NEW v \in Workers PROVE deals'[v].kind # "confirm" /\ deals'[v].kind # "fund"
    <3>1. CASE v = w
      BY <1>23, <3>1 DEF Deal!Idle
    <3>2. CASE v # w
      <4>1. deals[v] = Deal!Idle \/ deals[v].on # "funding"
        BY <2>1, <3>2 DEF Deal!Others
      <4>2. deals[v].kind # "confirm" /\ deals[v].kind # "fund"
        BY <4>1, DealOpOf DEF Deal!Idle, ConfirmOp, FundOp
      <4> QED
        BY <1>23, <3>2, <4>2
    <3> QED
      BY <3>1, <3>2
  <2>4. \A x \in Commissions : commission'[x] # None => x = c /\ commission'[x].expected = op.saw.amount
    BY <1>6, <1>20, <2>2
  <2>5. \A x \in Renewals : renewal'[x] # None => x = r
    BY <1>20, <2>2
  <2> QED
    BY <1>14, <2>1, <2>3, <2>4, <2>5 DEF DealOnce
<1>25. Deal!MoneyAddsUp'
  <2>1. \A x \in Commissions : commission'[x] # None => RowAddsUp(commission'[x])
    BY <1>17, <1>20, MoneyByRow DEF DealInv
  <2> QED
    BY <1>21, <2>1, MoneyByRow DEF Deal!MoneyAddsUp, RowAddsUp, AddsUp, Deal!TypeOK, Deal!CommissionRow
<1>26. Deal!MilestonesFollow'
  <2> SUFFICES ASSUME NEW x \in Renewals, renewal'[x] # None, NEW m \in Deal!Milestones
               PROVE  /\ renewal'[x].milestones[m].status = "pending" /\ x \notin crossing' =>
                           renewal'[x].milestones[m].due = renewal'[x].maturity - Deal!Before[m]
                      /\ renewal'[x].status \notin Deal!Open => renewal'[x].milestones[m].status # "pending"
                      /\ renewal'[x].status \in Deal!Open /\ x \notin reopened' =>
                           renewal'[x].milestones[m].status # "cancelled"
    BY DEF Deal!MilestonesFollow
  <2>1. CASE x = r
    BY <1>18, <1>20, <2>1 DEF Deal!Open
  <2>2. CASE x # r
    <3>1. x \notin crossing' => x \notin crossing
      BY <1>11
    <3> QED
      BY <1>11, <1>20, <2>2, <3>1 DEF DealInv, Deal!MilestonesFollow
  <2> QED
    BY <2>1, <2>2
<1> QED
  BY <1>21, <1>23, <1>24, <1>25, <1>26 DEF DealInv

(* A step of a request on commission c that writes its row.                *)
LEMMA DealWritesRow ==
  ASSUME Deal!FundingAssumption, DealInv, NEW c \in Commissions, commission[c] # None,
         NEW row \in Deal!CommissionRow,
         commission' = [commission EXCEPT ![c] = row], row.expected = commission[c].expected,
         RowAddsUp(row), UNCHANGED <<funding, won, renewal, complete, crossing, reopened>>,
         \A v \in Workers : deals'[v].kind # "confirm" \/ deals'[v] = deals[v],
         \A v \in Workers : deals'[v].kind # "fund" \/ deals'[v] = deals[v],
         DealWork'
  PROVE  DealInv'
<1>1. row # None
  BY DEF Deal!FundingAssumption
<1>2. \A x \in Commissions : commission'[x] = IF x = c THEN row ELSE commission[x]
  BY DEF DealInv, Deal!TypeOK
<1>3. Deal!TypeOK'
  BY <1>2 DEF DealInv, Deal!TypeOK
<1>4. DealOnce'
  <2>1. \A x \in Commissions : commission'[x] # None => commission[x] # None
                               /\ commission'[x].expected = commission[x].expected
    BY <1>2
  <2>2. (\A x \in Commissions : commission[x] = None) => (\A x \in Commissions : commission'[x] = None)
    OBVIOUS
  <2> QED
    BY <2>1, <2>2 DEF DealInv, DealOnce
<1>5. Deal!MoneyAddsUp'
  <2>1. \A x \in Commissions : commission'[x] # None => RowAddsUp(commission'[x])
    BY <1>2, MoneyByRow DEF DealInv
  <2> QED
    BY <1>3, <2>1 DEF Deal!MoneyAddsUp, RowAddsUp, AddsUp, Deal!TypeOK, Deal!CommissionRow
<1>6. Deal!MilestonesFollow'
  BY DEF DealInv, Deal!MilestonesFollow
<1> QED
  BY <1>3, <1>4, <1>5, <1>6 DEF DealInv

LEMMA DealSplits ==
  ASSUME Deal!FundingAssumption, DealInv, NEW w \in Workers, Deal!ReplaceSplits(w) PROVE DealInv'
<1>1. PICK op : op = deals[w]
  OBVIOUS
<1>2. PICK c : c = op.on
  OBVIOUS
<1>3. op \in CommissionOp /\ CommissionStands(op) /\ op.at = "split"
  BY <1>1, DealOpOf DEF Deal!ReplaceSplits, DealStands
<1>4. PICK base : base = Divided(op)
  OBVIOUS
<1>5. c \in Commissions /\ commission[c] # None /\ commission[c] \in Deal!CommissionRow
  BY <1>2, <1>3 DEF CommissionOp, CommissionStands, DealInv, Deal!TypeOK
<1>6. base \in Amounts /\ base \in Nat /\ op.table \in Deal!Tables /\ ~Deal!Problems(base, op.table)
  BY <1>3, <1>4 DEF CommissionOp, CommissionStands, Divided, Deal!FundingAssumption
<1>7. AddsUp(Deal!Shares(base, op.table), base, op.table)
  BY <1>6, SharesAddUp
<1>8. PICK row : row = [commission[c] EXCEPT !.splits = Deal!Shares(base, op.table), !.table = op.table,
                                             !.base = base]
  OBVIOUS
<1>9. /\ row \in Deal!CommissionRow /\ row.expected = commission[c].expected
      /\ row.splits = Deal!Shares(base, op.table) /\ row.base = base /\ row.table = op.table
      /\ row.status = commission[c].status /\ row.received = commission[c].received
      /\ row.variance = commission[c].variance /\ row.note = commission[c].note
  <2>1. Deal!Shares(base, op.table) \in Seq(Int)
    BY <1>7 DEF AddsUp
  <2> QED
    BY <1>5, <1>6, <1>8, <2>1 DEF Deal!CommissionRow
<1>10. RowAddsUp(row)
  <2>1. RowAddsUp(commission[c])
    BY <1>5, MoneyByRow DEF DealInv
  <2> QED
    BY <1>7, <1>9, <2>1 DEF RowAddsUp
<1>11. commission' = [commission EXCEPT ![c] = row]
  <2>1. commission' = [commission EXCEPT ![c].splits = Deal!Shares(base, op.table),
                                         ![c].table = op.table, ![c].base = base]
    BY <1>1, <1>2, <1>4 DEF Deal!ReplaceSplits, Divided
  <2> QED
    BY <1>5, <1>8, <2>1 DEF DealInv, Deal!TypeOK
<1>12. PICK next : next = [op EXCEPT !.at = "write"]
  OBVIOUS
<1>13. deals' = [deals EXCEPT ![w] = next] /\ UNCHANGED <<funding, won, renewal, complete, crossing, reopened>>
  BY <1>1, <1>12 DEF Deal!ReplaceSplits
<1>14. next \in CommissionOp /\ next.kind = "commission"
       /\ next.on = op.on /\ next.expected = op.expected
       /\ next.received = op.received /\ next.status = op.status /\ next.note = op.note
       /\ next.table = op.table /\ next.was = op.was /\ next.late = op.late /\ next.at = "write"
  BY <1>3, <1>12 DEF CommissionOp
<1>15. \A v \in Workers : deals'[v] = IF v = w THEN next ELSE deals[v]
  BY <1>13 DEF DealInv, DealWork
<1>16. \A x \in Commissions : commission'[x] = IF x = c THEN row ELSE commission[x]
  BY <1>11 DEF DealInv, Deal!TypeOK
<1>17. row # None
  BY <1>9 DEF Deal!FundingAssumption
<1>18. ASSUME NEW o \in DealOps, DealStands(o) PROVE DealStands(o)'
  <2>1. o.kind = "commission" => o.on \in Commissions
    BY DEF DealOps, Deal!Idle, FundOp, ConfirmOp, CommissionOp, RenewalOp
  <2> QED
    BY <1>9, <1>13, <1>16, <1>17, <1>18, <2>1, DealKeeps
<1>19. CommissionStands(next)
  BY <1>3, <1>14 DEF CommissionStands, Deal!MustAsk, Divided
<1>20. DealStands(next) /\ next \in DealOps
  BY <1>14, <1>19 DEF DealStands, DealOps
<1>21. DealWork'
  <2>1. deals' \in [Workers -> DealOps]
    BY <1>13, <1>20 DEF DealInv, DealWork
  <2>2. ASSUME NEW v \in Workers PROVE DealStands(deals[v])'
    <3>1. PICK o : o = deals'[v]
      OBVIOUS
    <3>2. o \in DealOps /\ DealStands(o)
      BY <1>15, <1>20, <3>1, DealOpOf
    <3>3. DealStands(o)'
      BY <1>18, <3>2
    <3> QED
      BY <3>1, <3>3
  <2> QED
    BY <2>1, <2>2 DEF DealWork
<1>22. \A v \in Workers : deals'[v] = deals[v] \/ deals'[v].kind = "commission"
  BY <1>14, <1>15
<1> QED
  BY <1>5, <1>9, <1>10, <1>11, <1>13, <1>21, <1>22, DealWritesRow

(* A request whose ground has moved.                                       *)
LEMMA DealLate ==
  ASSUME NEW o \in CommissionOp, commission'[o.on] # None,
         commission'[o.on].expected = commission[o.on].expected, DealStands(o)
  PROVE  LET late == [o EXCEPT !.late = TRUE] IN
         late \in DealOps /\ late.kind = "commission" /\ DealStands(late)'
<1>1. PICK late : late = [o EXCEPT !.late = TRUE]
  OBVIOUS
<1>2. late \in CommissionOp /\ late.kind = "commission"
      /\ late.on = o.on /\ late.expected = o.expected
      /\ late.received = o.received /\ late.status = o.status /\ late.note = o.note
      /\ late.table = o.table /\ late.was = o.was /\ late.late /\ late.at = o.at
  BY <1>1 DEF CommissionOp
<1>3. CommissionStands(o)
  BY DEF DealStands, CommissionOp
<1>4. CommissionStands(late)'
  BY <1>2, <1>3 DEF CommissionStands, Divided
<1>5. DealStands(late)' /\ late \in DealOps
  BY <1>2, <1>4 DEF DealStands, DealOps
<1> QED
  BY <1>1, <1>2, <1>5

LEMMA DealWriteCommission ==
  ASSUME Deal!FundingAssumption, DealInv, NEW w \in Workers, Deal!WriteCommission(w) PROVE DealInv'
<1>1. PICK op : op = deals[w]
  OBVIOUS
<1>2. PICK c : c = op.on
  OBVIOUS
<1>3. op \in CommissionOp /\ CommissionStands(op) /\ op.at = "write"
  BY <1>1, DealOpOf DEF Deal!WriteCommission, DealStands
<1>4. c \in Commissions /\ commission[c] # None /\ commission[c] \in Deal!CommissionRow
  BY <1>2, <1>3 DEF CommissionOp, CommissionStands, DealInv, Deal!TypeOK
<1>5. PICK row : row = [commission[c] EXCEPT
        !.expected = op.expected, !.received = op.received, !.status = op.status,
        !.variance = Deal!Difference(op.expected, op.received), !.note = commission[c].note \/ op.note]
  OBVIOUS
<1>6. commission' = [commission EXCEPT ![c] = row]
  <2>1. commission' = [commission EXCEPT
       ![c].expected = op.expected, ![c].received = op.received, ![c].status = op.status,
       ![c].variance = Deal!Difference(op.expected, op.received), ![c].note = @ \/ op.note]
    BY <1>1, <1>2 DEF Deal!WriteCommission
  <2> QED
    BY <1>4, <1>5, <2>1 DEF DealInv, Deal!TypeOK
<1>7. Deal!Difference(op.expected, op.received) \in Int \cup {None}
  <2>0. op.received \in Amounts \cup {None} /\ op.expected \in Amounts
    BY <1>3 DEF CommissionOp
  <2>4. Amounts \subseteq Int
    <3>1. Amounts \subseteq Nat
      BY DEF Deal!FundingAssumption
    <3> QED
      BY <3>1
  <2>1. op.received # None => op.received \in Int
    BY <2>0, <2>4
  <2>2. op.expected \in Int
    BY <2>0, <2>4
  <2>3. op.received # None => op.received - op.expected \in Int
    BY <2>1, <2>2
  <2> QED
    BY <2>3 DEF Deal!Difference
<1>8. /\ row \in Deal!CommissionRow /\ row.expected = commission[c].expected
      /\ row.received = op.received /\ row.status = op.status
      /\ row.variance = Deal!Difference(op.expected, op.received)
      /\ row.note = (commission[c].note \/ op.note)
      /\ row.splits = commission[c].splits /\ row.base = commission[c].base
      /\ row.table = commission[c].table /\ row.expected = op.expected
  <2>1. op.expected = commission[c].expected
    BY <1>2, <1>3 DEF CommissionStands
  <2> QED
    BY <1>3, <1>4, <1>5, <1>7, <2>1 DEF Deal!CommissionRow, CommissionOp
<1>9. RowAddsUp(row)
  <2>1. RowAddsUp(commission[c])
    BY <1>4, MoneyByRow DEF DealInv
  <2> QED
    BY <1>3, <1>8, <2>1 DEF RowAddsUp, CommissionStands
<1>10. /\ UNCHANGED <<funding, won, renewal, complete, crossing, reopened>>
       /\ deals' = [v \in Workers |->
            IF v = w THEN Deal!Idle
            ELSE IF deals[v] # Deal!Idle /\ deals[v].on = c /\ deals[v].kind = "commission"
                   THEN [deals[v] EXCEPT !.late = TRUE] ELSE deals[v]]
  BY <1>1, <1>2 DEF Deal!WriteCommission
<1>11. \A x \in Commissions : commission'[x] = IF x = c THEN row ELSE commission[x]
  BY <1>6 DEF DealInv, Deal!TypeOK
<1>12. row # None
  BY <1>8 DEF Deal!FundingAssumption
<1>13. ASSUME NEW v \in Workers
       PROVE  /\ deals'[v] \in DealOps /\ DealStands(deals[v])'
              /\ deals'[v] = deals[v] \/ deals'[v].kind \in {"idle", "commission"}
  <2>1. CASE v = w
    <3>1. deals'[v] = Deal!Idle
      BY <1>10, <2>1
    <3>2. Deal!Idle \in DealOps /\ Deal!Idle.kind = "idle" /\ DealStands(Deal!Idle)'
      BY DEF DealOps, Deal!Idle, DealStands
    <3> QED
      BY <3>1, <3>2
  <2>2. CASE v # w /\ deals[v] # Deal!Idle /\ deals[v].on = c /\ deals[v].kind = "commission"
    <3>1. PICK o : o = deals[v]
      OBVIOUS
    <3>2. o \in CommissionOp /\ DealStands(o) /\ o.on = c
      BY <2>2, <3>1, DealOpOf
    <3>3. PICK late : late = [o EXCEPT !.late = TRUE]
      OBVIOUS
    <3>4. late \in DealOps /\ late.kind = "commission" /\ DealStands(late)'
      BY <1>4, <1>8, <1>11, <1>12, <3>2, <3>3, DealLate
    <3>5. deals'[v] = late
      BY <1>10, <2>2, <3>1, <3>3
    <3> QED
      BY <3>4, <3>5
  <2>3. CASE v # w /\ ~(deals[v] # Deal!Idle /\ deals[v].on = c /\ deals[v].kind = "commission")
    <3>1. PICK o : o = deals[v]
      OBVIOUS
    <3>2. deals'[v] = o
      BY <1>10, <2>3, <3>1
    <3>3. o \in DealOps /\ DealStands(o) /\ (o.kind = "commission" => o \in CommissionOp)
      BY <3>1, DealOpOf
    <3>4. o.kind = "commission" => o.on \in Commissions /\ o.on # c
      BY <2>3, <3>1, <3>3 DEF CommissionOp, Deal!Idle
    <3>5. DealStands(o)'
      BY <1>10, <1>11, <3>3, <3>4, DealKeeps
    <3> QED
      BY <3>1, <3>2, <3>3, <3>5
  <2> QED
    BY <2>1, <2>2, <2>3
<1>14. DealWork'
  <2>1. deals' \in [Workers -> DealOps]
    BY <1>10, <1>13
  <2> QED
    BY <1>13, <2>1 DEF DealWork
<1> QED
  BY <1>4, <1>6, <1>8, <1>9, <1>10, <1>13, <1>14, DealWritesRow

LEMMA DealCompliance ==
  ASSUME Deal!FundingAssumption, DealInv, Deal!Compliance PROVE DealInv'
<1>1. /\ UNCHANGED <<funding, won, commission, renewal, crossing, reopened>>
      /\ complete' = ~complete
      /\ deals' = [w \in Workers |-> IF deals[w].kind = "commission"
                                      THEN [deals[w] EXCEPT !.late = TRUE] ELSE deals[w]]
  BY DEF Deal!Compliance
<1>2. ASSUME NEW v \in Workers
      PROVE  /\ deals'[v] \in DealOps /\ DealStands(deals[v])'
             /\ deals'[v] = deals[v] \/ deals'[v].kind = "commission"
  <2>1. PICK o : o = deals[v]
    OBVIOUS
  <2>2. o \in DealOps /\ DealStands(o) /\ (o.kind = "commission" => o \in CommissionOp)
    BY <2>1, DealOpOf
  <2>3. CASE o.kind = "commission"
    <3>1. PICK late : late = [o EXCEPT !.late = TRUE]
      OBVIOUS
    <3>2. commission[o.on] # None
      BY <2>2, <2>3 DEF DealStands, CommissionStands
    <3>3. late \in DealOps /\ late.kind = "commission" /\ DealStands(late)'
      BY <1>1, <2>2, <2>3, <3>1, <3>2, DealLate
    <3>4. deals'[v] = late
      BY <1>1, <2>1, <2>3, <3>1
    <3> QED
      BY <3>3, <3>4
  <2>4. CASE o.kind # "commission"
    <3>1. deals'[v] = o
      BY <1>1, <2>1, <2>4
    <3>2. DealStands(o)'
      BY <1>1, <2>2, <2>4 DEF DealStands
    <3> QED
      BY <2>1, <2>2, <3>1, <3>2
  <2> QED
    BY <2>3, <2>4
<1>3. DealWork'
  <2>1. deals' \in [Workers -> DealOps]
    BY <1>1, <1>2
  <2> QED
    BY <1>2, <2>1 DEF DealWork
<1>4. Deal!TypeOK' /\ Deal!MoneyAddsUp' /\ Deal!MilestonesFollow'
  BY <1>1 DEF DealInv, Deal!TypeOK, Deal!MoneyAddsUp, Deal!MilestonesFollow
<1>5. DealOnce'
  <2>1. \A v \in Workers : deals'[v].kind \in {"confirm", "fund"} => deals'[v] = deals[v]
    BY <1>2
  <2> QED
    BY <1>1, <2>1 DEF DealInv, DealOnce
<1> QED
  BY <1>3, <1>4, <1>5 DEF DealInv

LEMMA DealWriteRenewal ==
  ASSUME Deal!FundingAssumption, DealInv, NEW w \in Workers, Deal!WriteRenewal(w) PROVE DealInv'
<1>1. PICK op : op = deals[w]
  OBVIOUS
<1>2. PICK r : r = op.on
  OBVIOUS
<1>3. op \in RenewalOp /\ DealStands(op) /\ op.kind = "renewal"
  BY <1>1, DealOpOf DEF Deal!WriteRenewal
<1>4. PICK row : row = renewal[r]
  OBVIOUS
<1>5. r \in Renewals /\ row # None /\ row \in Deal!RenewalRow
  BY <1>2, <1>3, <1>4 DEF RenewalOp, DealStands, DealInv, Deal!TypeOK
<1> DEFINE resolving == op.status # None /\ op.status \notin Deal!Open
           moved == op.maturity # None /\ op.maturity # op.was
<1>6. PICK today \in Days : renewal' = [renewal EXCEPT ![r] =
       [status |-> IF op.status = None THEN row.status ELSE op.status,
        maturity |-> IF op.maturity = None THEN row.maturity ELSE op.maturity,
        milestones |-> IF resolving THEN Deal!Stopped(row)
                       ELSE IF moved THEN Deal!Redated(row, op.maturity, today) ELSE row.milestones]]
  BY <1>1, <1>2, <1>4 DEF Deal!WriteRenewal
<1>7. /\ crossing' = IF op.maturity # None /\ row.maturity # op.was THEN crossing \cup {r}
                       ELSE crossing
      /\ reopened' = IF op.status \in Deal!Open /\ row.status \notin Deal!Open THEN reopened \cup {r}
                     ELSE reopened
      /\ Deal!Done(w) /\ UNCHANGED <<funding, won, commission, complete, dealSteps>>
  BY <1>1, <1>2, <1>4 DEF Deal!WriteRenewal
<1>8. PICK stones : stones = IF resolving THEN Deal!Stopped(row)
                             ELSE IF moved THEN Deal!Redated(row, op.maturity, today) ELSE row.milestones
  OBVIOUS
<1>9. PICK next : next = [status |-> IF op.status = None THEN row.status ELSE op.status,
                          maturity |-> IF op.maturity = None THEN row.maturity ELSE op.maturity,
                          milestones |-> stones]
  OBVIOUS
<1>10. renewal' = [renewal EXCEPT ![r] = next]
  BY <1>6, <1>8, <1>9
<1> DEFINE Stone == [due : Int, status : {"pending", "skipped", "cancelled"}]
<1>11. /\ row.milestones \in [Deal!Milestones -> Stone] /\ row.maturity \in Days
       /\ row.status \in Deal!Open \cup {"renewed_with_us"}
  BY <1>5 DEF Deal!RenewalRow
<1>12. op.maturity # None => op.maturity \in Days /\ op.maturity \in Int
  BY <1>3 DEF RenewalOp, Deal!FundingAssumption
<1>13. \A m \in Deal!Milestones : Deal!Before[m] \in Int
  BY DEF Deal!Milestones, Deal!Before
<1>14. stones \in [Deal!Milestones -> Stone]
  <2>1. \A m \in Deal!Milestones : row.milestones[m] \in Stone
    BY <1>11
  <2>2. CASE resolving
    <3>1. Deal!Stopped(row) \in [Deal!Milestones -> Stone]
      BY <2>1 DEF Deal!Stopped
    <3> QED
      BY <1>8, <2>2, <3>1
  <2>3. CASE ~resolving /\ moved
    <3>1. Deal!MilestonesFor(op.maturity, today) \in [Deal!Milestones -> Stone]
      BY <1>12, <1>13, <2>3 DEF Deal!MilestonesFor
    <3>2. Deal!Redated(row, op.maturity, today) \in [Deal!Milestones -> Stone]
      BY <2>1, <3>1 DEF Deal!Redated
    <3> QED
      BY <1>8, <2>3, <3>2
  <2>4. CASE ~resolving /\ ~moved
    BY <1>8, <1>11, <2>4
  <2> QED
    BY <2>2, <2>3, <2>4
<1>15. next \in Deal!RenewalRow /\ next # None
  <2>1. next \in Deal!RenewalRow
    BY <1>3, <1>9, <1>11, <1>12, <1>14 DEF Deal!RenewalRow, RenewalOp
  <2> QED
    BY <2>1 DEF Deal!FundingAssumption
<1>16. \A x \in Renewals : renewal'[x] = IF x = r THEN next ELSE renewal[x]
  BY <1>10 DEF DealInv, Deal!TypeOK
<1>17. Deal!TypeOK'
  <2>1. renewal' \in [Renewals -> {None} \cup Deal!RenewalRow]
    BY <1>10, <1>15 DEF DealInv, Deal!TypeOK
  <2> QED
    BY <1>7, <2>1 DEF DealInv, Deal!TypeOK
<1>18. ASSUME NEW o \in DealOps, DealStands(o) PROVE DealStands(o)'
  <2>1. o.kind = "renewal" => o.on \in Renewals
    BY DEF DealOps, Deal!Idle, FundOp, ConfirmOp, CommissionOp, RenewalOp
  <2> QED
    BY <1>7, <1>15, <1>16, <1>18, <2>1, DealKeeps
<1>19. DealWork' /\ \A v \in Workers : deals'[v] = IF v = w THEN Deal!Idle ELSE deals[v]
  BY <1>7, <1>18, DealDone, DealOpOf
<1>20. DealOnce'
  <2>1. "funding" \notin crossing' => "funding" \notin crossing
    BY <1>7
  <2>2. \A x \in Renewals : renewal'[x] # None => renewal[x] # None
    BY <1>4, <1>5, <1>16
  <2>3. \A v \in Workers : deals'[v].kind \in {"confirm", "fund"} => deals'[v] = deals[v]
    BY <1>19 DEF Deal!Idle
  <2> QED
    BY <1>7, <2>1, <2>2, <2>3 DEF DealInv, DealOnce
<1>21. Deal!MoneyAddsUp'
  BY <1>7 DEF DealInv, Deal!MoneyAddsUp
<1>22. Deal!MilestonesFollow'
  <2> SUFFICES ASSUME NEW x \in Renewals, renewal'[x] # None, NEW m \in Deal!Milestones
               PROVE  /\ renewal'[x].milestones[m].status = "pending" /\ x \notin crossing' =>
                           renewal'[x].milestones[m].due = renewal'[x].maturity - Deal!Before[m]
                      /\ renewal'[x].status \notin Deal!Open => renewal'[x].milestones[m].status # "pending"
                      /\ renewal'[x].status \in Deal!Open /\ x \notin reopened' =>
                           renewal'[x].milestones[m].status # "cancelled"
    BY DEF Deal!MilestonesFollow
  <2>1. CASE x # r
    <3>1. (x \notin crossing' => x \notin crossing) /\ (x \notin reopened' => x \notin reopened)
      BY <1>7
    <3> QED
      BY <1>16, <2>1, <3>1 DEF DealInv, Deal!MilestonesFollow
  <2>2. CASE x = r
    <3>1. renewal'[x] = next
      BY <1>16, <2>2
    <3>2. /\ row.milestones[m].status = "pending" /\ r \notin crossing =>
               row.milestones[m].due = row.maturity - Deal!Before[m]
          /\ row.status \notin Deal!Open => row.milestones[m].status # "pending"
          /\ row.status \in Deal!Open /\ r \notin reopened => row.milestones[m].status # "cancelled"
      BY <1>4, <1>5 DEF DealInv, Deal!MilestonesFollow
    <3>3. (r \notin crossing' => r \notin crossing /\ (op.maturity = None \/ row.maturity = op.was))
          /\ (r \notin reopened' => r \notin reopened /\ ~(op.status \in Deal!Open /\ row.status \notin Deal!Open))
      BY <1>7
    <3>4. /\ next.status = IF op.status = None THEN row.status ELSE op.status
          /\ next.maturity = IF op.maturity = None THEN row.maturity ELSE op.maturity
          /\ next.milestones = stones
      BY <1>9
    <3>5. row.milestones[m] \in Stone
      BY <1>11
    <3>6. CASE resolving
      <4>1. stones[m].status # "pending" /\ next.status \notin Deal!Open
        BY <1>8, <3>4, <3>5, <3>6 DEF Deal!Stopped
      <4> QED
        BY <3>1, <3>4, <4>1
    <3>7. CASE ~resolving /\ moved
      <4>1. stones[m] = IF row.milestones[m].status = "pending"
                          THEN Deal!MilestonesFor(op.maturity, today)[m] ELSE row.milestones[m]
        BY <1>8, <3>7 DEF Deal!Redated
      <4>2. /\ Deal!MilestonesFor(op.maturity, today)[m].due = op.maturity - Deal!Before[m]
            /\ Deal!MilestonesFor(op.maturity, today)[m].status \in {"skipped", "pending"}
        BY DEF Deal!MilestonesFor
      <4>3. next.maturity = op.maturity
        BY <3>4, <3>7
      <4>4. /\ stones[m].status = "pending" => stones[m].due = next.maturity - Deal!Before[m]
        BY <4>1, <4>2, <4>3
      <4>5. next.status \notin Deal!Open => stones[m].status # "pending"
        BY <3>2, <3>4, <3>7, <4>1
      <4>6. next.status \in Deal!Open /\ r \notin reopened' => stones[m].status # "cancelled"
        BY <3>2, <3>3, <3>4, <3>7, <4>1, <4>2
      <4> QED
        BY <2>2, <3>1, <3>4, <4>4, <4>5, <4>6
    <3>8. CASE ~resolving /\ ~moved
      <4>1. stones = row.milestones
        BY <1>8, <3>8
      <4>2. r \notin crossing' => next.maturity = row.maturity
        BY <3>3, <3>4, <3>8
      <4> QED
        BY <2>2, <3>1, <3>2, <3>3, <3>4, <3>8, <4>1, <4>2
    <3> QED
      BY <3>6, <3>7, <3>8
  <2> QED
    BY <2>1, <2>2
<1> QED
  BY <1>17, <1>19, <1>20, <1>21, <1>22 DEF DealInv

LEMMA DealStep ==
  ASSUME Deal!FundingAssumption, DealInv, [Deal!Next]_(Deal!vars) PROVE DealInv'
<1>1. CASE UNCHANGED Deal!vars
  BY <1>1 DEF Deal!vars, DealInv, Deal!TypeOK, DealWork, DealStands, CommissionStands, DealOnce, Deal!MoneyAddsUp,
    Deal!MilestonesFollow
<1> QED
  BY <1>1, DealAsks, DealExit, DealWriteFunding, DealConfirm, DealWriteRenewal, DealCheck,
    DealSplits, DealWriteCommission, DealCompliance DEF Deal!Next

LEMMA DealCountsOne ==
  ASSUME DealInv PROVE Deal!ConfirmedOnce
<1> SUFFICES ASSUME "funding" \notin crossing PROVE Deal!ConfirmedOnce
  BY DEF Deal!ConfirmedOnce
<1>1. ASSUME NEW S, \A x, y \in S : x = y PROVE Cardinality(S) <= 1
  <2>1. CASE S = {}
    BY <2>1, FS_EmptySet
  <2>2. CASE S # {}
    <3>1. PICK x : x \in S
      BY <2>2
    <3>2. S = {x}
      BY <1>1, <3>1
    <3>3. Cardinality({x}) = 1
      BY FS_Singleton
    <3> QED
      BY <3>2, <3>3
  <2> QED
    BY <2>1, <2>2
<1>2. Cardinality({c \in Commissions : commission[c] # None}) <= 1
  BY <1>1 DEF DealInv, DealOnce
<1>3. Cardinality({r \in Renewals : renewal[r] # None}) <= 1
  BY <1>1 DEF DealInv, DealOnce
<1> QED
  BY <1>2, <1>3, DealCounts DEF Deal!ConfirmedOnce, DealInv, DealOnce

(* A commission becomes paid by the hand of a request that has looked.     *)
LEMMA DealPays ==
  ASSUME Deal!FundingAssumption, DealInv, [Deal!Next]_(Deal!vars) PROVE Deal!PaysWhenComplete
<1> SUFFICES ASSUME NEW c \in Commissions, commission[c] # None,
                    commission'[c].status \in Deal!Paid, commission[c].status \notin Deal!Paid, ~complete
             PROVE  \E w \in Workers : deals[w] # Deal!Idle /\ deals[w].kind = "commission" /\
                      deals[w].on = c /\ deals[w].late
  BY DEF Deal!PaysWhenComplete
<1>1. commission' # commission
  OBVIOUS
<1>2. commission[c] \in Deal!CommissionRow
  BY DEF DealInv, Deal!TypeOK
<1>3. ASSUME NEW w \in Workers, Deal!Confirm(w) PROVE FALSE
  <2>1. PICK d : d = CHOOSE x \in Commissions : commission[x] = None
    OBVIOUS
  <2>2. d \in Commissions /\ d # c
    BY <1>3, <2>1 DEF Deal!Confirm
  <2>3. commission'[c] = commission[c]
    BY <1>3, <2>1, <2>2 DEF Deal!Confirm, DealInv, Deal!TypeOK
  <2> QED
    BY <2>3
<1>4. ASSUME NEW w \in Workers, Deal!ReplaceSplits(w) PROVE FALSE
  <2>1. commission'[c].status = commission[c].status
    BY <1>2, <1>4 DEF Deal!ReplaceSplits, DealInv, Deal!TypeOK, Deal!CommissionRow
  <2> QED
    BY <2>1
<1>5. ASSUME NEW w \in Workers, Deal!WriteCommission(w)
      PROVE  deals[w] # Deal!Idle /\ deals[w].kind = "commission" /\ deals[w].on = c /\ deals[w].late
  <2>1. deals[w] \in CommissionOp /\ CommissionStands(deals[w]) /\ deals[w].at = "write"
    BY <1>5, DealOpOf DEF Deal!WriteCommission, DealStands
  <2>2. deals[w].on = c /\ commission'[c].status = deals[w].status
    BY <1>2, <1>5 DEF Deal!WriteCommission, DealInv, Deal!TypeOK, Deal!CommissionRow
  <2>3. deals[w].late
    BY <2>1, <2>2 DEF CommissionStands, Deal!MustAsk
  <2> QED
    BY <1>5, <2>2, <2>3 DEF Deal!WriteCommission, Deal!Idle
<1>6. ASSUME NEW w \in Workers, Deal!Ask(w) PROVE FALSE
  BY <1>1, <1>6 DEF Deal!Ask, Deal!AskFunding, Deal!AskConfirm, Deal!AskCommission, Deal!AskRenewal, Deal!Start
<1>7. ASSUME NEW w \in Workers, Deal!Exit(w) \/ Deal!WriteFunding(w) \/ Deal!WriteRenewal(w) \/ Deal!CheckBlockers(w)
      PROVE  FALSE
  BY <1>1, <1>7 DEF Deal!Exit, Deal!WriteFunding, Deal!WriteRenewal, Deal!CheckBlockers
<1>8. ~Deal!Compliance /\ ~(UNCHANGED Deal!vars)
  BY <1>1 DEF Deal!Compliance, Deal!vars
<1> QED
  BY <1>3, <1>4, <1>5, <1>6, <1>7, <1>8 DEF Deal!Next

-----------------------------------------------------------------------------
(* The documents.                                                          *)

(* Sets are counted alike in every module.                                 *)
LEMMA PapersCount ==
  ASSUME NEW S PROVE (Papers!IsFiniteSet(S) <=> IsFiniteSet(S)) /\ Papers!Cardinality(S) = Cardinality(S)
BY DEF Papers!IsFiniteSet, IsFiniteSet, Papers!Cardinality, Cardinality

(* A request under way, and what it is entitled to find when it goes on:   *)
(* a verdict of completion was backed when it was reached, except for the  *)
(* document that the request itself brings.                                *)
PaperTask ==
  [kind : {"link", "staff", "review", "cancel", "open"}, nth : Nat, item : Pieces \cup {Papers!NoItem},
   pc : {"check", "insert", "judge", "write", "commit", "item", "expire", "refresh", "count"},
   doc : Nat,
   status : {"open", "completed", "partial", "as it is", "pending", "accepted", "rejected"},
   number : 0 .. Cardinality(Required), marks : BOOLEAN, holds : BOOLEAN]

PaperBacked(i) == \E d \in DOMAIN documents : documents[d].item = i

PaperStands(t) ==
  /\ t.holds => t.pc = "commit"
  /\ t.pc = "write" \/ t.holds => t.status \in {"completed", "partial", "as it is"}
  /\ t.pc = "judge" \/ t.marks => t.item \in Pieces
  /\ t.pc = "item" => t.doc \in DOMAIN documents /\ documents[t.doc].item \in Pieces
  /\ t.pc = "expire" => lapsed
  /\ t.status = "completed" => \A i \in Required : PaperBacked(i) \/ i = t.item

PaperTables ==
  /\ request \in {"open", "partial", "completed", "expired", "cancelled"}
  /\ item \in [Pieces -> {"outstanding", "received", "accepted"}]
  /\ documents \in Seq([item : Pieces \cup {Papers!NoItem},
                        review : {"pending", "accepted", "rejected"}])
  /\ count \in 0 .. Cardinality(Required)
  /\ lapsed \in BOOLEAN /\ crossed \in BOOLEAN /\ asks \in Nat /\ ends \in Nat

PaperTasks ==
  /\ doing \subseteq PaperTask
  /\ \A t \in doing : PaperStands(t)
  /\ \A t, u \in doing : t.holds /\ u.holds => t = u

PaperItems == \A i \in Pieces : item[i] # "outstanding" => PaperBacked(i)

PaperInv == PaperTables /\ PaperTasks /\ PaperItems /\ Papers!CompletedIsBacked /\ Papers!CountIsPutRight

LEMMA PaperCounted ==
  ASSUME Papers!DocumentsAssumption, NEW it \in [Pieces -> {"outstanding", "received", "accepted"}]
  PROVE  Cardinality(Papers!Outstanding(it)) \in 0 .. Cardinality(Required)
<1>1. IsFiniteSet(Required)
  BY FS_Subset, PapersCount DEF Papers!DocumentsAssumption
<1>2. Papers!Outstanding(it) \subseteq Required
  BY DEF Papers!Outstanding
<1> QED
  BY <1>1, <1>2, FS_Subset, FS_CardinalityType

LEMMA PaperCountedNow ==
  ASSUME Papers!DocumentsAssumption, PaperTables PROVE Papers!Counted \in 0 .. Cardinality(Required)
<1>1. Cardinality(Required) \in Nat
  BY FS_Subset, FS_CardinalityType, PapersCount DEF Papers!DocumentsAssumption
<1> QED
  BY <1>1, PaperCounted, PapersCount DEF Papers!Counted, PaperTables

LEMMA PaperAtInit ==
  ASSUME Papers!DocumentsAssumption, Papers!Init PROVE PaperInv
<1>1. PaperTables
  <2>1. item \in [Pieces -> {"outstanding", "received", "accepted"}]
    BY DEF Papers!Init
  <2>2. count = Cardinality(Papers!Outstanding(item))
    BY PapersCount DEF Papers!Init, Papers!Counted
  <2>3. count \in 0 .. Cardinality(Required)
    BY <2>1, <2>2, PaperCounted
  <2>4. documents = <<>> /\ documents \in Seq([item : Pieces \cup {Papers!NoItem},
                                              review : {"pending", "accepted", "rejected"}])
    BY DEF Papers!Init
  <2> QED
    BY <2>1, <2>3, <2>4 DEF Papers!Init, PaperTables
<1> QED
  BY <1>1 DEF Papers!Init, PaperInv, PaperTasks, PaperItems, Papers!CompletedIsBacked, Papers!CountIsPutRight, Papers!Owing

(* What a request is entitled to find stays: documents are added, and a    *)
(* link that has lapsed stays so.                                          *)
Grows ==
  /\ DOMAIN documents \subseteq DOMAIN documents'
  /\ \A d \in DOMAIN documents : documents'[d].item = documents[d].item
  /\ lapsed => lapsed'

LEMMA PaperKeeps ==
  ASSUME Grows, NEW t PROVE PaperStands(t) => PaperStands(t)'
  BY DEF Grows, PaperStands, PaperBacked

LEMMA PaperBackedStays ==
  ASSUME Grows, NEW i PROVE PaperBacked(i) => PaperBacked(i)'
  BY DEF Grows, PaperBacked

(* One request goes on, or is over.                                        *)
LEMMA PaperTasksStep ==
  ASSUME PaperInv, Grows, NEW t \in doing, NEW u, doing' = (doing \ {t}) \cup {u},
         u \in PaperTask, PaperStands(u)', u.holds => \A v \in doing \ {t} : ~v.holds
  PROVE  PaperTasks'
<1>1. \A w \in doing' : w = u \/ w \in doing \ {t}
  OBVIOUS
<1>2. \A w \in doing' : PaperStands(w)'
  BY <1>1, PaperKeeps DEF PaperInv, PaperTasks
<1>3. doing' \subseteq PaperTask
  BY <1>1 DEF PaperInv, PaperTasks
<1>4. \A v, w \in doing' : v.holds /\ w.holds => v = w
  BY <1>1 DEF PaperInv, PaperTasks
<1> QED
  BY <1>2, <1>3, <1>4 DEF PaperTasks

LEMMA PaperTasksOver ==
  ASSUME PaperInv, Grows, NEW t \in doing, doing' = doing \ {t}
  PROVE  PaperTasks'
<1>1. \A w \in doing' : PaperStands(w)'
  BY PaperKeeps DEF PaperInv, PaperTasks
<1> QED
  BY <1>1 DEF PaperInv, PaperTasks

(* A step that changes nothing but the requests under way.                 *)
Quiet == UNCHANGED <<request, lapsed, item, documents, count, crossed, asks, ends>>

Owed(t) == t.pc \notin {"check", "insert", "expire"}

LEMMA PaperQuiet ==
  ASSUME PaperInv, Quiet, PaperTasks', Papers!Owing(doing) # {} => Papers!Owing(doing') # {}
  PROVE  PaperInv'
<1>1. PaperTables' /\ PaperItems' /\ Papers!CompletedIsBacked'
  BY DEF Quiet, PaperInv, PaperTables, PaperItems, Papers!CompletedIsBacked, PaperBacked
<1>2. Papers!CountIsPutRight'
  <2>1. Papers!Counted' = Papers!Counted
    BY DEF Quiet, Papers!Counted, Papers!Outstanding
  <2> QED
    BY <2>1 DEF Quiet, PaperInv, Papers!CountIsPutRight
<1> QED
  BY <1>1, <1>2 DEF PaperInv

LEMMA PaperMoves ==
  ASSUME PaperInv, Quiet, NEW t \in doing, NEW u, Papers!Becomes(t, u),
         u \in PaperTask, PaperStands(u), u.holds => \A v \in doing \ {t} : ~v.holds,
         Owed(t) => Owed(u)
  PROVE  PaperInv'
<1>1. doing' = (doing \ {t}) \cup {u}
  BY DEF Papers!Becomes
<1>2. Grows
  BY DEF Quiet, Grows
<1>3. PaperStands(u)'
  BY <1>2, PaperKeeps
<1>4. PaperTasks'
  BY <1>1, <1>2, <1>3, PaperTasksStep
<1>5. Papers!Owing(doing) # {} => Papers!Owing(doing') # {}
  BY <1>1 DEF Papers!Owing, Owed
<1> QED
  BY <1>4, <1>5, PaperQuiet

LEMMA PaperOver ==
  ASSUME PaperInv, Quiet, NEW t \in doing, Papers!Over(t), ~Owed(t)
  PROVE  PaperInv'
<1>1. Grows
  BY DEF Quiet, Grows
<1>2. PaperTasks'
  BY <1>1, PaperTasksOver DEF Papers!Over
<1>3. Papers!Owing(doing) # {} => Papers!Owing(doing') # {}
  BY DEF Papers!Owing, Owed, Papers!Over
<1> QED
  BY <1>2, <1>3, PaperQuiet

LEMMA PaperGoto ==
  ASSUME PaperInv, Quiet, NEW t \in doing, NEW to \in {"insert", "commit", "expire"},
         Papers!Goto(t, to), ~t.holds, ~Owed(t), to = "expire" => lapsed
  PROVE  PaperInv'
<1> DEFINE u == [t EXCEPT !.pc = to]
<1>1. t \in PaperTask /\ PaperStands(t)
  BY DEF PaperInv, PaperTasks
<1>2. u \in PaperTask /\ PaperStands(u) /\ ~u.holds
  BY <1>1 DEF PaperStands, PaperTask
<1> QED
  BY <1>2, PaperMoves DEF Papers!Goto

LEMMA PaperTaskOf ==
  ASSUME PaperInv, NEW t \in doing PROVE t \in PaperTask /\ PaperStands(t)
  BY DEF PaperInv, PaperTasks

LEMMA PaperBegin ==
  ASSUME Papers!DocumentsAssumption, PaperInv, NEW i \in Pieces \cup {Papers!NoItem},
         NEW kind \in {"link", "staff", "review", "cancel", "open"}, Papers!Begin(kind, i)
  PROVE  PaperInv'
<1> DEFINE u == Papers!Task(kind, i)
<1>1. Cardinality(Required) \in Nat
  BY FS_Subset, FS_CardinalityType, PapersCount DEF Papers!DocumentsAssumption
<1>2. u \in PaperTask /\ PaperStands(u) /\ ~u.holds
  BY <1>1 DEF Papers!Task, PaperTask, PaperStands, PaperInv, PaperTables
<1>3. PaperTables' /\ PaperItems' /\ Papers!CompletedIsBacked'
  BY DEF Papers!Begin, PaperInv, PaperTables, PaperItems, Papers!CompletedIsBacked, PaperBacked
<1>4. Papers!CountIsPutRight'
  <2>1. Papers!Owing(doing) # {} => Papers!Owing(doing') # {}
    BY DEF Papers!Owing, Papers!Begin
  <2>2. Papers!Counted' = Papers!Counted
    BY DEF Papers!Begin, Papers!Counted, Papers!Outstanding
  <2> QED
    BY <2>1, <2>2 DEF Papers!Begin, PaperInv, Papers!CountIsPutRight
<1>5. PaperTasks'
  <2>1. Grows
    BY DEF Papers!Begin, Grows
  <2>2. \A w \in doing' : PaperStands(w)'
    BY <1>2, <2>1, PaperKeeps DEF PaperInv, PaperTasks, Papers!Begin
  <2> QED
    BY <1>2, <2>2 DEF Papers!Begin, PaperInv, PaperTasks
<1> QED
  BY <1>3, <1>4, <1>5 DEF PaperInv

LEMMA PaperChecks ==
  ASSUME PaperInv, NEW t \in doing, Papers!CheckLink(t) \/ Papers!CheckStaff(t) \/ Papers!Open(t) PROVE PaperInv'
<1>1. t \in PaperTask /\ PaperStands(t) /\ t.pc = "check" /\ ~t.holds /\ Quiet
  BY PaperTaskOf DEF Papers!CheckLink, Papers!CheckStaff, Papers!Open, PaperStands, Quiet
<1>2. ~Owed(t)
  BY <1>1 DEF Owed
<1>3. Papers!Over(t) \/ Papers!Goto(t, "insert") \/ (Papers!Goto(t, "expire") /\ lapsed)
  BY DEF Papers!CheckLink, Papers!CheckStaff, Papers!Open
<1> QED
  BY <1>1, <1>2, <1>3, PaperOver, PaperGoto

LEMMA PaperInsert ==
  ASSUME PaperInv, NEW t \in doing, Papers!Insert(t) PROVE PaperInv'
<1>1. t \in PaperTask /\ PaperStands(t) /\ t.pc = "insert" /\ ~t.holds /\ Quiet
  BY PaperTaskOf DEF Papers!Insert, PaperStands, Quiet
<1>2. ~Owed(t)
  BY <1>1 DEF Owed
<1>3. CASE t.item = Papers!NoItem
  BY <1>1, <1>2, <1>3, PaperGoto DEF Papers!Insert
<1>4. CASE t.item # Papers!NoItem
  <2> DEFINE u == [t EXCEPT !.marks = item[t.item] = "outstanding", !.pc = "judge"]
  <2>1. t.item \in Pieces
    BY <1>1, <1>4 DEF PaperTask
  <2>2. u \in PaperTask
    BY <1>1 DEF PaperTask
  <2>3. PaperStands(u) /\ ~u.holds
    BY <1>1, <2>1 DEF PaperTask, PaperStands
  <2>4. Papers!Becomes(t, u)
    BY <1>4 DEF Papers!Insert
  <2> QED
    BY <1>1, <1>2, <2>2, <2>3, <2>4, PaperMoves
<1> QED
  BY <1>3, <1>4

(* A verdict of completion is backed, but for what the request brings.     *)
LEMMA PaperJudge ==
  ASSUME Papers!DocumentsAssumption, PaperInv, NEW t \in doing, Papers!Judge(t) PROVE PaperInv'
<1> DEFINE u == [t EXCEPT !.status = Papers!Verdict(Papers!Seen(t)), !.pc = "write"]
<1>1. t \in PaperTask /\ PaperStands(t) /\ t.pc = "judge" /\ ~t.holds /\ Quiet
  BY PaperTaskOf DEF Papers!Judge, PaperStands, Quiet
<1>2. Papers!Verdict(Papers!Seen(t)) \in {"completed", "partial", "as it is"}
  BY DEF Papers!Verdict
<1>3. u \in PaperTask
  BY <1>1, <1>2 DEF PaperTask
<1>4. ASSUME Papers!Verdict(Papers!Seen(t)) = "completed", NEW i \in Required PROVE PaperBacked(i) \/ i = t.item
  <2>1. Papers!Seen(t)[i] # "outstanding"
    BY <1>4 DEF Papers!Verdict, Papers!Outstanding
  <2>2. i \in Pieces /\ item \in [Pieces -> {"outstanding", "received", "accepted"}]
    BY DEF Papers!DocumentsAssumption, PaperInv, PaperTables
  <2>3. i = t.item \/ item[i] # "outstanding"
    BY <2>1, <2>2 DEF Papers!Seen
  <2> QED
    BY <2>2, <2>3 DEF PaperInv, PaperItems
<1>5. PaperStands(u) /\ ~u.holds
  BY <1>1, <1>2, <1>4 DEF PaperTask, PaperStands
<1>6. Papers!Becomes(t, u)
  BY DEF Papers!Judge
<1>7. Owed(u)
  BY <1>1 DEF Owed, PaperTask
<1> QED
  BY <1>1, <1>3, <1>5, <1>6, <1>7, PaperMoves

LEMMA PaperLock ==
  ASSUME PaperInv, NEW t \in doing, Papers!LockRequest(t) PROVE PaperInv'
<1> DEFINE u == [t EXCEPT !.holds = TRUE, !.pc = "commit"]
<1>1. t \in PaperTask /\ PaperStands(t) /\ t.pc = "write" /\ Quiet
  BY PaperTaskOf DEF Papers!LockRequest, Quiet
<1>2. u \in PaperTask /\ PaperStands(u)
  BY <1>1 DEF PaperTask, PaperStands
<1>3. \A v \in doing : ~v.holds
  BY DEF Papers!LockRequest, Papers!RequestBusy
<1>4. Papers!Becomes(t, u)
  BY DEF Papers!LockRequest
<1>5. Owed(u)
  BY <1>1 DEF Owed, PaperTask
<1> QED
  BY <1>1, <1>2, <1>3, <1>4, <1>5, PaperMoves

LEMMA PaperReads ==
  ASSUME Papers!DocumentsAssumption, PaperInv, NEW t \in doing, Papers!ReadCount(t) PROVE PaperInv'
<1> DEFINE u == [t EXCEPT !.number = Papers!Counted, !.pc = "count"]
<1>1. t \in PaperTask /\ PaperStands(t) /\ t.pc = "refresh" /\ ~t.holds /\ Quiet
  BY PaperTaskOf DEF Papers!ReadCount, PaperStands, Quiet
<1>2. u \in PaperTask
  BY <1>1, PaperCountedNow DEF PaperTask, PaperInv
<1>3. PaperStands(u) /\ ~u.holds
  BY <1>1 DEF PaperTask, PaperStands
<1>4. Papers!Becomes(t, u)
  BY DEF Papers!ReadCount
<1>5. Owed(u)
  BY <1>1 DEF Owed, PaperTask
<1> QED
  BY <1>1, <1>2, <1>3, <1>4, <1>5, PaperMoves

(* What the commit says is complete has its last document with it.         *)
LEMMA PaperCommit ==
  ASSUME Papers!DocumentsAssumption, PaperInv, NEW t \in doing, Papers!CommitUpload(t) PROVE PaperInv'
<1> DEFINE u == [t EXCEPT !.marks = FALSE, !.holds = FALSE, !.pc = "refresh"]
           one == [item |-> t.item, review |-> "pending"]
<1>1. t \in PaperTask /\ PaperStands(t) /\ t.pc = "commit"
  BY PaperTaskOf DEF Papers!CommitUpload
<1>2. u \in PaperTask /\ one \in [item : Pieces \cup {Papers!NoItem}, review : {"pending", "accepted", "rejected"}]
  BY <1>1 DEF PaperTask
<1>3. documents' = Append(documents, one) /\ doing' = (doing \ {t}) \cup {u} /\ UNCHANGED <<lapsed, count, crossed, asks, ends>>
  BY DEF Papers!CommitUpload, Papers!Becomes
<1>4. Grows /\ PaperBacked(t.item)'
  BY <1>2, <1>3 DEF Grows, PaperBacked, PaperInv, PaperTables
<1>5. PaperStands(u)' /\ ~u.holds
  BY <1>1, <1>4, PaperKeeps DEF PaperTask, PaperStands
<1>6. PaperTasks'
  BY <1>2, <1>3, <1>4, <1>5, PaperTasksStep
<1>7. PaperTables'
  <2>1. item' \in [Pieces -> {"outstanding", "received", "accepted"}]
    BY DEF Papers!CommitUpload, Papers!Seen, PaperInv, PaperTables
  <2>2. request' \in {"open", "partial", "completed", "expired", "cancelled"}
    BY <1>1 DEF Papers!CommitUpload, PaperStands, PaperInv, PaperTables
  <2> QED
    BY <2>1, <2>2, <1>2, <1>3 DEF PaperInv, PaperTables
<1>8. PaperItems'
  <2> SUFFICES ASSUME NEW i \in Pieces, item'[i] # "outstanding" PROVE PaperBacked(i)'
    BY DEF PaperItems
  <2>1. i = t.item \/ item[i] # "outstanding"
    BY DEF Papers!CommitUpload, Papers!Seen, PaperInv, PaperTables
  <2> QED
    BY <2>1, <1>4, PaperBackedStays DEF PaperInv, PaperItems
<1>9. Papers!CompletedIsBacked'
  <2> SUFFICES ASSUME request' = "completed", NEW i \in Required PROVE PaperBacked(i)'
    BY DEF Papers!CompletedIsBacked, PaperBacked
  <2>1. request = "completed" \/ t.status = "completed"
    BY DEF Papers!CommitUpload
  <2>2. PaperBacked(i) \/ i = t.item
    BY <2>1, <1>1 DEF PaperInv, Papers!CompletedIsBacked, PaperStands, PaperBacked
  <2> QED
    BY <2>2, <1>4, PaperBackedStays
<1>10. Papers!CountIsPutRight'
  <2>1. Owed(u) /\ u \in doing'
    BY <1>1, <1>3 DEF Owed, PaperTask
  <2> QED
    BY <2>1 DEF Papers!CountIsPutRight, Papers!Owing, Owed
<1> QED
  BY <1>6, <1>7, <1>8, <1>9, <1>10 DEF PaperInv

LEMMA PaperReview ==
  ASSUME PaperInv, NEW t \in doing, NEW d \in DOMAIN documents,
         NEW v \in {"pending", "accepted", "rejected"}, Papers!ReviewDocument(t, d, v)
  PROVE  PaperInv'
<1> DEFINE Doc == [item : Pieces \cup {Papers!NoItem}, review : {"pending", "accepted", "rejected"}]
<1>1. t \in PaperTask /\ PaperStands(t) /\ t.pc = "check" /\ ~t.holds
  BY PaperTaskOf DEF Papers!ReviewDocument, PaperStands
<1>2. PICK to \in {"refresh", "item"} :
        /\ doing' = (doing \ {t}) \cup {[t EXCEPT !.doc = d, !.status = v, !.pc = to]}
        /\ to = "item" => documents[d].item # Papers!NoItem
  BY DEF Papers!ReviewDocument, Papers!Becomes
<1>3. /\ documents' = [documents EXCEPT ![d].review = v]
      /\ UNCHANGED <<request, lapsed, item, count, crossed, asks, ends>>
  BY DEF Papers!ReviewDocument
<1>4. documents \in Seq(Doc) /\ d \in Nat /\ \A e \in DOMAIN documents : documents[e] \in Doc
  <2>1. documents \in Seq(Doc)
    BY DEF PaperInv, PaperTables
  <2> HIDE DEF Doc
  <2>2. d \in 1 .. Len(documents) /\ Len(documents) \in Nat
    BY <2>1
  <2> QED
    BY <2>1, <2>2
<1>5. documents[d].item \in Pieces \cup {Papers!NoItem}
  BY <1>4
<1>6. documents' = [documents EXCEPT ![d] = [documents[d] EXCEPT !.review = v]]
  BY <1>3
<1>7. [documents[d] EXCEPT !.review = v] \in Doc
      /\ [documents[d] EXCEPT !.review = v].item = documents[d].item
  BY <1>4
<1>8. /\ documents' \in Seq(Doc)
      /\ DOMAIN documents' = DOMAIN documents
      /\ \A e \in DOMAIN documents : documents'[e].item = documents[e].item
  BY <1>4, <1>6, <1>7
<1>9. PICK u : u = [t EXCEPT !.doc = d, !.status = v, !.pc = to]
  OBVIOUS
<1>10. u \in PaperTask /\ u.pc = to
  BY <1>1, <1>4, <1>9 DEF PaperTask
<1>11. Grows
  BY <1>3, <1>8 DEF Grows
<1>12. PaperStands(u) /\ ~u.holds
  BY <1>1, <1>2, <1>5, <1>9 DEF PaperTask, PaperStands
<1>13. PaperStands(u)'
  BY <1>11, <1>12, PaperKeeps
<1>14. PaperTasks'
  BY <1>2, <1>9, <1>10, <1>11, <1>12, <1>13, PaperTasksStep
<1>15. PaperTables' /\ PaperItems' /\ Papers!CompletedIsBacked'
  BY <1>3, <1>8 DEF PaperInv, PaperTables, PaperItems, Papers!CompletedIsBacked, PaperBacked
<1>16. Papers!CountIsPutRight'
  BY <1>2, <1>9, <1>10 DEF Papers!CountIsPutRight, Papers!Owing
<1> QED
  BY <1>14, <1>15, <1>16 DEF PaperInv

LEMMA PaperReviewItem ==
  ASSUME PaperInv, NEW t \in doing, Papers!ReviewItem(t) PROVE PaperInv'
<1> DEFINE u == [t EXCEPT !.pc = "refresh"]
           at == documents[t.doc].item
<1>1. t \in PaperTask /\ PaperStands(t) /\ t.pc = "item" /\ ~t.holds
  BY PaperTaskOf DEF Papers!ReviewItem, PaperStands
<1>2. u \in PaperTask /\ PaperStands(u) /\ ~u.holds
  BY <1>1 DEF PaperTask, PaperStands
<1>3. doing' = (doing \ {t}) \cup {u} /\ UNCHANGED <<request, lapsed, documents, count, crossed, asks, ends>>
  BY DEF Papers!ReviewItem, Papers!Becomes, Papers!Goto
<1>4. PICK s \in {"outstanding", "received", "accepted"} : item' = [item EXCEPT ![at] = s]
  BY DEF Papers!ReviewItem
<1>5. at \in Pieces /\ PaperBacked(at)
  BY <1>1 DEF PaperStands, PaperBacked
<1>6. Grows
  BY <1>3 DEF Grows
<1>7. PaperTasks'
  BY <1>2, <1>3, <1>6, PaperTasksStep, PaperKeeps
<1>8. PaperTables' /\ Papers!CompletedIsBacked'
  BY <1>3, <1>4 DEF PaperInv, PaperTables, Papers!CompletedIsBacked
<1>9. PaperItems'
  <2> SUFFICES ASSUME NEW i \in Pieces, item'[i] # "outstanding" PROVE PaperBacked(i)'
    BY DEF PaperItems
  <2>1. i = at \/ item[i] # "outstanding"
    BY <1>4 DEF PaperInv, PaperTables
  <2> QED
    BY <2>1, <1>5, <1>6, PaperBackedStays DEF PaperInv, PaperItems
<1>10. Papers!CountIsPutRight'
  <2>1. Owed(u) /\ u \in doing'
    BY <1>1, <1>3 DEF Owed, PaperTask
  <2> QED
    BY <2>1 DEF Papers!CountIsPutRight, Papers!Owing, Owed
<1> QED
  BY <1>7, <1>8, <1>9, <1>10 DEF PaperInv

(* Cancelling and expiring.                                                *)
LEMMA PaperCancel ==
  ASSUME PaperInv, NEW t \in doing, Papers!Cancel(t) PROVE PaperInv'
<1> DEFINE u == [t EXCEPT !.pc = "refresh"]
<1>1. t \in PaperTask /\ PaperStands(t) /\ t.pc = "check" /\ ~t.holds
  BY PaperTaskOf DEF Papers!Cancel, PaperStands
<1>2. CASE request \in {"open", "partial"}
  <2>1. u \in PaperTask /\ PaperStands(u) /\ ~u.holds
    BY <1>1 DEF PaperTask, PaperStands
  <2>2. /\ doing' = (doing \ {t}) \cup {u} /\ request' = "cancelled"
        /\ UNCHANGED <<lapsed, item, documents, count, crossed, asks, ends>>
    BY <1>2 DEF Papers!Cancel, Papers!Becomes, Papers!Goto
  <2>3. Grows
    BY <2>2 DEF Grows
  <2>4. PaperTasks'
    BY <2>1, <2>2, <2>3, PaperTasksStep, PaperKeeps
  <2>5. PaperTables' /\ Papers!CompletedIsBacked' /\ PaperItems'
    BY <2>2 DEF PaperInv, PaperTables, Papers!CompletedIsBacked, PaperItems, PaperBacked
  <2>6. Papers!CountIsPutRight'
    <3>1. Owed(u) /\ u \in doing'
      BY <1>1, <2>2 DEF Owed, PaperTask
    <3> QED
      BY <3>1 DEF Papers!CountIsPutRight, Papers!Owing, Owed
  <2> QED
    BY <2>4, <2>5, <2>6 DEF PaperInv
<1>3. CASE request \notin {"open", "partial"}
  <2>1. Quiet /\ Papers!Over(t)
    BY <1>3 DEF Papers!Cancel, Quiet
  <2>2. ~Owed(t)
    BY <1>1 DEF Owed
  <2> QED
    BY <2>1, <2>2, PaperOver
<1> QED
  BY <1>2, <1>3

LEMMA PaperExpire ==
  ASSUME PaperInv, NEW t \in doing, Papers!Expire(t) PROVE PaperInv'
<1>1. t \in PaperTask /\ PaperStands(t) /\ t.pc = "expire" /\ lapsed
  BY PaperTaskOf DEF Papers!Expire, PaperStands
<1>2. ~Owed(t)
  BY <1>1 DEF Owed
<1>3. CASE request = "completed"
  BY <1>2, <1>3, PaperOver DEF Papers!Expire, Quiet
<1>4. CASE request # "completed"
  <2>1. /\ doing' = doing \ {t} /\ request' = "expired"
        /\ UNCHANGED <<lapsed, item, documents, count, crossed, asks, ends>>
    BY <1>4 DEF Papers!Expire, Papers!Over
  <2>2. Grows
    BY <2>1 DEF Grows
  <2>3. PaperTasks'
    BY <2>1, <2>2, PaperTasksOver
  <2>4. PaperTables' /\ Papers!CompletedIsBacked' /\ PaperItems'
    BY <2>1 DEF PaperInv, PaperTables, Papers!CompletedIsBacked, PaperItems, PaperBacked
  <2>5. Papers!CountIsPutRight'
    BY <1>1, <2>1 DEF Papers!CountIsPutRight
  <2> QED
    BY <2>3, <2>4, <2>5 DEF PaperInv
<1> QED
  BY <1>3, <1>4

(* The count that arrives is right, or overtaken, or another is to follow. *)
LEMMA PaperWrites ==
  ASSUME Papers!DocumentsAssumption, PaperInv, NEW t \in doing, Papers!WriteCount(t) PROVE PaperInv'
<1>1. t \in PaperTask /\ PaperStands(t)
  BY PaperTaskOf
<1>2. /\ doing' = doing \ {t} /\ count' = t.number
      /\ crossed' = (t.number # Papers!Counted /\ Papers!Owing(doing \ {t}) = {})
      /\ UNCHANGED <<request, lapsed, item, documents, asks, ends>>
  BY DEF Papers!WriteCount, Papers!Over
<1>3. Grows
  BY <1>2 DEF Grows
<1>4. PaperTasks'
  BY <1>2, <1>3, PaperTasksOver
<1>5. PaperTables' /\ Papers!CompletedIsBacked' /\ PaperItems'
  BY <1>1, <1>2 DEF PaperInv, PaperTables, Papers!CompletedIsBacked, PaperItems, PaperBacked, PaperTask
<1>6. Papers!CountIsPutRight'
  <2>1. Papers!Counted' = Papers!Counted
    BY <1>2 DEF Papers!Counted, Papers!Outstanding
  <2>2. Papers!Owing(doing') = Papers!Owing(doing \ {t})
    BY <1>2 DEF Papers!Owing
  <2> QED
    BY <1>2, <2>1, <2>2 DEF Papers!CountIsPutRight
<1> QED
  BY <1>4, <1>5, <1>6 DEF PaperInv

LEMMA PaperLapse ==
  ASSUME PaperInv, Papers!Lapse PROVE PaperInv'
<1>1. Grows
  BY DEF Papers!Lapse, Grows
<1>2. PaperTasks'
  BY <1>1, PaperKeeps DEF Papers!Lapse, PaperInv, PaperTasks
<1>3. PaperTables' /\ Papers!CompletedIsBacked' /\ PaperItems'
  BY DEF Papers!Lapse, PaperInv, PaperTables, Papers!CompletedIsBacked, PaperItems, PaperBacked
<1>4. Papers!CountIsPutRight'
  BY DEF Papers!Lapse, PaperInv, Papers!CountIsPutRight, Papers!Counted, Papers!Outstanding
<1> QED
  BY <1>2, <1>3, <1>4 DEF PaperInv

LEMMA PaperExit ==
  ASSUME PaperInv, Papers!Exit PROVE PaperInv'
<1>1. PaperTables' /\ Papers!CompletedIsBacked' /\ PaperItems' /\ PaperTasks' /\ ends' > 0
  BY DEF Papers!Exit, PaperInv, PaperTables, Papers!CompletedIsBacked, PaperItems, PaperBacked, PaperTasks
<1> QED
  BY <1>1 DEF PaperInv, Papers!CountIsPutRight

LEMMA PaperStep ==
  ASSUME Papers!DocumentsAssumption, PaperInv, [Papers!Next]_(Papers!vars) PROVE PaperInv'
<1>1. CASE UNCHANGED Papers!vars
  BY <1>1 DEF Papers!vars, PaperInv, PaperTables, PaperTasks, PaperStands, PaperItems, PaperBacked,
    Papers!CompletedIsBacked, Papers!CountIsPutRight, Papers!Counted, Papers!Outstanding
<1>2. ASSUME NEW t \in doing, Papers!Step(t) PROVE PaperInv'
  BY <1>2, PaperChecks, PaperInsert, PaperJudge, PaperLock, PaperCommit, PaperReview,
    PaperReviewItem, PaperCancel, PaperExpire, PaperReads, PaperWrites DEF Papers!Step
<1>3. CASE Papers!Lapse \/ Papers!Exit
  BY <1>3, PaperLapse, PaperExit
<1>4. ASSUME NEW i \in Pieces \cup {Papers!NoItem},
             NEW kind \in {"link", "staff", "review", "cancel", "open"}, Papers!Begin(kind, i)
      PROVE  PaperInv'
  BY <1>4, PaperBegin
<1> QED
  BY <1>1, <1>2, <1>3, <1>4 DEF Papers!Next

LEMMA PaperHonest ==
  ASSUME PaperInv PROVE Papers!TypeOK /\ Papers!CompletedIsBacked /\ Papers!CountIsPutRight
  BY PapersCount DEF PaperInv, PaperTables, PaperTasks, Papers!TypeOK

-----------------------------------------------------------------------------
(* The audit log.                                                          *)

(* The rows as the writers left them.  A writer has one row at most, the   *)
(* only open row is the last, and it is that of the writer that holds the  *)
(* lock; what a writer under the lock has read is still the last row.      *)
LogPlaces == {"change", "lock", "read", "insert", "commit", "done"}
LogRow == [by : Log!Writers, prev : Nat, state : {"open", "in", "gone"}]
LogHolds(w) == w \in Inside /\ pc[w] \in {"read", "insert", "commit"}

LogTypes ==
  /\ rows \in Seq(LogRow) /\ pc \in [Log!Writers -> LogPlaces] /\ prev \in [Log!Writers -> Nat]
  /\ made \subseteq Log!Writers

LogOneHolds == \A v, w \in Log!Writers : LogHolds(v) /\ LogHolds(w) => v = w

LogRowsOf ==
  /\ \A i \in DOMAIN rows : pc[rows[i].by] \in {"commit", "done"}
  /\ \A i, k \in DOMAIN rows : rows[i].by = rows[k].by => i = k
  /\ \A i \in DOMAIN rows : rows[i].state = "open" =>
       pc[rows[i].by] = "commit" /\ i = Len(rows) /\ rows[i].by \in Inside
  /\ \A w \in Outside : pc[w] \notin {"lock", "commit"}
  /\ \A w \in Log!Writers : pc[w] = "commit" =>
       \E i \in DOMAIN rows : rows[i].by = w /\ rows[i].state = "open"

LogBefore(i) == {k \in Log!In : k < i}

LogFollows ==
  /\ Log!In # {} => \E i \in Log!In : \A k \in Log!In : k <= i
  /\ \A w \in Inside : pc[w] = "insert" => prev[w] = Log!LastOf(Log!In)
  /\ \A i \in DOMAIN rows : rows[i].by \in Inside /\ rows[i].state # "gone" =>
       rows[i].prev = Log!LastOf(LogBefore(i))

LogMade ==
  /\ \A i \in Log!In : rows[i].by \in made
  /\ \A w \in Outside : pc[w] # "change" => w \in made

LogInv == LogTypes /\ LogOneHolds /\ LogRowsOf /\ LogFollows /\ LogMade

LEMMA LogAtInit ==
  ASSUME Log!AuditChainAssumption, Log!Init PROVE LogInv
<1>1. Log!In = {}
  BY DEF Log!Init, Log!In
<1> QED
  BY <1>1 DEF Log!Init, LogInv, LogTypes, LogOneHolds, LogRowsOf, LogFollows, LogMade, LogHolds,
    LogPlaces, Log!AuditChainAssumption, Log!First, Log!Writers

(* What the verification reads is a number of a row, or none.              *)
LEMMA LogLast ==
  ASSUME LogInv PROVE Log!LastOf(Log!In) \in Nat
<1>1. Log!In \subseteq Nat
  BY DEF Log!In, LogInv, LogTypes
<1>2. CASE Log!In = {}
  BY <1>2 DEF Log!LastOf, Log!First
<1>3. CASE Log!In # {}
  <2>1. \E i \in Log!In : \A k \in Log!In : k <= i
    BY <1>3 DEF LogInv, LogFollows
  <2>2. (CHOOSE i \in Log!In : \A k \in Log!In : k <= i) \in Log!In
    BY <2>1
  <2> QED
    BY <2>2, <1>1, <1>3 DEF Log!LastOf
<1> QED
  BY <1>2, <1>3

(* A step that leaves the rows alone.                                      *)
LEMMA LogSameRows ==
  ASSUME Log!AuditChainAssumption, LogInv, rows' = rows, made \subseteq made',
         LogTypes', LogOneHolds',
         NEW w \in Log!Writers, NEW to \in LogPlaces \ {"commit"},
         pc' = [pc EXCEPT ![w] = to], pc[w] \notin {"commit", "done"},
         w \in Outside => w \in made' /\ to # "lock",
         \A v \in Inside : pc'[v] = "insert" => prev'[v] = Log!LastOf(Log!In)
  PROVE  LogInv'
<1>1. Log!In' = Log!In /\ \A i : LogBefore(i)' = LogBefore(i)
  BY DEF Log!In, LogBefore
<1>2. \A v \in Log!Writers : pc'[v] = IF v = w THEN to ELSE pc[v]
  BY DEF LogInv, LogTypes
<1>3. LogRowsOf'
  <2>1. \A i \in DOMAIN rows : rows[i] \in LogRow
    BY DEF LogInv, LogTypes
  <2>2. \A i \in DOMAIN rows : rows[i].by \in Log!Writers
    BY <2>1 DEF LogRow
  <2>3. \A i \in DOMAIN rows : rows[i].by # w
    BY DEF LogInv, LogRowsOf
  <2> QED
    BY <1>2, <2>2, <2>3 DEF LogInv, LogRowsOf, Log!Writers
<1>4. LogFollows'
  BY <1>1 DEF LogInv, LogFollows, Log!LastOf
<1>5. LogMade'
  BY <1>1, <1>2 DEF LogInv, LogMade, Log!Writers, Log!In
<1> QED
  BY <1>3, <1>4, <1>5 DEF LogInv

LEMMA LogChange ==
  ASSUME Log!AuditChainAssumption, LogInv, NEW w \in Log!Writers, Log!Change(w) PROVE LogInv'
<1>1. PICK to \in {"read", "lock"} : pc' = [pc EXCEPT ![w] = to] /\ (to = "read" <=> w \in Outside)
  BY DEF Log!Change, Log!Goto
<1>2. LogTypes'
  BY <1>1 DEF Log!Change, LogInv, LogTypes, LogPlaces
<1>3. LogOneHolds'
  BY <1>1, <1>2 DEF Log!Change, LogInv, LogTypes, LogOneHolds, LogHolds, Log!AuditChainAssumption, Log!Writers
<1>4. \A v \in Inside : pc'[v] = "insert" => prev'[v] = Log!LastOf(Log!In)
  BY <1>1 DEF Log!Change, LogInv, LogTypes, LogFollows, Log!Writers
<1> QED
  BY <1>1, <1>2, <1>3, <1>4, LogSameRows DEF Log!Change, LogPlaces

LEMMA LogLock ==
  ASSUME Log!AuditChainAssumption, LogInv, NEW w \in Log!Writers, Log!Lock(w) PROVE LogInv'
<1>1. w \in Inside /\ w \notin Outside
  BY DEF Log!Lock, Log!Writers, LogInv, LogRowsOf, Log!AuditChainAssumption
<1>2. LogTypes'
  BY DEF Log!Lock, Log!Goto, LogInv, LogTypes, LogPlaces
<1>3. LogOneHolds'
  BY <1>1, <1>2 DEF Log!Lock, Log!Locked, Log!Goto, LogInv, LogTypes, LogOneHolds, LogHolds, Log!Writers
<1>4. \A v \in Inside : pc'[v] = "insert" => prev'[v] = Log!LastOf(Log!In)
  BY DEF Log!Lock, Log!Goto, LogInv, LogTypes, LogFollows, Log!Writers
<1> QED
  BY <1>1, <1>2, <1>3, <1>4, LogSameRows DEF Log!Lock, Log!Goto, LogPlaces

LEMMA LogReads ==
  ASSUME Log!AuditChainAssumption, LogInv, NEW w \in Log!Writers, Log!ReadPrevious(w) PROVE LogInv'
<1>1. LogTypes'
  BY LogLast DEF Log!ReadPrevious, Log!Goto, LogInv, LogTypes, LogPlaces
<1>2. LogOneHolds'
  BY <1>1 DEF Log!ReadPrevious, Log!Goto, LogInv, LogTypes, LogOneHolds, LogHolds, Log!Writers
<1>3. \A v \in Inside : pc'[v] = "insert" => prev'[v] = Log!LastOf(Log!In)
  BY DEF Log!ReadPrevious, Log!Goto, LogInv, LogTypes, LogFollows, Log!Writers
<1>4. w \in Outside => w \in made
  BY DEF Log!ReadPrevious, LogInv, LogMade
<1> QED
  BY <1>1, <1>2, <1>3, <1>4, LogSameRows DEF Log!ReadPrevious, Log!Goto, LogPlaces

(* What a writer that holds the lock does to its own rows.                 *)
LEMMA LogOurs ==
  ASSUME LogInv, NEW w \in Inside, NEW to \in {"in", "gone"}, rows' = Log!Ours(w, to)
  PROVE  /\ rows' \in Seq(LogRow) /\ Len(rows') = Len(rows) /\ DOMAIN rows' = DOMAIN rows
         /\ \A i \in DOMAIN rows : /\ rows'[i].by = rows[i].by /\ rows'[i].prev = rows[i].prev
                                   /\ rows[i] \in LogRow
                                   /\ rows'[i].state = IF rows[i].by = w THEN to
                                                       ELSE rows[i].state
<1>1. \A i \in DOMAIN rows : rows[i] \in LogRow
  BY DEF LogInv, LogTypes
<1>2. rows' = [i \in 1 .. Len(rows) |->
                 IF rows[i].by = w THEN [rows[i] EXCEPT !.state = to] ELSE rows[i]]
      /\ Len(rows) \in Nat /\ DOMAIN rows = 1 .. Len(rows)
  BY DEF Log!Ours, LogInv, LogTypes
<1>3. \A i \in 1 .. Len(rows) : rows'[i] \in LogRow
  BY <1>1, <1>2 DEF LogRow
<1>4. rows' \in Seq(LogRow) /\ Len(rows') = Len(rows) /\ DOMAIN rows' = DOMAIN rows
  BY <1>2, <1>3
<1> QED
  BY <1>1, <1>2, <1>4 DEF LogRow

LEMMA LogAppend ==
  ASSUME Log!AuditChainAssumption, LogInv, NEW w \in Log!Writers, Log!AppendRow(w) PROVE LogInv'
<1> DEFINE one == [by |-> w, prev |-> prev[w],
                   state |-> IF w \in Outside THEN "in" ELSE "open"]
           to == IF w \in Outside THEN "done" ELSE "commit"
<1>0. PICK n \in Nat : n = Len(rows)
  BY DEF LogInv, LogTypes
<1>1. one \in LogRow /\ n \in Nat /\ DOMAIN rows = 1 .. n /\ \A i \in DOMAIN rows : rows[i] \in LogRow
  <2>1. one \in LogRow
    BY DEF LogInv, LogTypes, LogRow
  <2> QED
    BY <2>1, <1>0 DEF LogInv, LogTypes
<1>2. /\ rows' = Append(rows, one) /\ pc' = [pc EXCEPT ![w] = to] /\ UNCHANGED <<prev, made>>
      /\ pc[w] = "insert"
  BY DEF Log!AppendRow, Log!Goto
<1>3. /\ DOMAIN rows' = DOMAIN rows \cup {n + 1} /\ Len(rows') = n + 1
      /\ \A i \in DOMAIN rows : rows'[i] = rows[i]
      /\ rows'[n + 1] = one /\ n + 1 \notin DOMAIN rows
  BY <1>0, <1>1, <1>2 DEF LogInv, LogTypes
<1>4. LogTypes'
  BY <1>1, <1>2 DEF LogInv, LogTypes, LogPlaces
<1>5. LogOneHolds'
  BY <1>2, <1>4 DEF LogInv, LogTypes, LogOneHolds, LogHolds, Log!AuditChainAssumption, Log!Writers
<1>6. \A i \in DOMAIN rows : rows[i].by # w /\ rows[i].state # "open" /\ rows[i].by \in Log!Writers
  <2>1. \A i \in DOMAIN rows : rows[i].by # w
    BY <1>2 DEF LogInv, LogRowsOf
  <2>2. ASSUME NEW i \in DOMAIN rows, rows[i].state = "open" PROVE FALSE
    <3>1. pc[rows[i].by] = "commit" /\ rows[i].by \in Inside
      BY <2>2 DEF LogInv, LogRowsOf
    <3>2. w \in Outside
      BY <3>1, <1>2, <2>1 DEF LogInv, LogOneHolds, LogHolds, Log!Writers
    <3> QED
      BY <3>1, <3>2 DEF Log!AppendRow, Log!Locked
  <2> QED
    BY <1>1, <2>1, <2>2 DEF LogRow
<1>7. LogRowsOf'
  BY <1>0, <1>1, <1>2, <1>3, <1>6 DEF LogInv, LogTypes, LogRowsOf, Log!Writers, Log!AuditChainAssumption
<1>8. Log!In \subseteq 1 .. n /\ Log!In' = IF w \in Outside THEN Log!In \cup {n + 1} ELSE Log!In
  BY <1>1, <1>3 DEF Log!In
<1>9. \A i \in DOMAIN rows : LogBefore(i)' = LogBefore(i)
  BY <1>1, <1>8 DEF LogBefore
<1>10. LogBefore(n + 1)' = Log!In
  <2>1. LogBefore(n + 1)' = {k \in Log!In' : k < n + 1}
    BY DEF LogBefore
  <2>2. \A k \in Log!In : k < n + 1
    BY <1>1, <1>8
  <2>3. ~(n + 1 < n + 1)
    OBVIOUS
  <2>4. \A k : k \in Log!In' /\ k < n + 1 <=> k \in Log!In
    BY <2>2, <2>3, <1>8
  <2> QED
    BY <2>1, <2>4
<1>11. LogFollows'
  <2>1. Log!In' # {} => \E i \in Log!In' : \A k \in Log!In' : k <= i
    <3>1. CASE w \in Outside
      BY <3>1, <1>1, <1>8
    <3>2. CASE w \notin Outside
      BY <3>2, <1>8 DEF LogInv, LogFollows
    <3> QED
      BY <3>1, <3>2
  <2>2. \A v \in Inside : pc'[v] = "insert" => prev'[v] = Log!LastOf(Log!In')
    <3> SUFFICES ASSUME NEW v \in Inside, pc'[v] = "insert" PROVE prev'[v] = Log!LastOf(Log!In')
      OBVIOUS
    <3>1. v # w /\ pc[v] = "insert" /\ prev'[v] = Log!LastOf(Log!In)
      BY <1>2 DEF LogInv, LogTypes, LogFollows, Log!Writers
    <3>2. w \notin Outside
      BY <3>1 DEF Log!AppendRow, Log!Locked
    <3> QED
      BY <3>1, <3>2, <1>8
  <2>3. \A i \in DOMAIN rows' : rows'[i].by \in Inside /\ rows'[i].state # "gone" =>
          rows'[i].prev = Log!LastOf(LogBefore(i)')
    <3>1. CASE w \in Inside
      <4>1. prev[w] = Log!LastOf(Log!In)
        BY <1>2, <3>1 DEF LogInv, LogFollows
      <4>2. rows'[n + 1].prev = Log!LastOf(LogBefore(n + 1)')
        BY <4>1, <1>3, <1>10
      <4>3. \A i \in DOMAIN rows : rows'[i].by \in Inside /\ rows'[i].state # "gone" =>
              rows'[i].prev = Log!LastOf(LogBefore(i)')
        BY <1>3, <1>9 DEF LogInv, LogFollows
      <4> QED
        BY <4>2, <4>3, <1>3
    <3>2. CASE w \notin Inside
      BY <3>2, <1>3, <1>9 DEF LogInv, LogFollows
    <3> QED
      BY <3>1, <3>2
  <2> QED
    BY <2>1, <2>2, <2>3 DEF LogFollows, Log!LastOf
<1>12. LogMade'
  BY <1>2, <1>3, <1>8 DEF LogInv, LogMade, LogTypes, Log!In, Log!Writers
<1> QED
  BY <1>4, <1>5, <1>7, <1>11, <1>12 DEF LogInv

LEMMA LogCommit ==
  ASSUME Log!AuditChainAssumption, LogInv, NEW w \in Log!Writers, Log!Commit(w) PROVE LogInv'
<1>1. /\ rows' = Log!Ours(w, "in") /\ made' = made \cup {w} /\ pc' = [pc EXCEPT ![w] = "done"]
      /\ prev' = prev /\ pc[w] = "commit" /\ w \in Inside /\ w \notin Outside
  BY DEF Log!Commit, Log!Goto, LogInv, LogRowsOf, Log!Writers, Log!AuditChainAssumption
<1>2. /\ rows' \in Seq(LogRow) /\ Len(rows') = Len(rows) /\ DOMAIN rows' = DOMAIN rows
      /\ \A i \in DOMAIN rows : /\ rows'[i].by = rows[i].by /\ rows'[i].prev = rows[i].prev
                                /\ rows[i] \in LogRow
                                /\ rows'[i].state = IF rows[i].by = w THEN "in"
                                                    ELSE rows[i].state
  BY <1>1, LogOurs
<1>3. PICK j \in DOMAIN rows : rows[j].by = w /\ rows[j].state = "open" /\ j = Len(rows)
  BY <1>1 DEF LogInv, LogRowsOf
<1>4. \A i \in DOMAIN rows : rows[i].by = w <=> i = j
  BY <1>3 DEF LogInv, LogRowsOf
<1>5. DOMAIN rows = 1 .. j /\ j \in Nat
  BY <1>3 DEF LogInv, LogTypes
<1>6. Log!In' = Log!In \cup {j} /\ j \notin Log!In /\ LogBefore(j)' = Log!In
  BY <1>2, <1>3, <1>4, <1>5 DEF Log!In, LogBefore
<1>7. \A i \in DOMAIN rows : LogBefore(i)' = LogBefore(i)
  BY <1>5, <1>6 DEF LogBefore, Log!In
<1>8. LogTypes'
  BY <1>1, <1>2 DEF LogInv, LogTypes, LogPlaces
<1>9. LogOneHolds'
  BY <1>1, <1>8 DEF LogInv, LogTypes, LogOneHolds, LogHolds, Log!Writers
<1>10. LogRowsOf'
  <2>1. \A i \in DOMAIN rows : rows[i].by \in Log!Writers
    BY <1>2 DEF LogRow
  <2>2. \A v \in Log!Writers : pc'[v] = IF v = w THEN "done" ELSE pc[v]
    BY <1>1 DEF LogInv, LogTypes
  <2>3. \A i, k \in DOMAIN rows' : rows'[i].by = rows'[k].by => i = k
    BY <1>2 DEF LogInv, LogRowsOf
  <2>4. \A i \in DOMAIN rows' : pc'[rows'[i].by] \in {"commit", "done"}
    BY <1>2, <2>1, <2>2 DEF LogInv, LogRowsOf
  <2>5. \A i \in DOMAIN rows' : rows'[i].state # "open"
    BY <1>2, <1>3, <1>4 DEF LogInv, LogRowsOf
  <2>6. \A v \in Log!Writers : pc'[v] # "commit"
    BY <1>1, <2>2 DEF LogInv, LogOneHolds, LogHolds, LogRowsOf, Log!Writers
  <2> QED
    BY <2>2, <2>3, <2>4, <2>5, <2>6 DEF LogRowsOf, LogInv, Log!Writers
<1>11. LogFollows'
  <2>1. \E i \in Log!In' : \A k \in Log!In' : k <= i
    BY <1>5, <1>6 DEF Log!In
  <2>2. \A v \in Inside : pc'[v] # "insert"
    BY <1>1, <1>8 DEF LogInv, LogTypes, LogOneHolds, LogHolds, Log!Writers
  <2>3. \A i \in DOMAIN rows : rows[i].by \in Inside /\ (rows[i].state # "gone" \/ i = j) =>
          rows[i].prev = Log!LastOf(LogBefore(i))
    BY <1>3 DEF LogInv, LogFollows
  <2>4. \A i \in DOMAIN rows' : rows'[i].by \in Inside /\ rows'[i].state # "gone" =>
          rows'[i].prev = Log!LastOf(LogBefore(i)')
    BY <1>2, <1>4, <1>7, <2>3
  <2> QED
    BY <1>1, <2>1, <2>2, <2>4 DEF LogFollows, Log!LastOf
<1>12. LogMade'
  BY <1>1, <1>2, <1>3, <1>4, <1>6, SMTT(30) DEF LogInv, LogMade, LogTypes, Log!In, Log!Writers
<1> QED
  BY <1>8, <1>9, <1>10, <1>11, <1>12 DEF LogInv

(* What is undone was open, or nothing: no row that counts is lost.        *)
LEMMA LogFail ==
  ASSUME Log!AuditChainAssumption, LogInv, NEW w \in Log!Writers, Log!Fail(w) PROVE LogInv'
<1>1. /\ pc' = [pc EXCEPT ![w] = "done"] /\ UNCHANGED <<prev, made>>
      /\ pc[w] \notin {"change", "done"}
  BY DEF Log!Fail, Log!Goto
<1>2. LogTypes' \/ w \in Inside
  BY <1>1 DEF Log!Fail, LogInv, LogTypes, LogPlaces, Log!Writers
<1>3. \A v \in Log!Writers : pc'[v] = IF v = w THEN "done" ELSE pc[v]
  BY <1>1 DEF LogInv, LogTypes
<1>4. LogOneHolds'
  BY <1>3 DEF LogInv, LogOneHolds, LogHolds
<1>5. w \in Outside => w \in made
  BY <1>1 DEF LogInv, LogMade
<1>6. \A v \in Inside : pc'[v] = "insert" => prev'[v] = Log!LastOf(Log!In)
  BY <1>1, <1>3 DEF LogInv, LogFollows, Log!Writers
<1>7. CASE w \notin Inside
  <2>1. pc[w] # "commit" /\ rows' = rows
    BY <1>7 DEF Log!Fail, LogInv, LogRowsOf, Log!Writers
  <2> QED
    BY <1>1, <1>2, <1>4, <1>5, <1>6, <1>7, <2>1, LogSameRows DEF LogPlaces
<1>8. CASE w \in Inside
  <2>1. rows' = Log!Ours(w, "gone") /\ w \notin Outside
    BY <1>8 DEF Log!Fail, Log!AuditChainAssumption
  <2>2. /\ rows' \in Seq(LogRow) /\ Len(rows') = Len(rows) /\ DOMAIN rows' = DOMAIN rows
        /\ \A i \in DOMAIN rows : /\ rows'[i].by = rows[i].by /\ rows'[i].prev = rows[i].prev
                                  /\ rows[i] \in LogRow
                                  /\ rows'[i].state = IF rows[i].by = w THEN "gone"
                                                      ELSE rows[i].state
    BY <2>1, <1>8, LogOurs
  <2>3. LogTypes'
    BY <1>1, <2>2 DEF LogInv, LogTypes, LogPlaces
  <2>4. \A i \in DOMAIN rows : rows[i].by \in Log!Writers
    BY <2>2 DEF LogRow
  <2>5. \A i \in DOMAIN rows : rows[i].by = w => rows[i].state = "open"
    <3> SUFFICES ASSUME NEW i \in DOMAIN rows, rows[i].by = w PROVE rows[i].state = "open"
      OBVIOUS
    <3>1. pc[w] = "commit"
      BY <1>1 DEF LogInv, LogRowsOf
    <3> QED
      BY <3>1 DEF LogInv, LogRowsOf
  <2>6. Log!In' = Log!In /\ \A i : LogBefore(i)' = LogBefore(i)
    BY <2>2, <2>5 DEF Log!In, LogBefore
  <2>7. LogRowsOf'
    <3>1. \A i, k \in DOMAIN rows' : rows'[i].by = rows'[k].by => i = k
      BY <2>2 DEF LogInv, LogRowsOf
    <3>2. \A i \in DOMAIN rows' : pc'[rows'[i].by] \in {"commit", "done"}
      BY <2>2, <2>4, <1>3 DEF LogInv, LogRowsOf
    <3>3. \A i \in DOMAIN rows' : rows'[i].state = "open" =>
            pc'[rows'[i].by] = "commit" /\ i = Len(rows') /\ rows'[i].by \in Inside
      BY <2>2, <2>4, <1>3 DEF LogInv, LogRowsOf
    <3>4. \A v \in Log!Writers : pc'[v] = "commit" =>
            \E i \in DOMAIN rows' : rows'[i].by = v /\ rows'[i].state = "open"
      BY <2>2, <1>3 DEF LogInv, LogRowsOf
    <3>5. \A v \in Outside : pc'[v] \notin {"lock", "commit"}
      BY <1>3 DEF LogInv, LogRowsOf, Log!Writers
    <3> QED
      BY <3>1, <3>2, <3>3, <3>4, <3>5 DEF LogRowsOf
  <2>8. LogFollows'
    <3>1. \A i \in DOMAIN rows' : rows'[i].by \in Inside /\ rows'[i].state # "gone" =>
            rows'[i].prev = Log!LastOf(LogBefore(i))
      BY <2>2 DEF LogInv, LogFollows
    <3> QED
      BY <3>1, <2>6, <1>6 DEF LogInv, LogFollows, Log!LastOf
  <2>9. LogMade'
    BY <2>2, <2>6, <1>1, <1>3 DEF LogInv, LogMade, Log!In, Log!Writers
  <2> QED
    BY <2>3, <1>4, <2>7, <2>8, <2>9 DEF LogInv
<1> QED
  BY <1>7, <1>8

LEMMA LogStep ==
  ASSUME Log!AuditChainAssumption, LogInv, [Log!Next]_(Log!vars) PROVE LogInv'
<1>1. CASE UNCHANGED Log!vars
  BY <1>1 DEF Log!vars, LogInv, LogTypes, LogOneHolds, LogHolds, LogRowsOf, LogFollows, LogBefore,
    LogMade, Log!In
<1> QED
  BY <1>1, LogChange, LogLock, LogReads, LogAppend, LogCommit, LogFail DEF Log!Next, Log!Done

LEMMA LogHonest ==
  ASSUME LogInv PROVE Log!TypeOK /\ Log!LockedEntriesFollow
<1>1. Log!TypeOK
  BY DEF LogInv, LogTypes, Log!TypeOK, LogRow, LogPlaces
<1>2. ASSUME NEW i \in Log!Breaks PROVE rows[i].by \in Outside
  <2>1. i \in DOMAIN rows /\ rows[i] \in LogRow /\ rows[i].state = "in" /\ rows[i].prev # Log!LastOf(LogBefore(i))
    BY <1>2 DEF Log!Breaks, Log!In, LogBefore, LogInv, LogTypes
  <2> QED
    BY <2>1 DEF LogInv, LogFollows, LogRow, Log!Writers
<1> QED
  BY <1>1, <1>2 DEF Log!LockedEntriesFollow, LogInv, LogMade

-----------------------------------------------------------------------------
(* The stories together: the one that is told keeps its invariant, and the *)
(* others stand still.                                                     *)
ClosingInv ==
  /\ story = "case" => CurrentInv
  /\ story = "funding" => DealInv
  /\ story = "papers" => PaperInv
  /\ story = "log" => LogInv

LEMMA ClosingInit ==
  ASSUME MCInit PROVE ClosingInv
  BY ClosingAssumption, CurrentInit, DealAtInit, PaperAtInit, LogAtInit DEF MCInit, ClosingInv

LEMMA ClosingNext ==
  ASSUME ClosingInv, [MCNext]_<<story, vars, dealVars, paperVars, logVars>>
  PROVE  ClosingInv'
<1>1. story' = story
  BY DEF MCNext
<1>2. story = "case" => [Next]_vars
  BY DEF MCNext
<1>3. story = "funding" => [Deal!Next]_(Deal!vars)
  BY DEF MCNext, Deal!vars, dealVars
<1>4. story = "papers" => [Papers!Next]_(Papers!vars)
  BY DEF MCNext, Papers!vars, paperVars
<1>5. story = "log" => [Log!Next]_(Log!vars)
  BY DEF MCNext, Log!vars, logVars
<1> QED
  BY <1>1, <1>2, <1>3, <1>4, <1>5, ClosingAssumption, CurrentNext, DealStep, PaperStep, LogStep
  DEF ClosingInv

(* A funding is confirmed once, its splits pay out what was divided and    *)
(* nothing short is received, and its milestones follow the maturity, in   *)
(* whatever order the requests of Funding read and write.                  *)
THEOREM MoneyStaysAccounted == MCSpec => []MoneyIsAccounted
<1>1. MCInit => ClosingInv
  BY ClosingInit
<1>2. ClosingInv /\ [MCNext]_<<story, vars, dealVars, paperVars, logVars>> => ClosingInv'
  BY ClosingNext
<1>3. ClosingInv => MoneyIsAccounted
  BY DealCountsOne DEF ClosingInv, MoneyIsAccounted, DealInv
<1> QED
  BY <1>1, <1>2, <1>3, PTL DEF MCSpec

(* A request said to be complete is backed by documents, the count of what *)
(* is outstanding is put right by whoever changed it, an audit entry under *)
(* the lock follows the one before it and tells of a change that was made, *)
(* and a case's rows are of the statuses the schema has.                   *)
THEOREM RecordsKeepStanding == MCSpec => []RecordsStand
<1>1. MCInit => ClosingInv
  BY ClosingInit
<1>2. ClosingInv /\ [MCNext]_<<story, vars, dealVars, paperVars, logVars>> => ClosingInv'
  BY ClosingNext
<1>3. ClosingInv => RecordsStand
  BY PaperHonest, LogHonest, TypesFollow DEF ClosingInv, CurrentInv, RecordsStand
<1> QED
  BY <1>1, <1>2, <1>3, PTL DEF MCSpec

(* A commission becomes paid while the case is incomplete only by the hand *)
(* of a request whose ground moved after it had looked.                    *)
THEOREM PaidWhereComplete == MCSpec => PaidOnceComplete
<1>1. MCInit => ClosingInv
  BY ClosingInit
<1>2. ClosingInv /\ [MCNext]_<<story, vars, dealVars, paperVars, logVars>> => ClosingInv'
  BY ClosingNext
<1>3. ClosingInv /\ [MCNext]_<<story, vars, dealVars, paperVars, logVars>>
        => [story = "funding" => Deal!PaysWhenComplete]_dealVars
  <2>1. ASSUME ClosingInv, [MCNext]_<<story, vars, dealVars, paperVars, logVars>>, story = "funding"
        PROVE  Deal!PaysWhenComplete
    <3>1. [Deal!Next]_(Deal!vars)
      BY <2>1 DEF MCNext, Deal!vars, dealVars
    <3> QED
      BY <2>1, <3>1, ClosingAssumption, DealPays DEF ClosingInv
  <2> QED
    BY <2>1
<1> QED
  BY <1>1, <1>2, <1>3, PTL DEF MCSpec, PaidOnceComplete
=============================================================================
