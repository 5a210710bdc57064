----------------------------- MODULE StaffProofs -----------------------------
(***************************************************************************)
(* Proofs about Staff, for any staff, files, links, sessions and number of *)
(* requests at the same time.                                              *)
(***************************************************************************)
EXTENDS Staff, FiniteSetTheorems, TLAPS

-----------------------------------------------------------------------------
(* Finite sets of numbers.                                                 *)

(* The order of the subsets {s \in S : s <= x} has a minimal one, and its  *)
(* x is the minimum.                                                       *)
LEMMA MinIsLeast ==
  ASSUME NEW S \in SUBSET Nat, IsFiniteSet(S), S # {}
  PROVE  Min(S) \in S /\ \A s \in S : Min(S) <= s
<1> DEFINE T == {{s \in S : s <= x} : x \in S}
<1>1. IsWellFoundedOn(StrictSubsetOrdering(S), SUBSET S)
  BY FS_StrictSubsetOrderingWellFounded, FS_FiniteSubsetsOfFinite, Zenon
<1>2. T \subseteq SUBSET S /\ T # {}
  OBVIOUS
<1>3. PICK B \in T : \A C \in T : <<C, B>> \notin StrictSubsetOrdering(S)
  <2> HIDE DEF T
  <2> QED
    BY <1>1, <1>2, WFMin, Zenon
<1>4. \A C \in T : ~(C \subseteq B /\ C # B)
  BY <1>2, <1>3 DEF StrictSubsetOrdering
<1>5. PICK m \in S : B = {s \in S : s <= m}
  OBVIOUS
<1>6. ASSUME NEW s \in S, ~(m <= s) PROVE FALSE
  <2>1. S \subseteq Nat /\ s < m
    BY <1>6
  <2>2. {r \in S : r <= s} \in T
    OBVIOUS
  <2>3. ASSUME NEW r \in S, r <= s PROVE r \in B
    <3>1. r \in Nat /\ s \in Nat /\ m \in Nat
      BY <2>1
    <3> QED
      BY <1>5, <2>1, <2>3, <3>1
  <2>4. m \in B /\ m \notin {r \in S : r <= s}
    BY <1>5, <2>1
  <2> QED
    BY <1>4, <2>2, <2>3, <2>4
<1>7. m \in S /\ \A s \in S : m <= s
  BY <1>6
<1> QED
  BY <1>7 DEF Min

(* ... and the other way round.                                            *)
LEMMA MaxIsGreatest ==
  ASSUME NEW S \in SUBSET Nat, IsFiniteSet(S), S # {}
  PROVE  Max(S) \in S /\ \A s \in S : s <= Max(S)
<1> DEFINE T == {{s \in S : x <= s} : x \in S}
<1>1. IsWellFoundedOn(StrictSubsetOrdering(S), SUBSET S)
  BY FS_StrictSubsetOrderingWellFounded, FS_FiniteSubsetsOfFinite, Zenon
<1>2. T \subseteq SUBSET S /\ T # {}
  OBVIOUS
<1>3. PICK B \in T : \A C \in T : <<C, B>> \notin StrictSubsetOrdering(S)
  <2> HIDE DEF T
  <2> QED
    BY <1>1, <1>2, WFMin, Zenon
<1>4. \A C \in T : ~(C \subseteq B /\ C # B)
  BY <1>2, <1>3 DEF StrictSubsetOrdering
<1>5. PICK m \in S : B = {s \in S : m <= s}
  OBVIOUS
<1>6. ASSUME NEW s \in S, ~(s <= m) PROVE FALSE
  <2>1. S \subseteq Nat /\ m < s
    BY <1>6
  <2>2. {r \in S : s <= r} \in T
    OBVIOUS
  <2>3. ASSUME NEW r \in S, s <= r PROVE r \in B
    <3>1. r \in Nat /\ s \in Nat /\ m \in Nat
      BY <2>1
    <3> QED
      BY <1>5, <2>1, <2>3, <3>1
  <2>4. m \in B /\ m \notin {r \in S : s <= r}
    BY <1>5, <2>1
  <2> QED
    BY <1>4, <2>2, <2>3, <2>4
<1>7. m \in S /\ \A s \in S : s <= m
  BY <1>6
<1>8. \A s \in S : m >= s
  BY <1>7
<1>9. Max(S) \in S /\ \A s \in S : Max(S) >= s
  BY <1>7, <1>8 DEF Max
<1> QED
  BY <1>9

(* The next free slot.                                                     *)
LEMMA FreeLink ==
  ASSUME \E i \in Links : link[i] = None
  PROVE  /\ Min({i \in Links : link[i] = None}) \in Links
         /\ link[Min({i \in Links : link[i] = None})] = None
<1> DEFINE S == {i \in Links : link[i] = None}
<1>1. S \subseteq Links /\ S # {}
  OBVIOUS
<1>2. S \subseteq Nat /\ IsFiniteSet(S)
  BY <1>1, StaffAssumption, FS_Subset
<1>3. Min(S) \in S
  <2> HIDE DEF S
  <2> QED
    BY <1>1, <1>2, MinIsLeast
<1> QED
  BY <1>3

LEMMA FreeSession ==
  ASSUME \E s \in Sessions : session[s] = None
  PROVE  /\ Min({s \in Sessions : session[s] = None}) \in Sessions
         /\ session[Min({s \in Sessions : session[s] = None})] = None
<1> DEFINE S == {s \in Sessions : session[s] = None}
<1>1. S \subseteq Sessions /\ S # {}
  OBVIOUS
<1>2. S \subseteq Nat /\ IsFiniteSet(S)
  BY <1>1, StaffAssumption, FS_Subset
<1>3. Min(S) \in S
  <2> HIDE DEF S
  <2> QED
    BY <1>1, <1>2, MinIsLeast
<1> QED
  BY <1>3

-----------------------------------------------------------------------------
(* What is under way.                                                      *)

LEMMA OperationFields ==
  ASSUME NEW op \in Operation
  PROVE  /\ op.kind \in {"idle", "activate", "sign in", "password", "end", "assign", "claim"}
         /\ op.kind = "activate" => op.link \in Links /\ op.of \in Users
         /\ op.kind = "sign in" =>
              op.of \in Users /\ op.late \in BOOLEAN /\ op.password \in Nat
         /\ op.kind = "password" =>
              op.of \in Users /\ op.late \in BOOLEAN /\ op.at \in {"write", "end"}
         /\ op.kind = "end" =>
              /\ op.of \in Users /\ op.to \in Users \cup {None} /\ op.moving \in Moving
              /\ op.how \in {"deactivate", "delete", "change role"}
         /\ op.kind = "assign" => op.of \in Users /\ op.file \in Files
         /\ op.kind = "claim" =>
              op.of \in Users /\ op.file \in Files /\ op.stamp \in Nat
                /\ op.passing \subseteq Users
<1>1. CASE op = Idle
  BY <1>1 DEF Idle
<1>2. CASE op \in [kind : {"activate"}, link : Links, of : Users]
  BY <1>2
<1>3. CASE op \in [kind : {"sign in"}, of : Users, late : BOOLEAN, password : Nat]
  BY <1>3
<1>4. CASE op \in [kind : {"password"}, at : {"write", "end"}, of : Users, late : BOOLEAN]
  BY <1>4
<1>5. CASE op \in [kind : {"end"}, how : {"deactivate", "delete", "change role"},
                   of : Users, to : Users \cup {None}, moving : Moving]
  BY <1>5
<1>6. CASE op \in [kind : {"assign"}, of : Users, file : Files]
  BY <1>6
<1>7. CASE op \in [kind : {"claim"}, of : Users, file : Files, stamp : Nat,
                   passing : SUBSET Users]
  BY <1>7
<1> QED
  BY <1>1, <1>2, <1>3, <1>4, <1>5, <1>6, <1>7 DEF Operation

LEMMA OperationCases ==
  ASSUME NEW op \in Operation
  PROVE  /\ op.kind = "sign in" =>
              op \in [kind : {"sign in"}, of : Users, late : BOOLEAN, password : Nat]
         /\ op.kind = "password" =>
              op \in [kind : {"password"}, at : {"write", "end"}, of : Users, late : BOOLEAN]
<1>1. Idle.kind = "idle"
  BY DEF Idle
<1> QED
  BY <1>1 DEF Operation

(* Being late changes nothing else.                                        *)
LEMMA LateFields ==
  ASSUME NEW op \in Operation, op.kind \in {"sign in", "password"}
  PROVE  /\ [op EXCEPT !.late = TRUE] \in Operation
         /\ [op EXCEPT !.late = TRUE].kind = op.kind
         /\ [op EXCEPT !.late = TRUE].of = op.of
         /\ [op EXCEPT !.late = TRUE].late = TRUE
         /\ op.kind = "password" => [op EXCEPT !.late = TRUE].at = op.at
<1>1. CASE op \in [kind : {"sign in"}, of : Users, late : BOOLEAN, password : Nat]
  BY <1>1 DEF Operation
<1>2. CASE op \in [kind : {"password"}, at : {"write", "end"}, of : Users, late : BOOLEAN]
  BY <1>2 DEF Operation
<1> QED
  BY <1>1, <1>2, OperationCases

Types ==
  /\ person \in [Users -> Person]
  /\ link \in [Links -> Link \cup {None}]
  /\ session \in [Sessions -> Session \cup {None}]
  /\ file \in [Files -> {"none", "open", "closed"}]
  /\ held \in [Files -> [Users -> {"no", "holds", "primary"}]]
  /\ roundRobin \in BOOLEAN
  /\ work \in [Workers -> Operation]
  /\ steps \in 0 .. MaxSteps
  /\ late \subseteq Sessions /\ strayed \subseteq Files /\ crossed \in BOOLEAN
  /\ passed \in [Users -> Nat]

(* An activation names a link that was sent to that account.               *)
ActivationNamesItsLink ==
  \A w \in Workers : work[w].kind = "activate" =>
    link[work[w].link] # None /\ link[work[w].link].of = work[w].of

(* What overtakes a sign-in or a change of password leaves it under way.   *)
LEMMA OvertakenFields ==
  ASSUME Types, NEW u \in Users, NEW w \in Workers
  PROVE  /\ Overtaken(u, w) \in [Workers -> Operation]
         /\ Overtaken(u, w)[w] = work[w]
         /\ \A v \in Workers :
              \/ /\ Overtaken(u, w)[v] = work[v]
                 /\ v = w \/ work[v].kind \notin {"sign in", "password"} \/ work[v].of # u
              \/ /\ work[v].kind \in {"sign in", "password"} /\ work[v].of = u
                 /\ Overtaken(u, w)[v] = [work[v] EXCEPT !.late = TRUE]
<1>1. \A v \in Workers : work[v] \in Operation
  BY DEF Types
<1>2. \A v \in Workers : work[v].kind \in {"sign in", "password"} =>
         [work[v] EXCEPT !.late = TRUE] \in Operation
  BY <1>1, LateFields
<1> QED
  BY <1>1, <1>2, Zenon DEF Overtaken

LEMMA LateStep ==
  ASSUME Types, NEW u \in Users, NEW w \in Workers, NEW v \in Workers \ {w},
         work'[v] = Overtaken(u, w)[v]
  PROVE  \/ work'[v] = work[v] /\ (work[v].kind \notin {"sign in", "password"} \/ work[v].of # u)
         \/ /\ work'[v].late /\ work'[v].kind = work[v].kind /\ work'[v].of = u
            /\ work[v].of = u /\ work[v].kind \in {"sign in", "password"}
<1>1. work[v] \in Operation
  BY DEF Types
<1>2. CASE work[v].kind \in {"sign in", "password"} /\ work[v].of = u
  <2>1. work'[v] = [work[v] EXCEPT !.late = TRUE]
    BY <1>2 DEF Overtaken
  <2> QED
    BY <1>1, <1>2, <2>1, LateFields
<1>3. CASE ~(work[v].kind \in {"sign in", "password"} /\ work[v].of = u)
  BY <1>3 DEF Overtaken
<1> QED
  BY <1>2, <1>3

(* A stamp is newer than any that was given or is about to be.             *)
LEMMA NewStampIsNew ==
  ASSUME Types, NEW u \in Users
  PROVE  /\ NewStamp(u) \in Nat
         /\ \A v \in Users : person[v].stamp < NewStamp(u)
<1> DEFINE P == {person[v].stamp : v \in Users}
           C == {x \in Workers : work[x].kind = "claim"}
           W == {work[v].stamp : v \in C}
<1>1. P \subseteq Nat /\ IsFiniteSet(P)
  <2>1. \A v \in Users : person[v].stamp \in Nat
    BY DEF Types, Person
  <2>2. IsFiniteSet(P)
    <3> DEFINE f == [v \in Users |-> person[v].stamp]
    <3>1. f \in Surjection(Users, P)
      BY DEF Surjection
    <3> QED
      BY <3>1, StaffAssumption, FS_Surjection
  <2> QED
    BY <2>1, <2>2
<1>2. W \subseteq Nat /\ IsFiniteSet(W)
  <2>1. \A v \in C : work[v].stamp \in Nat
    BY OperationFields DEF Types
  <2>2. IsFiniteSet(C)
    BY StaffAssumption, FS_Subset
  <2>3. IsFiniteSet(W)
    <3> DEFINE f == [v \in C |-> work[v].stamp]
    <3> HIDE DEF C
    <3>1. f \in Surjection(C, W)
      BY DEF Surjection
    <3> QED
      BY <2>2, <3>1, FS_Surjection
  <2> QED
    BY <2>1, <2>3
<1>3. person[u].stamp \in P
  OBVIOUS
<1>4. P \cup W \in SUBSET Nat /\ IsFiniteSet(P \cup W) /\ P \cup W # {}
  <2> HIDE DEF P, W
  <2> QED
    BY <1>1, <1>2, <1>3, FS_Union
<1>5. Max(P \cup W) \in P \cup W /\ \A s \in P \cup W : s <= Max(P \cup W)
  <2> HIDE DEF P, W
  <2> QED
    BY <1>4, MaxIsGreatest
<1>6. NewStamp(u) = 1 + Max(P \cup W)
  BY DEF NewStamp
<1>7. \A v \in Users : person[v].stamp \in P
  OBVIOUS
<1> HIDE DEF P, W
<1>8. Max(P \cup W) \in Nat
  BY <1>4, <1>5
<1>9. ASSUME NEW v \in Users PROVE person[v].stamp < NewStamp(u)
  <2>1. person[v].stamp \in Nat /\ person[v].stamp <= Max(P \cup W)
    BY <1>1, <1>5, <1>7
  <2> QED
    BY <1>6, <1>8, <2>1
<1>10. NewStamp(u) \in Nat
  BY <1>6, <1>8
<1> QED
  BY <1>9, <1>10

LEMMA StartWork ==
  ASSUME Types, NEW w \in Workers, NEW op, Start(w, op)
  PROVE  /\ work'[w] = op /\ \A v \in Workers : v # w => work'[v] = work[v]
         /\ work[w] = Idle /\ work[w].kind = "idle"
         /\ steps' \in 0 .. MaxSteps
         /\ op \in Operation => work' \in [Workers -> Operation]
<1>1. steps' \in 0 .. MaxSteps
  BY StaffAssumption DEF Start, Types
<1>2. Idle.kind = "idle"
  BY DEF Idle
<1> QED
  BY <1>1, <1>2 DEF Start, Types

LEMMA DoneWork ==
  ASSUME Types, NEW w \in Workers, Done(w)
  PROVE  /\ work'[w].kind = "idle" /\ \A v \in Workers : v # w => work'[v] = work[v]
         /\ work' \in [Workers -> Operation]
<1>1. Idle.kind = "idle" /\ Idle \in Operation
  BY DEF Idle, Operation
<1> QED
  BY <1>1 DEF Done, Types

LEMMA AskedSteps ==
  ASSUME Types, Asked
  PROVE  steps' \in 0 .. MaxSteps
BY StaffAssumption DEF Asked, Types

LEMMA RevokedType ==
  ASSUME Types, NEW u \in Users
  PROVE  Revoked(u) \in [Links -> Link \cup {None}]
BY DEF Types, Revoked, Link, LinkStates

LEMMA SessionsEndedType ==
  ASSUME Types, NEW u \in Users
  PROVE  SessionsEnded(u) \in [Sessions -> Session \cup {None}]
BY DEF Types, SessionsEnded, Session

LEMMA IssueType ==
  ASSUME Types, NEW u \in Users, IssueInvitation(u)
  PROVE  link' \in [Links -> Link \cup {None}]
<1>1. [of |-> u, state |-> "live"] \in Link
  BY DEF Link, LinkStates
<1> QED
  BY <1>1, RevokedType DEF IssueInvitation

(* An account with one thing changed is an account.                        *)
LEMMA PersonFields ==
  ASSUME NEW p \in Person
  PROVE  /\ p.state \in States /\ p.activated \in BOOLEAN /\ p.admin \in BOOLEAN
         /\ p.rotation \in BOOLEAN /\ p.stamp \in Nat /\ p.password \in Nat
         /\ \A x \in States : [p EXCEPT !.state = x] \in Person
         /\ \A x \in BOOLEAN : /\ [p EXCEPT !.activated = x] \in Person
                             /\ [p EXCEPT !.admin = x] \in Person
                             /\ [p EXCEPT !.rotation = x] \in Person
         /\ \A x \in Nat : /\ [p EXCEPT !.stamp = x] \in Person
                         /\ [p EXCEPT !.password = x] \in Person
BY DEF Person

(* The account that ends.                                                  *)
LEMMA EndedPerson ==
  ASSUME Types, NEW w \in Workers, CommitEnd(w)
  PROVE  /\ work[w].of \in Users /\ person' \in [Users -> Person]
         /\ \A v \in Users \ {work[w].of} : person'[v] = person[v]
         /\ person'[work[w].of].activated = person[work[w].of].activated
         /\ person'[work[w].of].stamp = person[work[w].of].stamp
         /\ person'[work[w].of].password = person[work[w].of].password
         /\ work[w].how = "change role" =>
              person'[work[w].of].state = person[work[w].of].state
         /\ work[w].how # "change role" =>
              person'[work[w].of].state \in {"inactive", "deleted"}
<1> DEFINE op == work[w]
           x == CASE op.how = "deactivate" -> "inactive"
                  [] op.how = "delete" -> "deleted" [] OTHER -> person[op.of].state
           y == IF op.how = "delete" THEN FALSE ELSE person[op.of].rotation
           z == IF op.how # "change role" THEN person[op.of].admin ELSE FALSE
           p == [person[op.of] EXCEPT !.state = x]
           q == [p EXCEPT !.rotation = y]
           r == [q EXCEPT !.admin = z]
<1>1. op.of \in Users /\ op.how \in {"deactivate", "delete", "change role"}
  BY OperationFields DEF CommitEnd, Types
<1>2. person[op.of] \in Person
  BY <1>1 DEF Types
<1>3. x \in States /\ y \in BOOLEAN /\ z \in BOOLEAN
  BY <1>2, PersonFields DEF States
<1>4. person' = [person EXCEPT ![op.of] = r]
  BY <1>1, <1>2 DEF CommitEnd, Types
<1>5. /\ op.how = "change role" => x = person[op.of].state
      /\ op.how # "change role" => x \in {"inactive", "deleted"}
  BY <1>1
<1> HIDE DEF x, y, z
<1>6. p \in Person /\ p.state = x /\ p.activated = person[op.of].activated
      /\ p.stamp = person[op.of].stamp /\ p.password = person[op.of].password
  BY <1>2, <1>3 DEF Person
<1> HIDE DEF p
<1>7. q \in Person /\ q.state = x /\ q.activated = person[op.of].activated
      /\ q.stamp = person[op.of].stamp /\ q.password = person[op.of].password
  BY <1>3, <1>6 DEF Person
<1> HIDE DEF q
<1>8. r \in Person /\ r.state = x /\ r.activated = person[op.of].activated
      /\ r.stamp = person[op.of].stamp /\ r.password = person[op.of].password
  BY <1>3, <1>7 DEF Person
<1> HIDE DEF r, op
<1>9. /\ person' \in [Users -> Person] /\ person'[op.of] = r
      /\ \A v \in Users \ {op.of} : person'[v] = person[v]
  BY <1>1, <1>4, <1>8 DEF Types
<1>10. /\ op.of \in Users
       /\ person'[op.of].activated = person[op.of].activated
       /\ person'[op.of].stamp = person[op.of].stamp
       /\ person'[op.of].password = person[op.of].password
       /\ op.how = "change role" => person'[op.of].state = person[op.of].state
       /\ op.how # "change role" => person'[op.of].state \in {"inactive", "deleted"}
  BY <1>1, <1>5, <1>8, <1>9
<1> USE DEF op
<1> QED
  BY <1>9, <1>10

-----------------------------------------------------------------------------
(* The steps: those that ask for something, those that go on with it, and  *)
(* those that are done at once.                                            *)

LEMMA AskTypes ==
  ASSUME Types, NEW w \in Workers, AskStep(w)
  PROVE  Types'
<1>1. ASSUME NEW i \in Links, FindInvitation(w, i) PROVE Types'
  <2>1. link[i] \in Link
    BY <1>1 DEF FindInvitation, Types
  <2>2. [kind |-> "activate", link |-> i, of |-> link[i].of] \in Operation
    BY <2>1 DEF Operation, Link
  <2>3. work' \in [Workers -> Operation] /\ steps' \in 0 .. MaxSteps
    BY <1>1, <2>2, StartWork DEF FindInvitation
  <2> QED
    BY <1>1, <2>3 DEF FindInvitation, Types, access, leads
<1>2. ASSUME NEW s \in Sessions, AskPassword(w, s) PROVE Types'
  <2>1. session[s] \in Session
    BY <1>2 DEF AskPassword, Accepted, Types
  <2>2. [kind |-> "password", at |-> "write", of |-> session[s].of, late |-> FALSE] \in Operation
    BY <2>1 DEF Operation, Session
  <2>3. work' \in [Workers -> Operation] /\ steps' \in 0 .. MaxSteps
    BY <1>2, <2>2, StartWork DEF AskPassword
  <2> QED
    BY <1>2, <2>3 DEF AskPassword, Types, access, leads
<1>3. ASSUME NEW how \in {"deactivate", "delete", "change role"}, NEW actor \in Users,
             NEW u \in Users, NEW to \in Users \cup {None}, LockTarget(w, how, actor, u, to)
      PROVE  Types'
  <2> DEFINE moving == IF how = "change role" THEN {} ELSE OpenFiles(u)
             m == [f \in moving |-> held[f][u]]
             op == [kind |-> "end", how |-> how, of |-> u, to |-> to, moving |-> m]
  <2>1. m \in Moving
    <3>0. ASSUME NEW f \in OpenFiles(u)
          PROVE  f \in Files /\ held[f][u] \in {"primary", "holds"}
      <4>1. f \in Files /\ held[f][u] # "no"
        BY DEF OpenFiles, Holds
      <4>2. held[f] \in [Users -> {"no", "holds", "primary"}]
        BY <4>1 DEF Types
      <4> QED
        BY <4>1, <4>2
    <3>1. moving \subseteq Files /\ \A f \in moving : held[f][u] \in {"primary", "holds"}
      BY <3>0
    <3>2. m \in [moving -> {"primary", "holds"}]
      BY <3>1
    <3> HIDE DEF moving, m
    <3> QED
      BY <3>1, <3>2 DEF Moving
  <2>2. op \in Operation
    <3> HIDE DEF m
    <3> QED
      BY <2>1 DEF Operation
  <2>3. work' \in [Workers -> Operation] /\ steps' \in 0 .. MaxSteps
    BY <1>3, <2>2, StartWork DEF LockTarget
  <2> QED
    BY <1>3, <2>3 DEF LockTarget, Types, access, leads
<1>4. ASSUME NEW u \in Users, SignIn(w, u) PROVE Types'
  <2>1. [kind |-> "sign in", of |-> u, late |-> FALSE, password |-> person[u].password]
          \in Operation
    BY DEF Operation, Types, Person
  <2>2. work' \in [Workers -> Operation] /\ steps' \in 0 .. MaxSteps
    BY <1>4, <2>1, StartWork DEF SignIn
  <2> QED
    BY <1>4, <2>2 DEF SignIn, Types, access, leads
<1>5. ASSUME NEW f \in Files, NEW u \in Users, AskAssign(w, f, u) PROVE Types'
  <2>1. [kind |-> "assign", of |-> u, file |-> f] \in Operation
    BY DEF Operation
  <2>2. work' \in [Workers -> Operation] /\ steps' \in 0 .. MaxSteps
    BY <1>5, <2>1, StartWork DEF AskAssign
  <2> QED
    BY <1>5, <2>2 DEF AskAssign, Types, access, leads
<1>6. ASSUME NEW f \in Files, NEW u \in Users, ClaimNext(w, f, u) PROVE Types'
  <2>1. NewStamp(u) \in Nat /\ Free \ {u} \subseteq Users
    BY NewStampIsNew DEF Free, Rotating
  <2>2. [kind |-> "claim", of |-> u, file |-> f, stamp |-> NewStamp(u),
         passing |-> Free \ {u}] \in Operation
    BY <2>1 DEF Operation
  <2>3. work' \in [Workers -> Operation] /\ steps' \in 0 .. MaxSteps
    BY <1>6, <2>2, StartWork DEF ClaimNext
  <2> QED
    BY <1>6, <2>3 DEF ClaimNext, Types, access, leads
<1> QED
  BY <1>1, <1>2, <1>3, <1>4, <1>5, <1>6 DEF AskStep

LEMMA WorkTypes ==
  ASSUME Types, ActivationNamesItsLink, NEW w \in Workers, WorkStep(w)
  PROVE  Types'
<1> DEFINE op == work[w]
<1>0. op \in Operation
  BY DEF Types
<1>1. CASE Activate(w)
  <2>1. op.of \in Users /\ op.link \in Links
    BY <1>0, <1>1, OperationFields DEF Activate
  <2>2. CASE StillUsable(w)
    <3>1. Revoked(op.of)[op.link] \in Link
      <4>1. link[op.link] \in Link
        BY <1>1, <2>1 DEF ActivationNamesItsLink, Activate, Types
      <4>2. [link[op.link] EXCEPT !.state = "revoked"] \in Link
        BY <4>1 DEF Link, LinkStates
      <4> QED
        BY <2>1, <4>1, <4>2 DEF Revoked
    <3>2. [Revoked(op.of) EXCEPT ![op.link].state = "used"] \in [Links -> Link \cup {None}]
      <4>1. [Revoked(op.of)[op.link] EXCEPT !.state = "used"] \in Link
        BY <3>1 DEF Link, LinkStates
      <4> HIDE DEF op
      <4> QED
        BY <2>1, <4>1, RevokedType
    <3>3. person[op.of].password + 1 \in Nat
      BY <2>1 DEF Types, Person
    <3>4. [kind |-> "sign in", of |-> op.of, late |-> FALSE,
           password |-> person[op.of].password + 1] \in Operation
      BY <2>1, <3>3 DEF Operation
    <3>5. work' \in [Workers -> Operation]
      BY <1>1, <2>2, <3>4 DEF Activate, Types
    <3>6. person' \in [Users -> Person]
      <4> DEFINE p == [person[op.of] EXCEPT !.activated = TRUE]
                 q == [p EXCEPT !.password = person[op.of].password + 1]
      <4>1. person[op.of] \in Person
        BY <2>1 DEF Types
      <4>2. p \in Person
        BY <4>1, PersonFields
      <4>3. q \in Person
        <5> HIDE DEF p
        <5> QED
          BY <3>3, <4>2, PersonFields
      <4>4. person' = [person EXCEPT ![op.of] = q]
        BY <1>1, <2>1, <2>2, <4>1 DEF Activate, Types
      <4> HIDE DEF q
      <4> QED
        BY <4>3, <4>4 DEF Types
    <3> QED
      BY <1>1, <2>2, <3>2, <3>5, <3>6 DEF Activate, Types, leads
  <2>3. CASE ~StillUsable(w)
    BY <1>1, <2>3, DoneWork DEF Activate, Types, leads
  <2> QED
    BY <2>2, <2>3
<1>2. CASE OpenSession(w)
  <2>1. op.of \in Users /\ op.password \in Nat
    BY <1>0, <1>2, OperationFields DEF OpenSession
  <2> DEFINE s == Min({x \in Sessions : session[x] = None})
  <2>2. s \in Sessions
    BY <1>2, FreeSession DEF OpenSession, Open
  <2>3. [of |-> op.of, password |-> op.password, live |-> TRUE] \in Session
    BY <2>1 DEF Session
  <2>4. session' \in [Sessions -> Session \cup {None}] /\ late' \subseteq Sessions
    <3>1. session' = [session EXCEPT ![s] = [of |-> op.of, password |-> op.password,
                                             live |-> TRUE]]
          /\ late' \in {late, late \cup {s}}
      BY <1>2 DEF OpenSession, Open
    <3> HIDE DEF s, op
    <3> QED
      BY <2>2, <2>3, <3>1 DEF Types
  <2>5. work' \in [Workers -> Operation]
    BY <1>2, DoneWork DEF OpenSession, Open
  <2> QED
    BY <1>2, <2>4, <2>5 DEF OpenSession, Types, leads
<1>3. CASE WritePassword(w)
  <2>1. op.of \in Users /\ op.kind = "password" /\ op \in Operation
    BY <1>0, <1>3, OperationFields DEF WritePassword
  <2>2. person' \in [Users -> Person]
    <3>1. person[op.of].password + 1 \in Nat
      BY <2>1 DEF Types, Person
    <3> QED
      BY <1>3, <2>1, <3>1, ZenonT(40) DEF WritePassword, Types, Person
  <2>3. [op EXCEPT !.at = "end"] \in Operation
    <3>1. op \in [kind : {"password"}, at : {"write", "end"}, of : Users, late : BOOLEAN]
      BY <2>1, OperationCases
    <3>2. [op EXCEPT !.at = "end"]
            \in [kind : {"password"}, at : {"write", "end"}, of : Users, late : BOOLEAN]
      BY <3>1
    <3> QED
      BY <3>2 DEF Operation
  <2>4. work' \in [Workers -> Operation]
    <3> DEFINE W == Overtaken(op.of, w)
    <3>1. W \in [Workers -> Operation] /\ W[w] = op
      <4>1. work[w].of \in Users
        BY <2>1
      <4>2. /\ Overtaken(work[w].of, w) \in [Workers -> Operation]
            /\ Overtaken(work[w].of, w)[w] = work[w]
        BY <4>1, OvertakenFields
      <4> QED
        BY <4>2
    <3>2. work' = [W EXCEPT ![w] = [W[w] EXCEPT !.at = "end"]]
      BY <1>3 DEF WritePassword
    <3> HIDE DEF W, op
    <3> QED
      BY <2>3, <3>1, <3>2
  <2> QED
    BY <1>3, <2>2, <2>4 DEF WritePassword, Types, access, leads
<1>4. CASE EndSessions(w)
  <2>1. op.of \in Users /\ op.late \in BOOLEAN
    BY <1>0, <1>4, OperationFields DEF EndSessions
  <2>2. [kind |-> "sign in", of |-> op.of, late |-> op.late,
         password |-> person[op.of].password] \in Operation
    BY <2>1 DEF Operation, Types, Person
  <2>3. work' \in [Workers -> Operation]
    BY <1>4, <2>2 DEF EndSessions, Types
  <2>4. session' \in [Sessions -> Session \cup {None}]
    BY <1>4, <2>1, SessionsEndedType DEF EndSessions
  <2> QED
    BY <1>4, <2>3, <2>4 DEF EndSessions, Types, leads
<1>5. CASE CommitEnd(w)
  <2>1. op.of \in Users /\ op.to \in Users \cup {None} /\ op.moving \in Moving
    BY <1>0, <1>5, OperationFields DEF CommitEnd
  <2>2. person' \in [Users -> Person]
    BY <1>5, EndedPerson
  <2>3. \A f \in Files : HandedOver(f, op) \in [Users -> {"no", "holds", "primary"}]
    <3> TAKE f \in Files
    <3>1. held[f] \in [Users -> {"no", "holds", "primary"}]
      BY DEF Types
    <3> HIDE DEF op
    <3> QED
      BY <3>1 DEF HandedOver
  <2>4. held' \in [Files -> [Users -> {"no", "holds", "primary"}]]
    BY <1>5, <2>3 DEF CommitEnd, Types
  <2>5. link' \in [Links -> Link \cup {None}] /\ session' \in [Sessions -> Session \cup {None}]
    <3>1. Revoked(op.of) \in [Links -> Link \cup {None}]
          /\ SessionsEnded(op.of) \in [Sessions -> Session \cup {None}]
      BY <2>1, RevokedType, SessionsEndedType
    <3> QED
      BY <1>5, <3>1 DEF CommitEnd, Types
  <2>6. strayed' \subseteq Files
    <3>1. strayed' \subseteq strayed \cup OpenFiles(op.of) \cup DOMAIN op.moving
      BY <1>5 DEF CommitEnd
    <3>2. DOMAIN op.moving \subseteq Files /\ OpenFiles(op.of) \subseteq Files
      BY <2>1 DEF Moving, OpenFiles
    <3> QED
      BY <3>1, <3>2 DEF Types
  <2>7. crossed' \in BOOLEAN /\ passed' \in [Users -> Nat]
    BY <1>5 DEF CommitEnd, Types
  <2>8. work' \in [Workers -> Operation]
    <3>1. Overtaken(op.of, w) \in [Workers -> Operation] /\ Idle \in Operation
      BY <2>1, OvertakenFields DEF Operation
    <3> QED
      BY <1>5, <3>1 DEF CommitEnd, Types
  <2> QED
    BY <1>5, <2>2, <2>4, <2>5, <2>6, <2>7, <2>8 DEF CommitEnd, Types
<1>6. CASE Assign(w)
  <2>1. op.of \in Users /\ op.file \in Files
    BY <1>0, <1>6, OperationFields DEF Assign
  <2>2. Primary(op.file, op.of) \in [Users -> {"no", "holds", "primary"}]
    BY <2>1 DEF Primary, Types
  <2>3. /\ file' \in [Files -> {"none", "open", "closed"}]
        /\ held' \in [Files -> [Users -> {"no", "holds", "primary"}]]
    BY <1>6, <2>1, <2>2 DEF Assign, Types
  <2>4. strayed' \subseteq Files
    BY <1>6, <2>1 DEF Assign, Types
  <2>5. work' \in [Workers -> Operation]
    BY <1>6, DoneWork DEF Assign
  <2> QED
    BY <1>6, <2>3, <2>4, <2>5 DEF Assign, Types, access
<1>7. CASE CommitLead(w)
  <2>1. op.of \in Users /\ op.file \in Files /\ op.stamp \in Nat
    BY <1>0, <1>7, OperationFields DEF CommitLead
  <2>2. Primary(op.file, op.of) \in [Users -> {"no", "holds", "primary"}]
    BY <2>1 DEF Primary, Types
  <2>3. /\ file' \in [Files -> {"none", "open", "closed"}]
        /\ held' \in [Files -> [Users -> {"no", "holds", "primary"}]]
    BY <1>7, <2>1, <2>2 DEF CommitLead, Types
  <2>4. person' \in [Users -> Person]
    <3>1. person[op.of] \in Person
      BY <2>1 DEF Types
    <3>2. [person[op.of] EXCEPT !.stamp = op.stamp] \in Person
      BY <2>1, <3>1, PersonFields
    <3> QED
      BY <1>7, <2>1, <3>2 DEF CommitLead, Types
  <2>5. passed' \in [Users -> Nat]
    BY <1>7 DEF CommitLead, Types
  <2>6. work' \in [Workers -> Operation]
    BY <1>7, DoneWork DEF CommitLead
  <2> QED
    BY <1>7, <2>3, <2>4, <2>5, <2>6 DEF CommitLead, Types, access
<1>8. CASE Fail(w)
  BY <1>8, DoneWork DEF Fail, Types, leads
<1> QED
  BY <1>1, <1>2, <1>3, <1>4, <1>5, <1>6, <1>7, <1>8 DEF WorkStep

LEMMA NextTypes ==
  ASSUME Types, ActivationNamesItsLink, Next
  PROVE  Types'
<1>1. ASSUME NEW u \in Users, NEW admin \in BOOLEAN, NEW rotation \in BOOLEAN,
             CreateStaff(u, admin, rotation)
      PROVE  Types'
  <2>1. [Account("active", FALSE, admin) EXCEPT !.rotation = rotation] \in Person
    BY DEF Account, Person, States
  <2>2. person' \in [Users -> Person]
    BY <1>1, <2>1 DEF CreateStaff, Types
  <2>3. link' \in [Links -> Link \cup {None}] /\ steps' \in 0 .. MaxSteps
    BY <1>1, IssueType, AskedSteps DEF CreateStaff
  <2> QED
    BY <1>1, <2>2, <2>3 DEF CreateStaff, Types, leads
<1>2. ASSUME NEW u \in Users, ResendInvitation(u) PROVE Types'
  <2>1. link' \in [Links -> Link \cup {None}] /\ steps' \in 0 .. MaxSteps
    BY <1>2, IssueType, AskedSteps DEF ResendInvitation
  <2> QED
    BY <1>2, <2>1 DEF ResendInvitation, Types, leads
<1>3. ASSUME NEW u \in Users, Reactivate(u) PROVE Types'
  <2>1. [person[u] EXCEPT !.state = "active"] \in Person
    BY PersonFields DEF Types, States
  <2>2. steps' \in 0 .. MaxSteps
    BY <1>3, AskedSteps DEF Reactivate
  <2> QED
    BY <1>3, <2>1, <2>2 DEF Reactivate, Types, leads, access
<1>4. ASSUME NEW u \in Users, MakeAdmin(u) PROVE Types'
  <2>1. [person[u] EXCEPT !.admin = TRUE] \in Person
    BY PersonFields DEF Types
  <2>2. steps' \in 0 .. MaxSteps
    BY <1>4, AskedSteps DEF MakeAdmin
  <2> QED
    BY <1>4, <2>1, <2>2 DEF MakeAdmin, Types, leads, access
<1>5. ASSUME NEW u \in Users, NEW on \in BOOLEAN, SetRotation(u, on) PROVE Types'
  <2>1. [person[u] EXCEPT !.rotation = on] \in Person
    BY PersonFields DEF Types
  <2>2. steps' \in 0 .. MaxSteps
    BY <1>5, AskedSteps DEF SetRotation
  <2> QED
    BY <1>5, <2>1, <2>2 DEF SetRotation, Types, access
<1>6. ASSUME NEW on \in BOOLEAN, SetRoundRobin(on) PROVE Types'
  <2>1. steps' \in 0 .. MaxSteps
    BY <1>6, AskedSteps DEF SetRoundRobin
  <2> QED
    BY <1>6, <2>1 DEF SetRoundRobin, Types, access
<1>7. ASSUME NEW i \in Links, Expire(i) PROVE Types'
  <2>1. link[i] \in Link
    BY <1>7 DEF Expire, Types
  <2>2. [link[i] EXCEPT !.state = "expired"] \in Link
    BY <2>1 DEF Link, LinkStates
  <2> QED
    BY <1>7, <2>2 DEF Expire, Types, leads
<1>8. ASSUME NEW s \in Sessions, Refuse(s) \/ SignOut(s) PROVE Types'
  <2>1. session[s] \in Session
    BY <1>8 DEF Refuse, SignOut, Accepted, Types
  <2>2. [session[s] EXCEPT !.live = FALSE] \in Session
    BY <2>1 DEF Session
  <2>3. steps' \in 0 .. MaxSteps
    BY <1>8, AskedSteps DEF Refuse, SignOut, Types
  <2> QED
    BY <1>8, <2>2, <2>3 DEF Refuse, SignOut, Types, leads
<1>9. ASSUME NEW f \in Files, LeadForNobody(f) \/ Close(f) \/ Reopen(f) PROVE Types'
  <2>1. steps' \in 0 .. MaxSteps
    BY <1>9, AskedSteps DEF LeadForNobody, Close, Reopen
  <2> QED
    BY <1>9, <2>1 DEF LeadForNobody, Close, Reopen, Types, access
<1>10. ASSUME NEW w \in Workers, AskStep(w) \/ WorkStep(w) PROVE Types'
  BY <1>10, AskTypes, WorkTypes
<1> QED
  BY <1>1, <1>2, <1>3, <1>4, <1>5, <1>6, <1>7, <1>8, <1>9, <1>10 DEF Next

-----------------------------------------------------------------------------
(* The row of an account is locked by one request at a time, and the       *)
(* account stays there while it is.                                        *)
LocksExclude ==
  \A v, w \in Workers, u \in Users : Locks(v, u) /\ Locks(w, u) => v = w

LockedIsThere ==
  \A w \in Workers : work[w].kind \in {"end", "claim"} => person[work[w].of].state # "none"

-----------------------------------------------------------------------------
(* Ways in: links and sessions.                                            *)

(* Who was never created never did anything.                               *)
NoneIsNobody ==
  \A u \in Users : person[u].state = "none" => ~person[u].activated /\ person[u].stamp = 0

(* An account that is not activated has no session and none on the way.    *)
NothingBeforeActivation ==
  \A u \in Users : ~person[u].activated =>
    /\ \A s \in Sessions : session[s] # None => session[s].of # u
    /\ \A w \in Workers : work[w].kind \in {"sign in", "password"} => work[w].of # u

(* A sign-in that nothing overtook has what the account has.               *)
SignInsAreCurrent ==
  \A w \in Workers : work[w].kind \in {"sign in", "password"} /\ ~work[w].late =>
    /\ person[work[w].of].state = "active"
    /\ work[w].kind = "sign in" => work[w].password = person[work[w].of].password

AccessInv ==
  /\ Types /\ ActivationNamesItsLink /\ NoneIsNobody /\ OneWorkingLink
  /\ NothingBeforeActivation /\ SignInsAreCurrent /\ SessionsEndWithAccess

(* What a link becomes when the links of an account are revoked ...        *)
LEMMA RevokedFields ==
  ASSUME Types, NEW u \in Users, NEW i \in Links
  PROVE  /\ link[i] = None => Revoked(u)[i] = None
         /\ link[i] # None =>
              /\ Revoked(u)[i] # None /\ Revoked(u)[i].of = link[i].of
              /\ Revoked(u)[i].state = "live" => link[i].state = "live" /\ link[i].of # u
<1>1. CASE link[i] = None
  BY <1>1 DEF Revoked
<1>2. CASE link[i] # None
  <2>1. link[i] \in Link
    BY <1>2 DEF Types
  <2>2. [link[i] EXCEPT !.state = "revoked"] \in Link
    BY <2>1 DEF Link, LinkStates
  <2>3. Revoked(u)[i] \in Link
    BY <2>1, <2>2 DEF Revoked
  <2>4. Revoked(u)[i] # None
    BY <2>3, StaffAssumption
  <2>5. /\ Revoked(u)[i].of = link[i].of
        /\ Revoked(u)[i].state = "live" => link[i].state = "live" /\ link[i].of # u
    BY <1>2, <2>1 DEF Revoked, Link
  <2> QED
    BY <1>2, <2>4, <2>5
<1> QED
  BY <1>1, <1>2

(* ... and when it is sent a new one.                                      *)
LEMMA IssueFields ==
  ASSUME Types, NEW u \in Users, IssueInvitation(u)
  PROVE  \E j \in Links : /\ link[j] = None /\ link'[j] = [of |-> u, state |-> "live"]
                          /\ link'[j] # None
                          /\ \A i \in Links \ {j} : link'[i] = Revoked(u)[i]
<1> DEFINE j == Min({i \in Links : link[i] = None})
<1>1. j \in Links /\ link[j] = None
  BY FreeLink DEF IssueInvitation
<1>2. [of |-> u, state |-> "live"] \in Link
  BY DEF Link, LinkStates
<1>3. link' = [Revoked(u) EXCEPT ![j] = [of |-> u, state |-> "live"]]
  BY DEF IssueInvitation
<1> HIDE DEF j
<1>4. /\ link'[j] = [of |-> u, state |-> "live"]
      /\ \A i \in Links \ {j} : link'[i] = Revoked(u)[i]
  BY <1>1, <1>3, RevokedType
<1>5. link'[j] # None
  BY <1>2, <1>4, StaffAssumption
<1> QED
  BY <1>1, <1>4, <1>5

LEMMA SessionsEndedFields ==
  ASSUME Types, NEW u \in Users, NEW s \in Sessions
  PROVE  /\ session[s] = None => SessionsEnded(u)[s] = None
         /\ session[s] # None =>
              /\ SessionsEnded(u)[s] # None /\ SessionsEnded(u)[s].of = session[s].of
              /\ SessionsEnded(u)[s].password = session[s].password
              /\ SessionsEnded(u)[s].live => session[s].live /\ session[s].of # u
<1>1. CASE session[s] = None
  BY <1>1 DEF SessionsEnded
<1>2. CASE session[s] # None
  <2>1. session[s] \in Session
    BY <1>2 DEF Types
  <2>2. [session[s] EXCEPT !.live = FALSE] \in Session
    BY <2>1 DEF Session
  <2>3. SessionsEnded(u)[s] \in Session
    BY <2>1, <2>2 DEF SessionsEnded
  <2>4. SessionsEnded(u)[s] # None
    BY <2>3, StaffAssumption
  <2>5. /\ SessionsEnded(u)[s].of = session[s].of
        /\ SessionsEnded(u)[s].password = session[s].password
        /\ SessionsEnded(u)[s].live => session[s].live /\ session[s].of # u
    BY <1>2, <2>1 DEF SessionsEnded, Session
  <2> QED
    BY <1>2, <2>4, <2>5
<1> QED
  BY <1>1, <1>2

(* A step that changes nobody's ways in.                                   *)
AccessQuiet ==
  /\ UNCHANGED access
  /\ \A u \in Users : /\ person'[u].state = person[u].state
                      /\ person'[u].activated = person[u].activated
                      /\ person'[u].password = person[u].password
                      /\ person[u].state = "none" => person'[u].stamp = person[u].stamp
  /\ \A w \in Workers :
       \/ work'[w] = work[w]
       \/ /\ work'[w].kind \notin {"activate", "sign in", "password"}
          /\ work[w].kind # "password" \/ work[w].at # "end"

LEMMA QuietAccess ==
  ASSUME AccessInv, Types', AccessQuiet
  PROVE  AccessInv'
<1>1. \A w \in Workers : work[w] \in Operation
  BY DEF AccessInv, Types
<1>2. /\ ActivationNamesItsLink /\ NoneIsNobody /\ OneWorkingLink
      /\ NothingBeforeActivation /\ SignInsAreCurrent /\ SessionsEndWithAccess
      /\ link' = link /\ session' = session /\ late' = late
      /\ link \in [Links -> Link \cup {None}] /\ session \in [Sessions -> Session \cup {None}]
  BY DEF AccessInv, AccessQuiet, access, Types
<1>3. ActivationNamesItsLink'
  BY <1>2 DEF AccessQuiet, ActivationNamesItsLink
<1>4. NoneIsNobody'
  BY <1>2 DEF AccessQuiet, NoneIsNobody
<1>5. OneWorkingLink'
  <2>1. \A i \in Links : link[i] # None => link[i].of \in Users
    BY <1>2 DEF Link
  <2> QED
    BY <1>2, <2>1 DEF AccessQuiet, OneWorkingLink
<1>6. NothingBeforeActivation'
  BY <1>2 DEF AccessQuiet, NothingBeforeActivation
<1>7. SignInsAreCurrent'
  <2>1. \A w \in Workers : work[w].kind \in {"sign in", "password"} => work[w].of \in Users
    BY <1>1, OperationFields
  <2> SUFFICES ASSUME NEW w \in Workers, work'[w].kind \in {"sign in", "password"},
                      ~work'[w].late
               PROVE  /\ person'[work'[w].of].state = "active"
                      /\ work'[w].kind = "sign in" =>
                           work'[w].password = person'[work'[w].of].password
    BY DEF SignInsAreCurrent
  <2>2. work'[w] = work[w]
    BY DEF AccessQuiet
  <2>3. /\ person[work[w].of].state = "active" /\ work[w].of \in Users
        /\ work[w].kind = "sign in" => work[w].password = person[work[w].of].password
    BY <1>2, <2>1, <2>2 DEF SignInsAreCurrent
  <2> QED
    BY <2>2, <2>3 DEF AccessQuiet
<1>8. SessionsEndWithAccess'
  <2>1. \A s \in Sessions : session[s] # None => session[s].of \in Users
    BY <1>2 DEF Session
  <2>2. \A w \in Workers : work[w].kind = "password" /\ work[w].at = "end" => work'[w] = work[w]
    BY DEF AccessQuiet
  <2> SUFFICES ASSUME NEW s \in Sessions \ late, session[s] # None, session[s].live
               PROVE  /\ person'[session[s].of].state = "active"
                      /\ \/ session[s].password = person'[session[s].of].password
                         \/ \E w \in Workers : work'[w].kind = "password" /\ work'[w].at = "end"
                                /\ work'[w].of = session[s].of
    BY <1>2 DEF SessionsEndWithAccess
  <2>3. /\ person[session[s].of].state = "active" /\ session[s].of \in Users
        /\ \/ session[s].password = person[session[s].of].password
           \/ \E w \in Workers : work[w].kind = "password" /\ work[w].at = "end"
                  /\ work[w].of = session[s].of
    BY <1>2, <2>1 DEF SessionsEndWithAccess
  <2>4. /\ person'[session[s].of].state = person[session[s].of].state
        /\ person'[session[s].of].password = person[session[s].of].password
    BY <2>3 DEF AccessQuiet
  <2> QED
    BY <2>2, <2>3, <2>4
<1> QED
  BY <1>3, <1>4, <1>5, <1>6, <1>7, <1>8 DEF AccessInv

LEMMA AskIsQuiet ==
  ASSUME Types, NEW w \in Workers, NEW op, Start(w, op), UNCHANGED <<person, access>>,
         op.kind \notin {"activate", "sign in", "password"}
  PROVE  AccessQuiet
BY StartWork DEF AccessQuiet

LEMMA DoneIsQuiet ==
  ASSUME Types, NEW w \in Workers, Done(w), UNCHANGED access,
         work[w].kind # "password" \/ work[w].at # "end",
         \A u \in Users : /\ person'[u].state = person[u].state
                          /\ person'[u].activated = person[u].activated
                          /\ person'[u].password = person[u].password
                          /\ person[u].state = "none" => person'[u].stamp = person[u].stamp
  PROVE  AccessQuiet
BY DoneWork DEF AccessQuiet

(* Leads, roles and turns.                                                 *)
LEMMA LeadStepsAreQuiet ==
  ASSUME AccessInv, LockedIsThere, Types',
         \/ \E w \in Workers :
              \/ \E how \in {"deactivate", "delete", "change role"}, actor, u \in Users,
                     to \in Users \cup {None} : LockTarget(w, how, actor, u, to)
              \/ \E f \in Files, u \in Users : AskAssign(w, f, u) \/ ClaimNext(w, f, u)
              \/ Assign(w) \/ CommitLead(w)
              \/ CommitEnd(w) /\ work[w].how = "change role"
              \/ Activate(w) /\ ~StillUsable(w)
              \/ Fail(w) /\ ~(work[w].kind = "password" /\ work[w].at = "end")
         \/ \E u \in Users : MakeAdmin(u) \/ \E on \in BOOLEAN : SetRotation(u, on)
         \/ \E on \in BOOLEAN : SetRoundRobin(on)
         \/ \E f \in Files : LeadForNobody(f) \/ Close(f) \/ Reopen(f)
         \/ UNCHANGED vars
  PROVE  AccessQuiet
<1> Types /\ \A u \in Users : person[u] \in Person
  BY DEF AccessInv, Types
<1>0. \A u \in Users : /\ person[u].state = person[u].state
                        /\ person[u].activated = person[u].activated
  OBVIOUS
<1>1. ASSUME NEW w \in Workers, NEW how \in {"deactivate", "delete", "change role"}, 
             NEW actor \in Users, NEW u \in Users, NEW to \in Users \cup {None},
             LockTarget(w, how, actor, u, to)
      PROVE  AccessQuiet
  BY <1>1, AskIsQuiet DEF LockTarget
<1>2. ASSUME NEW w \in Workers, NEW f \in Files, NEW u \in Users,
             AskAssign(w, f, u) \/ ClaimNext(w, f, u)
      PROVE  AccessQuiet
  <2>1. CASE AskAssign(w, f, u)
    BY <2>1, AskIsQuiet DEF AskAssign
  <2>2. CASE ClaimNext(w, f, u)
    BY <2>2, AskIsQuiet DEF ClaimNext
  <2> QED
    BY <1>2, <2>1, <2>2
<1>3. ASSUME NEW w \in Workers, Assign(w)
      PROVE  AccessQuiet
  BY <1>3, DoneIsQuiet DEF Assign
<1>4. ASSUME NEW w \in Workers, CommitLead(w)
      PROVE  AccessQuiet
  <2> DEFINE op == work[w]
  <2>1. op.of \in Users /\ op.kind = "claim"
    BY <1>4, OperationFields DEF CommitLead, Types
  <2>2. person[op.of].state # "none"
    BY <2>1 DEF LockedIsThere
  <2>3. person' = [person EXCEPT ![op.of].stamp = op.stamp] /\ Done(w) /\ UNCHANGED access
    BY <1>4 DEF CommitLead
  <2>4. ASSUME NEW u \in Users
        PROVE  /\ person'[u].state = person[u].state
               /\ person'[u].activated = person[u].activated
               /\ person'[u].password = person[u].password
               /\ person[u].state = "none" => person'[u].stamp = person[u].stamp
    <3> HIDE DEF op
    <3>1. person'[u] \in {person[u], [person[u] EXCEPT !.stamp = op.stamp]}
          /\ (u # op.of => person'[u] = person[u])
      BY <2>3 DEF Types
    <3> QED
      BY <2>2, <3>1 DEF Person
  <2> QED
    BY <2>1, <2>3, <2>4, DoneIsQuiet
<1>5. ASSUME NEW w \in Workers, CommitEnd(w) /\ work[w].how = "change role"
      PROVE  AccessQuiet
  <2> DEFINE op == work[w]
  <2>1. op.of \in Users /\ op.kind = "end"
    BY <1>5, OperationFields DEF CommitEnd, Types
  <2>2. ASSUME NEW u \in Users
        PROVE  /\ person'[u].state = person[u].state
               /\ person'[u].activated = person[u].activated
               /\ person'[u].password = person[u].password
               /\ person[u].state = "none" => person'[u].stamp = person[u].stamp
    BY <1>5, EndedPerson
  <2>3. Done(w) /\ UNCHANGED access
    BY <1>5 DEF CommitEnd, Done, access
  <2> QED
    BY <2>1, <2>2, <2>3, DoneIsQuiet
<1>6. ASSUME NEW u \in Users, MakeAdmin(u) PROVE AccessQuiet
  BY <1>6, ZenonT(40) DEF MakeAdmin, AccessQuiet, Types, Person
<1>7. ASSUME NEW u \in Users, NEW on \in BOOLEAN, SetRotation(u, on) PROVE AccessQuiet
  BY <1>7, ZenonT(40) DEF SetRotation, AccessQuiet, Types, Person
<1>8. ASSUME NEW on \in BOOLEAN, SetRoundRobin(on) PROVE AccessQuiet
  BY <1>8 DEF SetRoundRobin, AccessQuiet
<1>9. ASSUME NEW f \in Files, LeadForNobody(f) \/ Close(f) \/ Reopen(f) PROVE AccessQuiet
  BY <1>9 DEF LeadForNobody, Close, Reopen, AccessQuiet
<1>10. ASSUME NEW w \in Workers, Activate(w) /\ ~StillUsable(w)
      PROVE  AccessQuiet
  BY <1>10, DoneIsQuiet DEF Activate, access
<1>11. ASSUME NEW w \in Workers, Fail(w) /\ ~(work[w].kind = "password" /\ work[w].at = "end")
      PROVE  AccessQuiet
  BY <1>11, DoneIsQuiet DEF Fail, access
<1>12. CASE UNCHANGED vars
  BY <1>12 DEF vars, AccessQuiet, access
<1> QED
  BY <1>1, <1>2, <1>3, <1>4, <1>5, <1>6, <1>7, <1>8, <1>9, <1>10, <1>11, <1>12

(* The sessions that stay open after a step whose account it left alone.   *)
LEMMA SessionsKept ==
  ASSUME AccessInv,
         \A s \in Sessions \ late' : session'[s] # None /\ session'[s].live =>
           /\ s \notin late /\ session[s] # None /\ session[s].live
           /\ session'[s].of = session[s].of /\ session'[s].password = session[s].password
           /\ person'[session[s].of].state = person[session[s].of].state
           /\ person'[session[s].of].password = person[session[s].of].password
           /\ \A v \in Workers :
                work[v].kind = "password" /\ work[v].at = "end" /\ work[v].of = session[s].of =>
                  work'[v].kind = "password" /\ work'[v].at = "end" /\ work'[v].of = work[v].of
  PROVE  SessionsEndWithAccess'
<1> SUFFICES ASSUME NEW s \in Sessions \ late', session'[s] # None, session'[s].live
             PROVE  /\ person'[session'[s].of].state = "active"
                    /\ \/ session'[s].password = person'[session'[s].of].password
                       \/ \E w \in Workers : work'[w].kind = "password" /\ work'[w].at = "end"
                              /\ work'[w].of = session'[s].of
  BY DEF SessionsEndWithAccess
<1>1. /\ s \in Sessions \ late /\ session[s] # None /\ session[s].live
      /\ session'[s].of = session[s].of /\ session'[s].password = session[s].password
      /\ person'[session[s].of].state = person[session[s].of].state
      /\ person'[session[s].of].password = person[session[s].of].password
  OBVIOUS
<1>2. \A v \in Workers :
        work[v].kind = "password" /\ work[v].at = "end" /\ work[v].of = session[s].of =>
          work'[v].kind = "password" /\ work'[v].at = "end" /\ work'[v].of = work[v].of
  OBVIOUS
<1>3. /\ person[session[s].of].state = "active"
      /\ \/ session[s].password = person[session[s].of].password
         \/ \E w \in Workers : work[w].kind = "password" /\ work[w].at = "end"
                /\ work[w].of = session[s].of
  BY <1>1 DEF AccessInv, SessionsEndWithAccess
<1> QED
  BY <1>1, <1>2, <1>3

(* ... and the sign-ins that stay under way.                               *)
LEMMA SignInsKept ==
  ASSUME AccessInv,
         \A w \in Workers : work'[w].kind \in {"sign in", "password"} /\ ~work'[w].late =>
           \/ /\ work'[w] = work[w]
              /\ person'[work[w].of].state = person[work[w].of].state
              /\ person'[work[w].of].password = person[work[w].of].password
           \/ /\ person'[work'[w].of].state = "active"
              /\ work'[w].kind = "sign in" => work'[w].password = person'[work'[w].of].password
  PROVE  SignInsAreCurrent'
<1> SUFFICES ASSUME NEW w \in Workers, work'[w].kind \in {"sign in", "password"},
                    ~work'[w].late
             PROVE  /\ person'[work'[w].of].state = "active"
                    /\ work'[w].kind = "sign in" =>
                         work'[w].password = person'[work'[w].of].password
  BY DEF SignInsAreCurrent
<1>1. CASE /\ work'[w] = work[w]
           /\ person'[work[w].of].state = person[work[w].of].state
           /\ person'[work[w].of].password = person[work[w].of].password
  <2>1. /\ person[work[w].of].state = "active"
        /\ work[w].kind = "sign in" => work[w].password = person[work[w].of].password
    BY <1>1 DEF AccessInv, SignInsAreCurrent
  <2> QED
    BY <1>1, <2>1
<1>2. CASE /\ person'[work'[w].of].state = "active"
           /\ work'[w].kind = "sign in" => work'[w].password = person'[work'[w].of].password
  BY <1>2
<1> QED
  BY <1>1, <1>2

LEMMA NothingKept ==
  ASSUME \A s \in Sessions : session'[s] # None => person'[session'[s].of].activated,
         \A w \in Workers : work'[w].kind \in {"sign in", "password"} =>
           person'[work'[w].of].activated
  PROVE  NothingBeforeActivation'
BY DEF NothingBeforeActivation

LEMMA NamesKept ==
  ASSUME AccessInv,
         \A i \in Links : link[i] # None => link'[i] # None /\ link'[i].of = link[i].of,
         \A w \in Workers : work'[w].kind = "activate" => work'[w] = work[w]
  PROVE  ActivationNamesItsLink'
<1> SUFFICES ASSUME NEW w \in Workers, work'[w].kind = "activate"
             PROVE  link'[work'[w].link] # None /\ link'[work'[w].link].of = work'[w].of
  BY DEF ActivationNamesItsLink
<1>1. work'[w] = work[w] /\ work[w].kind = "activate"
  OBVIOUS
<1>2. work[w].link \in Links
  BY <1>1, OperationFields DEF AccessInv, Types
<1>3. link[work[w].link] # None /\ link[work[w].link].of = work[w].of
  BY <1>1 DEF AccessInv, ActivationNamesItsLink
<1> QED
  BY <1>1, <1>2, <1>3

LEMMA OneKept ==
  ASSUME AccessInv,
         \A i \in Links : link'[i] # None =>
           /\ link[i] # None /\ link'[i].of = link[i].of
           /\ link'[i].state = "live" =>
                /\ link[i].state = "live"
                /\ person'[link[i].of].state = person[link[i].of].state
                /\ person'[link[i].of].activated = person[link[i].of].activated
  PROVE  OneWorkingLink'
<1> SUFFICES ASSUME NEW i \in Links, link'[i] # None, link'[i].state = "live"
             PROVE  /\ person'[link'[i].of].state = "active" /\ ~person'[link'[i].of].activated
                    /\ \A j \in Links \ {i} : link'[j] # None /\ link'[j].of = link'[i].of =>
                         link'[j].state # "live"
  BY DEF OneWorkingLink
<1>1. link[i] # None /\ link[i].state = "live" /\ link'[i].of = link[i].of
  OBVIOUS
<1>2. /\ person[link[i].of].state = "active" /\ ~person[link[i].of].activated
      /\ \A j \in Links \ {i} : link[j] # None /\ link[j].of = link[i].of =>
           link[j].state # "live"
  BY <1>1 DEF AccessInv, OneWorkingLink
<1>3. person'[link'[i].of].state = "active" /\ ~person'[link'[i].of].activated
  BY <1>1, <1>2
<1>4. ASSUME NEW j \in Links \ {i}, link'[j] # None, link'[j].of = link'[i].of
      PROVE  link'[j].state # "live"
  BY <1>1, <1>2, <1>4
<1> QED
  BY <1>3, <1>4

(* A request that only begins.                                             *)
LEMMA AskAccess ==
  ASSUME AccessInv, Types', NEW w \in Workers, NEW op, Start(w, op), UNCHANGED <<person, access>>,
         op.kind = "activate" => link[op.link] # None /\ link[op.link].of = op.of,
         op.kind \in {"sign in", "password"} =>
           /\ op.of \in Users /\ person[op.of].activated /\ person[op.of].state = "active"
           /\ op.kind = "sign in" => op.password = person[op.of].password
  PROVE  AccessInv'
<1>1. /\ work'[w] = op /\ \A v \in Workers : v # w => work'[v] = work[v]
      /\ work[w].kind = "idle"
  BY StartWork DEF AccessInv
<1>2. person' = person /\ link' = link /\ session' = session /\ late' = late
  BY DEF access
<1>3. ActivationNamesItsLink'
  BY <1>1, <1>2, ZenonT(40) DEF AccessInv, ActivationNamesItsLink
<1>4. NoneIsNobody' /\ OneWorkingLink'
  BY <1>2 DEF AccessInv, NoneIsNobody, OneWorkingLink
<1>5. NothingBeforeActivation'
  BY <1>1, <1>2, ZenonT(40) DEF AccessInv, NothingBeforeActivation
<1>6. SignInsAreCurrent'
  BY <1>1, <1>2, SignInsKept
<1>7. SessionsEndWithAccess'
  BY <1>1, <1>2, SessionsKept
<1> QED
  BY <1>3, <1>4, <1>5, <1>6, <1>7 DEF AccessInv

LEMMA AskStepAccess ==
  ASSUME AccessInv, Types', NEW w \in Workers,
         \/ \E i \in Links : FindInvitation(w, i)
         \/ \E s \in Sessions : AskPassword(w, s)
         \/ \E u \in Users : SignIn(w, u)
  PROVE  AccessInv'
<1>1. ASSUME NEW i \in Links, FindInvitation(w, i) PROVE AccessInv'
  <2> DEFINE op == [kind |-> "activate", link |-> i, of |-> link[i].of]
  <2>1. op.kind = "activate" /\ op.link = i /\ op.of = link[i].of
    OBVIOUS
  <2>2. Start(w, op) /\ UNCHANGED <<person, access>> /\ link[i] # None
    BY <1>1 DEF FindInvitation
  <2> HIDE DEF op
  <2> QED
    BY <2>1, <2>2, AskAccess
<1>2. ASSUME NEW s \in Sessions, AskPassword(w, s) PROVE AccessInv'
  <2> DEFINE op == [kind |-> "password", at |-> "write", of |-> session[s].of, late |-> FALSE]
  <2>1. op.kind = "password" /\ op.of = session[s].of
    OBVIOUS
  <2>2. Start(w, op) /\ UNCHANGED <<person, access>> /\ session[s] # None
        /\ person[session[s].of].state = "active"
    BY <1>2 DEF AskPassword, Accepted
  <2>3. session[s].of \in Users
    BY <2>2 DEF AccessInv, Types, Session
  <2>4. person[session[s].of].activated
    BY <2>2, <2>3 DEF AccessInv, NothingBeforeActivation
  <2> HIDE DEF op
  <2> QED
    BY <2>1, <2>2, <2>3, <2>4, AskAccess
<1>3. ASSUME NEW u \in Users, SignIn(w, u) PROVE AccessInv'
  <2> DEFINE op == [kind |-> "sign in", of |-> u, late |-> FALSE, password |-> person[u].password]
  <2>1. op.kind = "sign in" /\ op.of = u /\ op.password = person[u].password
    OBVIOUS
  <2>2. Start(w, op) /\ UNCHANGED <<person, access>>
        /\ person[u].state = "active" /\ person[u].activated
    BY <1>3 DEF SignIn, Assignable
  <2> HIDE DEF op
  <2> QED
    BY <2>1, <2>2, AskAccess
<1> QED
  BY <1>1, <1>2, <1>3

(* A link that is sent to an account that waits for one.                   *)
LEMMA IssueKeepsOne ==
  ASSUME AccessInv, NEW u \in Users, IssueInvitation(u),
         person'[u].state = "active", ~person'[u].activated,
         \A v \in Users \ {u} : person'[v] = person[v]
  PROVE  /\ OneWorkingLink'
         /\ \A i \in Links : link[i] # None => link'[i] # None /\ link'[i].of = link[i].of
<1> Types /\ OneWorkingLink
  BY DEF AccessInv
<1>1. PICK j \in Links : /\ link[j] = None /\ link'[j] = [of |-> u, state |-> "live"]
                        /\ link'[j] # None
                        /\ \A i \in Links \ {j} : link'[i] = Revoked(u)[i]
  BY IssueFields
<1>2. ASSUME NEW i \in Links \ {j}
      PROVE  /\ link[i] = None => link'[i] = None
             /\ link[i] # None =>
                  /\ link'[i] # None /\ link'[i].of = link[i].of
                  /\ link'[i].state = "live" => link[i].state = "live" /\ link[i].of # u
  BY <1>1, RevokedFields
<1>3. \A i \in Links : link[i] # None => link[i].of \in Users
  BY DEF Types, Link
<1>4. ASSUME NEW i \in Links, link'[i] # None, link'[i].state = "live"
      PROVE  /\ person'[link'[i].of].state = "active" /\ ~person'[link'[i].of].activated
             /\ \A k \in Links \ {i} : link'[k] # None /\ link'[k].of = link'[i].of =>
                  link'[k].state # "live"
  <2>1. CASE i = j
    BY <1>1, <1>2, <2>1
  <2>2. CASE i # j
    <3>1. link[i] # None /\ link[i].state = "live" /\ link'[i].of = link[i].of /\ link[i].of # u
      BY <1>2, <1>4, <2>2
    <3>2. /\ person[link[i].of].state = "active" /\ ~person[link[i].of].activated
          /\ \A k \in Links \ {i} : link[k] # None /\ link[k].of = link[i].of =>
               link[k].state # "live"
      BY <3>1 DEF OneWorkingLink
    <3>3. link'[j].of = u
      BY <1>1
    <3> QED
      BY <1>2, <1>3, <3>1, <3>2, <3>3
  <2> QED
    BY <2>1, <2>2
<1>5. OneWorkingLink'
  BY <1>4 DEF OneWorkingLink
<1>6. ASSUME NEW i \in Links, link[i] # None PROVE link'[i] # None /\ link'[i].of = link[i].of
  BY <1>1, <1>2, <1>6
<1> QED
  BY <1>5, <1>6

(* Links: sent, and expired.                                               *)
LEMMA LinkStepAccess ==
  ASSUME AccessInv, Types',
         \/ \E u \in Users : \/ \E admin, rotation \in BOOLEAN : CreateStaff(u, admin, rotation)
                            \/ ResendInvitation(u)
         \/ \E i \in Links : Expire(i)
  PROVE  AccessInv'
<1> Types
  BY DEF AccessInv
<1>1. ASSUME NEW u \in Users, NEW admin \in BOOLEAN, NEW rotation \in BOOLEAN,
             CreateStaff(u, admin, rotation)
      PROVE  AccessInv'
  <2>1. /\ person[u].state = "none" /\ ~person[u].activated
        /\ session' = session /\ late' = late /\ work' = work /\ IssueInvitation(u)
    BY <1>1 DEF CreateStaff, AccessInv, NoneIsNobody
  <2>2. /\ \A v \in Users \ {u} : person'[v] = person[v]
        /\ person'[u].state = "active" /\ ~person'[u].activated
    BY <1>1 DEF CreateStaff, Account, Types
  <2>3. /\ OneWorkingLink'
        /\ \A i \in Links : link[i] # None => link'[i] # None /\ link'[i].of = link[i].of
    BY <2>1, <2>2, IssueKeepsOne
  <2>4. ActivationNamesItsLink'
    <3>1. \A w \in Workers : work[w].kind = "activate" => work[w].link \in Links
      BY OperationFields DEF Types
    <3> QED
      BY <2>1, <2>3, <3>1 DEF AccessInv, ActivationNamesItsLink
  <2>5. NoneIsNobody'
    BY <2>2 DEF AccessInv, NoneIsNobody
  <2>6. NothingBeforeActivation'
    BY <2>1, <2>2 DEF AccessInv, NothingBeforeActivation
  <2>7. SignInsAreCurrent'
    <3>1. \A w \in Workers : work[w].kind \in {"sign in", "password"} =>
            work[w].of \in Users \ {u}
      BY <2>1, OperationFields DEF AccessInv, NothingBeforeActivation, Types
    <3> QED
      BY <2>1, <2>2, <3>1, SignInsKept
  <2>8. SessionsEndWithAccess'
    <3>1. \A s \in Sessions : session[s] # None => session[s].of \in Users \ {u}
      BY <2>1 DEF AccessInv, NothingBeforeActivation, Types, Session
    <3> QED
      BY <2>1, <2>2, <3>1, SessionsKept
  <2> QED
    BY <2>3, <2>4, <2>5, <2>6, <2>7, <2>8 DEF AccessInv
<1>2. ASSUME UNCHANGED <<person, session, late, work>>, OneWorkingLink',
             \A i \in Links : link[i] # None => link'[i] # None /\ link'[i].of = link[i].of
      PROVE  AccessInv'
  <2>1. ActivationNamesItsLink'
    <3>1. \A w \in Workers : work[w].kind = "activate" => work[w].link \in Links
      BY OperationFields DEF Types
    <3> QED
      BY <1>2, <3>1 DEF AccessInv, ActivationNamesItsLink
  <2>2. NoneIsNobody' /\ NothingBeforeActivation'
    BY <1>2 DEF AccessInv, NoneIsNobody, NothingBeforeActivation
  <2>3. SignInsAreCurrent' /\ SessionsEndWithAccess'
    BY <1>2, SignInsKept, SessionsKept
  <2> QED
    BY <1>2, <2>1, <2>2, <2>3 DEF AccessInv
<1>3. ASSUME NEW u \in Users, ResendInvitation(u) PROVE AccessInv'
  BY <1>2, <1>3, IssueKeepsOne DEF ResendInvitation
<1>4. ASSUME NEW i \in Links, Expire(i) PROVE AccessInv'
  <2>1. link[i] \in Link /\ link' = [link EXCEPT ![i].state = "expired"]
    BY <1>4 DEF Expire, Types
  <2>2. [link[i] EXCEPT !.state = "expired"] \in Link
    BY <2>1 DEF Link, LinkStates
  <2>3. /\ \A j \in Links \ {i} : link'[j] = link[j]
        /\ link'[i].of = link[i].of /\ link'[i].state = "expired"
        /\ link'[i] # None /\ link[i] # None
    BY <2>1, <2>2, StaffAssumption DEF Types, Link
  <2>4. OneWorkingLink'
    BY <1>4, <2>3 DEF Expire, AccessInv, OneWorkingLink
  <2>5. \A j \in Links : link[j] # None => link'[j] # None /\ link'[j].of = link[j].of
    BY <2>3
  <2> QED
    BY <1>2, <1>4, <2>4, <2>5 DEF Expire
<1> QED
  BY <1>1, <1>3, <1>4

(* Sessions: opened, ended and refused.                                    *)
LEMMA SessionStepAccess ==
  ASSUME AccessInv, Types',
         \/ \E w \in Workers :
              \/ OpenSession(w) \/ EndSessions(w)
              \/ Fail(w) /\ work[w].kind = "password" /\ work[w].at = "end"
         \/ \E s \in Sessions : Refuse(s) \/ SignOut(s)
  PROVE  AccessInv'
<1> Types
  BY DEF AccessInv
<1>0. \A v \in Workers : work[v] \in Operation
  BY DEF Types
<1>a. person' = person /\ link' = link
  BY DEF OpenSession, EndSessions, Fail, Refuse, SignOut
<1>b. NoneIsNobody' /\ OneWorkingLink'
  BY <1>a DEF AccessInv, NoneIsNobody, OneWorkingLink
<1>c. \A v \in Workers : work[v].kind \in {"sign in", "password"} => person[work[v].of].activated
  BY <1>0, OperationFields DEF AccessInv, NothingBeforeActivation
<1>d. \A s \in Sessions : session[s] # None => person[session[s].of].activated
  BY DEF AccessInv, NothingBeforeActivation, Types, Session
<1>1. ASSUME NEW w \in Workers, OpenSession(w)
      PROVE  AccessInv'
  <2> DEFINE op == work[w]
             s == Min({x \in Sessions : session[x] = None})
             new == [of |-> op.of, password |-> op.password, live |-> TRUE]
  <2>1. op.kind = "sign in" /\ op.of \in Users /\ op.late \in BOOLEAN
    BY <1>0, <1>1, OperationFields DEF OpenSession
  <2>2. s \in Sessions /\ session[s] = None
    BY <1>1, FreeSession DEF OpenSession, Open
  <2>3. /\ session' = [session EXCEPT ![s] = new] /\ Done(w)
        /\ late' = IF op.late THEN late \cup {s} ELSE late
    BY <1>1 DEF OpenSession, Open
  <2>4. new.of = op.of /\ new.password = op.password
    OBVIOUS
  <2> HIDE DEF s, new
  <2>5. session'[s] = new /\ \A x \in Sessions \ {s} : session'[x] = session[x]
    BY <2>2, <2>3 DEF Types
  <2>6. work'[w].kind = "idle" /\ \A v \in Workers \ {w} : work'[v] = work[v]
    BY <2>3, DoneWork
  <2>7. ActivationNamesItsLink'
    BY <1>a, <2>6 DEF AccessInv, ActivationNamesItsLink
  <2>8. NothingBeforeActivation'
    BY <1>a, <1>c, <1>d, <2>1, <2>4, <2>5, <2>6, NothingKept
  <2>9. SignInsAreCurrent'
    BY <1>a, <2>6, SignInsKept
  <2>10. SessionsEndWithAccess'
    <3> SUFFICES ASSUME NEW x \in Sessions \ late', session'[x] # None, session'[x].live
                 PROVE  /\ person'[session'[x].of].state = "active"
                        /\ \/ session'[x].password = person'[session'[x].of].password
                           \/ \E v \in Workers : work'[v].kind = "password" /\ work'[v].at = "end"
                                  /\ work'[v].of = session'[x].of
      BY DEF SessionsEndWithAccess
    <3>1. CASE x = s
      <4>1. ~op.late
        BY <2>3, <3>1
      <4>2. person[op.of].state = "active" /\ op.password = person[op.of].password
        BY <2>1, <4>1 DEF AccessInv, SignInsAreCurrent
      <4> QED
        BY <1>a, <2>4, <2>5, <3>1, <4>2
    <3>2. CASE x # s
      <4>1. x \in Sessions \ late /\ session'[x] = session[x]
        BY <2>3, <2>5, <3>2
      <4>2. /\ person[session[x].of].state = "active"
            /\ \/ session[x].password = person[session[x].of].password
               \/ \E v \in Workers : work[v].kind = "password" /\ work[v].at = "end"
                      /\ work[v].of = session[x].of
        BY <4>1 DEF AccessInv, SessionsEndWithAccess
      <4>3. \A v \in Workers : work[v].kind = "password" => work'[v] = work[v]
        BY <2>1, <2>6
      <4> QED
        BY <1>a, <4>1, <4>2, <4>3
    <3> QED
      BY <3>1, <3>2
  <2> QED
    BY <1>b, <2>7, <2>8, <2>9, <2>10 DEF AccessInv
<1>2. ASSUME NEW w \in Workers, EndSessions(w)
      PROVE  AccessInv'
  <2> DEFINE op == work[w]
             new == [kind |-> "sign in", of |-> op.of, late |-> op.late,
                     password |-> person[op.of].password]
  <2>1. op.kind = "password" /\ op.of \in Users
    BY <1>0, <1>2, OperationFields DEF EndSessions
  <2>2. /\ new.kind = "sign in" /\ new.of = op.of /\ new.late = op.late
        /\ new.password = person[op.of].password
    OBVIOUS
  <2>3. session' = SessionsEnded(op.of) /\ late' = late /\ work' = [work EXCEPT ![w] = new]
    BY <1>2 DEF EndSessions
  <2>4. work'[w] = new /\ \A v \in Workers \ {w} : work'[v] = work[v]
    <3> HIDE DEF new
    <3> QED
      BY <2>3 DEF Types
  <2>5. \A s \in Sessions :
          /\ session[s] = None => session'[s] = None
          /\ session[s] # None =>
               /\ session'[s] # None /\ session'[s].of = session[s].of
               /\ session'[s].password = session[s].password
               /\ session'[s].live => session[s].live /\ session[s].of # op.of
    BY <2>1, <2>3, SessionsEndedFields
  <2> HIDE DEF new
  <2>6. ActivationNamesItsLink'
    BY <1>a, <2>2, <2>4 DEF AccessInv, ActivationNamesItsLink
  <2>7. NothingBeforeActivation'
    BY <1>a, <1>c, <1>d, <2>1, <2>2, <2>4, <2>5, NothingKept
  <2>8. SignInsAreCurrent'
    <3>1. ~op.late => person[op.of].state = "active"
      BY <2>1 DEF AccessInv, SignInsAreCurrent
    <3> QED
      BY <1>a, <2>2, <2>4, <3>1, SignInsKept
  <2>9. SessionsEndWithAccess'
    BY <1>a, <2>3, <2>4, <2>5, SessionsKept
  <2> QED
    BY <1>b, <2>6, <2>7, <2>8, <2>9 DEF AccessInv
<1>3. ASSUME NEW w \in Workers, Fail(w) /\ work[w].kind = "password" /\ work[w].at = "end"
      PROVE  AccessInv'
  <2>1. work'[w].kind = "idle" /\ \A v \in Workers \ {w} : work'[v] = work[v]
    BY <1>3, DoneWork DEF Fail
  <2>2. /\ session' = session
        /\ late' = late \cup {s \in Sessions : session[s] # None /\ session[s].of = work[w].of}
    BY <1>3 DEF Fail
  <2>3. ActivationNamesItsLink' /\ NothingBeforeActivation'
    <3>1. ActivationNamesItsLink'
      BY <1>a, <2>1, <2>2 DEF AccessInv, ActivationNamesItsLink
    <3>2. NothingBeforeActivation'
      BY <1>a, <1>c, <1>d, <2>1, <2>2, NothingKept
    <3> QED
      BY <3>1, <3>2
  <2>4. SignInsAreCurrent' /\ SessionsEndWithAccess'
    BY <1>a, <2>1, <2>2, SignInsKept, SessionsKept
  <2> QED
    BY <1>b, <2>3, <2>4 DEF AccessInv
<1>4. ASSUME NEW s \in Sessions, Refuse(s) \/ SignOut(s) PROVE AccessInv'
  <2>1. /\ session[s] \in Session /\ session' = [session EXCEPT ![s].live = FALSE]
        /\ late' = late /\ work' = work
    BY <1>4 DEF Refuse, SignOut, Accepted, Types
  <2>2. /\ \A x \in Sessions \ {s} : session'[x] = session[x]
        /\ session'[s].of = session[s].of /\ ~session'[s].live /\ session[s] # None
    BY <2>1, StaffAssumption DEF Types, Session
  <2>3. ActivationNamesItsLink' /\ NothingBeforeActivation'
    <3>1. ActivationNamesItsLink'
      BY <1>a, <2>1, <2>2 DEF AccessInv, ActivationNamesItsLink
    <3>2. NothingBeforeActivation'
      BY <1>a, <1>c, <1>d, <2>1, <2>2, NothingKept
    <3> QED
      BY <3>1, <3>2
  <2>4. SignInsAreCurrent' /\ SessionsEndWithAccess'
    BY <1>a, <2>1, <2>2, SignInsKept, SessionsKept
  <2> QED
    BY <1>b, <2>3, <2>4 DEF AccessInv
<1> QED
  BY <1>1, <1>2, <1>3, <1>4

(* Accounts: activated, with a new password, ended and back.               *)
LEMMA AccountStepAccess ==
  ASSUME AccessInv, Types',
         \/ \E w \in Workers :
              \/ Activate(w) /\ StillUsable(w)
              \/ WritePassword(w)
              \/ CommitEnd(w) /\ work[w].how # "change role"
         \/ \E u \in Users : Reactivate(u)
  PROVE  AccessInv'
<1> Types
  BY DEF AccessInv
<1>0. \A v \in Workers : work[v] \in Operation
  BY DEF Types
<1>a. \A v \in Workers : work[v].kind \in {"sign in", "password"} =>
        work[v].of \in Users /\ person[work[v].of].activated
  BY <1>0, OperationFields DEF AccessInv, NothingBeforeActivation
<1>b. \A s \in Sessions : session[s] # None =>
        session[s].of \in Users /\ person[session[s].of].activated
  BY DEF AccessInv, NothingBeforeActivation, Types, Session
<1>c. \A i \in Links : link[i] # None => link[i].of \in Users
  BY DEF Types, Link
<1>d. \A v \in Workers : work[v].kind = "activate" => work[v].link \in Links
  BY <1>0, OperationFields
<1>1. ASSUME NEW w \in Workers, Activate(w) /\ StillUsable(w)
      PROVE  AccessInv'
  <2> DEFINE op == work[w]
             u == op.of
             new == [kind |-> "sign in", of |-> u, late |-> FALSE,
                     password |-> person[u].password + 1]
  <2>1. u \in Users /\ op.link \in Links /\ op.kind = "activate"
    BY <1>0, <1>1, OperationFields DEF Activate
  <2>2. link[op.link] # None /\ link[op.link].of = u /\ link[op.link].state = "live"
    BY <1>1, <2>1 DEF AccessInv, ActivationNamesItsLink, StillUsable
  <2>3. person[u].state = "active" /\ ~person[u].activated
    BY <2>1, <2>2 DEF AccessInv, OneWorkingLink
  <2>4. /\ new.kind = "sign in" /\ new.of = u /\ new.password = person[u].password + 1
    OBVIOUS
  <2>5. work'[w] = new /\ \A v \in Workers \ {w} : work'[v] = work[v]
    <3>1. work' = [work EXCEPT ![w] = new]
      BY <1>1 DEF Activate
    <3> HIDE DEF new
    <3> QED
      BY <3>1 DEF Types
  <2>6. /\ \A v \in Users \ {u} : person'[v] = person[v]
        /\ person'[u].state = "active" /\ person'[u].activated
        /\ person'[u].password = person[u].password + 1
    <3>1. person' = [person EXCEPT ![u].activated = TRUE, ![u].password = @ + 1]
      BY <1>1 DEF Activate
    <3>2. person[u] \in Person
      BY <2>1 DEF Types
    <3>3. person' = [person EXCEPT ![u] = [[person[u] EXCEPT !.activated = TRUE]
                                             EXCEPT !.password = person[u].password + 1]]
      BY <2>1, <3>1, <3>2 DEF Types
    <3>4. /\ person'[u] = [[person[u] EXCEPT !.activated = TRUE]
                               EXCEPT !.password = person[u].password + 1]
          /\ \A v \in Users \ {u} : person'[v] = person[v]
      BY <2>1, <3>3 DEF Types
    <3> QED
      BY <2>3, <3>2, <3>4 DEF Person
  <2>7. session' = session /\ late' = late
    BY <1>1 DEF Activate
  <2>8. \A i \in Links :
          /\ link[i] # None =>
               /\ link'[i] # None /\ link'[i].of = link[i].of
               /\ link'[i].state = "live" => link[i].state = "live" /\ link[i].of # u
          /\ link[i] = None => link'[i] = None
    <3> DEFINE R == Revoked(u)
    <3>1. link' = [R EXCEPT ![op.link] = [R[op.link] EXCEPT !.state = "used"]]
      BY <1>1 DEF Activate
    <3>2. R \in [Links -> Link \cup {None}]
      BY <2>1, RevokedType
    <3>3. R[op.link] # None /\ R[op.link].of = u
      BY <2>1, <2>2, RevokedFields
    <3>4. \A i \in Links :
            /\ link[i] = None => R[i] = None
            /\ link[i] # None =>
                 /\ R[i] # None /\ R[i].of = link[i].of
                 /\ R[i].state = "live" => link[i].state = "live" /\ link[i].of # u
      BY <2>1, RevokedFields
    <3> HIDE DEF R
    <3>5. R[op.link] \in Link
      BY <2>1, <3>2, <3>3
    <3>6. [R[op.link] EXCEPT !.state = "used"] \in Link
          /\ [R[op.link] EXCEPT !.state = "used"].of = u
          /\ [R[op.link] EXCEPT !.state = "used"].state = "used"
      BY <3>3, <3>5 DEF Link, LinkStates
    <3>7. [R[op.link] EXCEPT !.state = "used"] # None
      BY <3>6, StaffAssumption
    <3>8. /\ link'[op.link] = [R[op.link] EXCEPT !.state = "used"]
          /\ \A i \in Links \ {op.link} : link'[i] = R[i]
      BY <2>1, <3>1, <3>2
    <3> QED
      BY <2>2, <3>4, <3>6, <3>7, <3>8
  <2> HIDE DEF new
  <2>9. ActivationNamesItsLink'
    BY <2>4, <2>5, <2>8, NamesKept
  <2>10. NoneIsNobody'
    BY <2>6 DEF AccessInv, NoneIsNobody
  <2>11. OneWorkingLink'
    BY <1>c, <2>6, <2>8, OneKept
  <2>12. NothingBeforeActivation'
    <3>1. \A v \in Users : person[v].activated => person'[v].activated
      BY <2>6
    <3>2. \A s \in Sessions : session'[s] # None => person'[session'[s].of].activated
      BY <1>b, <2>7, <3>1
    <3>3. \A v \in Workers : work'[v].kind \in {"sign in", "password"} =>
            person'[work'[v].of].activated
      BY <1>a, <2>1, <2>4, <2>5, <2>6, <3>1
    <3> QED
      BY <3>2, <3>3, NothingKept
  <2>13. SignInsAreCurrent'
    BY <1>a, <2>3, <2>4, <2>5, <2>6, SignInsKept, ZenonT(40)
  <2>14. SessionsEndWithAccess'
    BY <1>b, <2>1, <2>3, <2>5, <2>6, <2>7, SessionsKept
  <2> QED
    BY <2>9, <2>10, <2>11, <2>12, <2>13, <2>14 DEF AccessInv
<1>2. ASSUME NEW w \in Workers, WritePassword(w)
      PROVE  AccessInv'
  <2> DEFINE op == work[w]
             u == op.of
             W == Overtaken(u, w)
  <2>1. u \in Users /\ op.kind = "password" /\ op.at = "write"
    BY <1>0, <1>2, OperationFields DEF WritePassword
  <2>2. link' = link /\ session' = session /\ late' = late
    BY <1>2 DEF WritePassword, access
  <2>3. /\ \A v \in Users \ {u} : person'[v] = person[v]
        /\ person'[u].state = person[u].state /\ person'[u].activated = person[u].activated
        /\ person'[u].stamp = person[u].stamp
    BY <1>2, <2>1, ZenonT(40) DEF WritePassword, Types, Person
  <2>4. /\ work'[w].kind = "password" /\ work'[w].at = "end" /\ work'[w].of = u
        /\ work'[w].late = op.late
    <3>1. op \in [kind : {"password"}, at : {"write", "end"}, of : Users, late : BOOLEAN]
      BY <1>0, <2>1, OperationCases
    <3>2. W \in [Workers -> Operation] /\ W[w] = op
      BY <2>1, OvertakenFields
    <3>3. work' = [W EXCEPT ![w] = [W[w] EXCEPT !.at = "end"]]
      BY <1>2 DEF WritePassword
    <3> HIDE DEF W
    <3>4. work'[w] = [op EXCEPT !.at = "end"]
      BY <3>2, <3>3
    <3> HIDE DEF op
    <3> QED
      BY <3>1, <3>4
  <2>5. \A v \in Workers \ {w} : work'[v] = W[v]
    <3>1. W \in [Workers -> Operation]
      BY <2>1, OvertakenFields
    <3>2. work' = [W EXCEPT ![w] = [W[w] EXCEPT !.at = "end"]]
      BY <1>2 DEF WritePassword
    <3> HIDE DEF W
    <3> QED
      BY <3>1, <3>2
  <2>6. \A v \in Workers \ {w} :
          \/ work'[v] = work[v] /\ (work[v].kind \notin {"sign in", "password"} \/ work[v].of # u)
          \/ /\ work'[v].late /\ work'[v].kind = work[v].kind /\ work'[v].of = u
             /\ work[v].of = u /\ work[v].kind \in {"sign in", "password"}
    BY <2>1, <2>5, LateStep
  <2>7. ActivationNamesItsLink'
    BY <2>2, <2>4, <2>6 DEF AccessInv, ActivationNamesItsLink
  <2>8. NoneIsNobody' /\ OneWorkingLink'
    BY <1>c, <2>1, <2>2, <2>3, ZenonT(40) DEF AccessInv, NoneIsNobody, OneWorkingLink
  <2>9. NothingBeforeActivation'
    <3>1. \A v \in Users : person[v].activated => person'[v].activated
      BY <2>3
    <3>2. \A s \in Sessions : session'[s] # None => person'[session'[s].of].activated
      BY <1>b, <2>2, <3>1
    <3>3. ASSUME NEW v \in Workers, work'[v].kind \in {"sign in", "password"}
          PROVE  person'[work'[v].of].activated
      BY <1>a, <2>1, <2>4, <2>6, <3>1, <3>3
    <3> QED
      BY <3>2, <3>3, NothingKept
  <2>10. SignInsAreCurrent'
    <3>1. ~op.late => person[u].state = "active"
      BY <2>1 DEF AccessInv, SignInsAreCurrent
    <3> QED
      BY <1>a, <2>1, <2>3, <2>4, <2>6, <3>1, SignInsKept
  <2>11. SessionsEndWithAccess'
    <3> SUFFICES ASSUME NEW x \in Sessions \ late', session'[x] # None, session'[x].live
                 PROVE  /\ person'[session'[x].of].state = "active"
                        /\ \/ session'[x].password = person'[session'[x].of].password
                           \/ \E v \in Workers : work'[v].kind = "password" /\ work'[v].at = "end"
                                  /\ work'[v].of = session'[x].of
      BY DEF SessionsEndWithAccess
    <3>1. /\ person[session[x].of].state = "active"
          /\ \/ session[x].password = person[session[x].of].password
             \/ \E v \in Workers : work[v].kind = "password" /\ work[v].at = "end"
                    /\ work[v].of = session[x].of
      BY <2>2 DEF AccessInv, SessionsEndWithAccess
    <3>2. CASE session[x].of = u
      BY <2>1, <2>2, <2>3, <2>4, <3>1, <3>2
    <3>3. CASE session[x].of # u
      <4>1. person'[session[x].of] = person[session[x].of]
        BY <1>b, <2>2, <2>3, <3>3
      <4>2. \A v \in Workers : work[v].kind = "password" /\ work[v].of = session[x].of =>
              work'[v] = work[v]
        BY <2>6, <3>3
      <4> QED
        BY <2>2, <3>1, <4>1, <4>2
    <3> QED
      BY <3>2, <3>3
  <2> QED
    BY <2>7, <2>8, <2>9, <2>10, <2>11 DEF AccessInv
<1>3. ASSUME NEW w \in Workers, CommitEnd(w) /\ work[w].how # "change role"
      PROVE  AccessInv'
  <2> DEFINE op == work[w]
             u == op.of
             W == Overtaken(u, w)
  <2>1. u \in Users /\ op.kind = "end"
    BY <1>0, <1>3, OperationFields DEF CommitEnd
  <2>2. /\ \A v \in Users \ {u} : person'[v] = person[v]
        /\ person'[u].activated = person[u].activated
        /\ person'[u].state \in {"inactive", "deleted"}
    BY <1>3, EndedPerson
  <2>3. link' = Revoked(u) /\ session' = SessionsEnded(u) /\ late' = late
    BY <1>3 DEF CommitEnd
  <2>4. work'[w].kind = "idle" /\ \A v \in Workers \ {w} : work'[v] = W[v]
    <3>1. W \in [Workers -> Operation]
      BY <2>1, OvertakenFields
    <3>2. work' = [W EXCEPT ![w] = Idle]
      BY <1>3 DEF CommitEnd
    <3> HIDE DEF W
    <3> QED
      BY <3>1, <3>2 DEF Idle
  <2>5. \A v \in Workers \ {w} :
          \/ work'[v] = work[v] /\ (work[v].kind \notin {"sign in", "password"} \/ work[v].of # u)
          \/ /\ work'[v].late /\ work'[v].kind = work[v].kind /\ work'[v].of = u
             /\ work[v].of = u /\ work[v].kind \in {"sign in", "password"}
    <3> TAKE v \in Workers \ {w}
    <3>1. work'[v] = Overtaken(u, w)[v]
      BY <2>4
    <3>2. CASE work[v].kind \in {"sign in", "password"} /\ work[v].of = u
      <4>1. work'[v] = [work[v] EXCEPT !.late = TRUE]
        BY <3>1, <3>2 DEF Overtaken
      <4> QED
        BY <1>0, <3>2, <4>1, LateFields
    <3>3. CASE ~(work[v].kind \in {"sign in", "password"} /\ work[v].of = u)
      BY <3>1, <3>3 DEF Overtaken
    <3> QED
      BY <3>2, <3>3
  <2>6. \A i \in Links :
          /\ link[i] = None => link'[i] = None
          /\ link[i] # None =>
               /\ link'[i] # None /\ link'[i].of = link[i].of
               /\ link'[i].state = "live" => link[i].state = "live" /\ link[i].of # u
    BY <2>1, <2>3, RevokedFields
  <2>7. \A s \in Sessions :
          /\ session[s] = None => session'[s] = None
          /\ session[s] # None =>
               /\ session'[s] # None /\ session'[s].of = session[s].of
               /\ session'[s].password = session[s].password
               /\ session'[s].live => session[s].live /\ session[s].of # u
    BY <2>1, <2>3, SessionsEndedFields
  <2>8. ActivationNamesItsLink'
    BY <2>4, <2>5, <2>6, NamesKept
  <2>9. NoneIsNobody'
    BY <2>2 DEF AccessInv, NoneIsNobody
  <2>10. OneWorkingLink'
    BY <1>c, <2>1, <2>2, <2>6, OneKept
  <2>11. NothingBeforeActivation'
    <3>1. \A v \in Users : person[v].activated => person'[v].activated
      BY <2>2
    <3>2. \A s \in Sessions : session'[s] # None => person'[session'[s].of].activated
      BY <1>b, <2>7, <3>1
    <3>3. ASSUME NEW v \in Workers, work'[v].kind \in {"sign in", "password"}
          PROVE  person'[work'[v].of].activated
      BY <1>a, <2>4, <2>5, <3>1, <3>3
    <3> QED
      BY <3>2, <3>3, NothingKept
  <2>12. SignInsAreCurrent'
    BY <1>a, <2>2, <2>4, <2>5, SignInsKept
  <2>13. SessionsEndWithAccess'
    <3>1. ASSUME NEW s \in Sessions \ late', session'[s] # None, session'[s].live
          PROVE  /\ s \notin late /\ session[s] # None /\ session[s].live
                 /\ session'[s].of = session[s].of /\ session'[s].password = session[s].password
                 /\ session[s].of \in Users \ {u}
      BY <1>b, <2>3, <2>7, <3>1
    <3>2. \A v \in Workers :
            work[v].kind = "password" /\ work[v].of # u => work'[v] = work[v]
      BY <2>1, <2>5
    <3> QED
      BY <2>2, <3>1, <3>2, SessionsKept, ZenonT(40)
  <2> QED
    BY <2>8, <2>9, <2>10, <2>11, <2>12, <2>13 DEF AccessInv
<1>4. ASSUME NEW u \in Users, Reactivate(u) PROVE AccessInv'
  <2>1. /\ person[u].state = "inactive"
        /\ link' = link /\ session' = session /\ late' = late /\ work' = work
    BY <1>4 DEF Reactivate, access
  <2>2. /\ \A v \in Users \ {u} : person'[v] = person[v]
        /\ person'[u].state = "active" /\ person'[u].activated = person[u].activated
        /\ person'[u].password = person[u].password
    BY <1>4, ZenonT(40) DEF Reactivate, Types, Person
  <2>3. ActivationNamesItsLink'
    BY <2>1 DEF AccessInv, ActivationNamesItsLink
  <2>4. NoneIsNobody'
    BY <2>2 DEF AccessInv, NoneIsNobody
  <2>5. OneWorkingLink'
    BY <1>c, <2>1, <2>2 DEF AccessInv, OneWorkingLink
  <2>6. NothingBeforeActivation'
    BY <1>a, <1>b, <2>1, <2>2, NothingKept
  <2>7. SignInsAreCurrent'
    <3>1. \A v \in Workers : work[v].kind \in {"sign in", "password"} /\ ~work[v].late =>
            work[v].of # u
      BY <2>1 DEF AccessInv, SignInsAreCurrent
    <3> QED
      BY <1>a, <2>1, <2>2, <3>1, SignInsKept
  <2>8. SessionsEndWithAccess'
    <3>1. \A s \in Sessions \ late : session[s] # None /\ session[s].live => session[s].of # u
      BY <2>1 DEF AccessInv, SessionsEndWithAccess
    <3> QED
      BY <1>b, <2>1, <2>2, <3>1, SessionsKept
  <2> QED
    BY <2>3, <2>4, <2>5, <2>6, <2>7, <2>8 DEF AccessInv
<1> QED
  BY <1>1, <1>2, <1>3, <1>4

LEMMA AccessKept ==
  ASSUME AccessInv, LockedIsThere, [Next]_vars
  PROVE  AccessInv'
<1>1. Types'
  <2>1. CASE Next
    BY <2>1, NextTypes DEF AccessInv
  <2>2. CASE UNCHANGED vars
    BY <2>2 DEF vars, AccessInv, Types
  <2> QED
    BY <2>1, <2>2
<1>2. ASSUME NEW w \in Workers, AskStep(w) PROVE AccessInv'
  <2>1. CASE \/ \E i \in Links : FindInvitation(w, i)
             \/ \E s \in Sessions : AskPassword(w, s)
             \/ \E u \in Users : SignIn(w, u)
    BY <1>1, <2>1, AskStepAccess
  <2>2. CASE \/ \E how \in {"deactivate", "delete", "change role"}, actor, u \in Users,
                   to \in Users \cup {None} : LockTarget(w, how, actor, u, to)
             \/ \E f \in Files, u \in Users : AskAssign(w, f, u) \/ ClaimNext(w, f, u)
    BY <1>1, <2>2, LeadStepsAreQuiet, QuietAccess
  <2> QED
    BY <1>2, <2>1, <2>2 DEF AskStep
<1>3. ASSUME NEW w \in Workers, WorkStep(w) PROVE AccessInv'
  <2>1. CASE \/ OpenSession(w) \/ EndSessions(w)
             \/ Fail(w) /\ work[w].kind = "password" /\ work[w].at = "end"
    BY <1>1, <2>1, SessionStepAccess
  <2>2. CASE \/ Activate(w) /\ StillUsable(w)
             \/ WritePassword(w)
             \/ CommitEnd(w) /\ work[w].how # "change role"
    BY <1>1, <2>2, AccountStepAccess
  <2>3. CASE \/ Assign(w) \/ CommitLead(w)
             \/ CommitEnd(w) /\ work[w].how = "change role"
             \/ Activate(w) /\ ~StillUsable(w)
             \/ Fail(w) /\ ~(work[w].kind = "password" /\ work[w].at = "end")
    BY <1>1, <2>3, LeadStepsAreQuiet, QuietAccess
  <2> QED
    BY <1>3, <2>1, <2>2, <2>3 DEF WorkStep
<1>4. CASE \/ \E u \in Users : MakeAdmin(u) \/ \E on \in BOOLEAN : SetRotation(u, on)
           \/ \E on \in BOOLEAN : SetRoundRobin(on)
           \/ \E f \in Files : LeadForNobody(f) \/ Close(f) \/ Reopen(f)
           \/ UNCHANGED vars
  BY <1>1, <1>4, LeadStepsAreQuiet, QuietAccess
<1>5. CASE \/ \E u \in Users : \/ \E admin, rotation \in BOOLEAN : CreateStaff(u, admin, rotation)
                              \/ ResendInvitation(u)
           \/ \E i \in Links : Expire(i)
  BY <1>1, <1>5, LinkStepAccess
<1>6. CASE \E s \in Sessions : Refuse(s) \/ SignOut(s)
  BY <1>1, <1>6, SessionStepAccess
<1>7. CASE \E u \in Users : Reactivate(u)
  BY <1>1, <1>7, AccountStepAccess
<1> QED
  BY <1>2, <1>3, <1>4, <1>5, <1>6, <1>7 DEF Next

-----------------------------------------------------------------------------
(* Leads.                                                                  *)

OnePrimary ==
  \A f \in Files, u, v \in Users :
    held[f][u] = "primary" /\ held[f][v] = "primary" => u = v

NothingHeldBefore == \A f \in Files : file[f] = "none" => \A u \in Users : ~Holds(f, u)

(* A file somebody holds has a primary, whether it is open or not.         *)
HeldHasAPrimary ==
  \A f \in Files \ strayed : \A u \in Users : Holds(f, u) =>
    \E v \in Users : held[f][v] = "primary"

HoldersCanSignIn ==
  \A f \in Files \ strayed : file[f] = "open" =>
    \A u \in Users : Holds(f, u) => Assignable(u)

HeldInv == OnePrimary /\ NothingHeldBefore /\ HeldHasAPrimary /\ HoldersCanSignIn

(* Whoever takes a lead can, and is the only one to open that file.        *)
ClaimsStand ==
  \A w \in Workers : work[w].kind = "claim" =>
    /\ Assignable(work[w].of) /\ file[work[w].file] = "none"
    /\ \A v \in Workers \ {w} :
         work[v].kind \in {"assign", "claim"} => work[v].file # work[w].file

(* The files that move were there, and there is somebody to take them.     *)
MovingWasOpen ==
  \A w \in Workers : work[w].kind = "end" =>
    \A f \in DOMAIN work[w].moving : file[f] # "none" /\ work[w].to \in Users \ {work[w].of}

WorkInv == LocksExclude /\ LockedIsThere /\ ClaimsStand /\ MovingWasOpen

(* Whoever ends as an admin leaves another one, unless two end at once.    *)
AnotherIsLeft ==
  crossed \/ \A w \in Workers : work[w].kind = "end" /\ person[work[w].of].admin =>
    OtherAdmin(work[w].of)

AdminInv == AnAdminRemains /\ AnotherIsLeft

(* A claim passes over those whose turn comes later ...                    *)
ClaimsAreInTurn ==
  \A w \in Workers : work[w].kind = "claim" =>
    /\ person[work[w].of].stamp < work[w].stamp
    /\ \A u \in work[w].passing : person[work[w].of].stamp <= person[u].stamp

(* ... and each of them is counted once.                                   *)
PassedByLater == \A u \in Users : passed[u] <= Cardinality(Later(u))

TurnInv == ClaimsAreInTurn /\ PassedByLater

LeadsInv == HeldInv /\ WorkInv /\ AdminInv /\ TurnInv

LEMMA LaterIsFinite ==
  ASSUME Types, NEW u \in Users
  PROVE  IsFiniteSet(Later(u)) /\ Cardinality(Later(u)) \in Nat /\ Later(u) \subseteq Users \ {u}
<1>1. person[u].stamp \in Nat
  BY DEF Types, Person
<1>2. Later(u) \subseteq Users \ {u}
  BY <1>1 DEF Later
<1>3. IsFiniteSet(Later(u))
  BY <1>2, StaffAssumption, FS_Subset
<1> QED
  BY <1>2, <1>3, FS_CardinalityType

LEMMA MovingFields ==
  ASSUME NEW op \in Operation, op.kind = "end"
  PROVE  /\ DOMAIN op.moving \subseteq Files
         /\ \A f \in DOMAIN op.moving : op.moving[f] \in {"primary", "holds"}
<1>1. op.moving \in Moving
  BY OperationFields
<1>2. PICK S \in SUBSET Files : op.moving \in [S -> {"primary", "holds"}]
  BY <1>1 DEF Moving
<1> QED
  BY <1>2

(* A step that leaves the leads, the turns and the admins alone.           *)
LeadsQuiet ==
  /\ UNCHANGED <<file, held, strayed, crossed>>
  /\ \A u \in Users :
       /\ Assignable(u) => Assignable(u)' /\ (person[u].admin => person'[u].admin)
       /\ person[u].state # "none" => person'[u].state # "none"
       /\ person'[u].stamp = person[u].stamp
       /\ person'[u].admin => person[u].admin \/ ~Locked(u)
       /\ passed'[u] \in {0, passed[u]}
  /\ \A w \in Workers :
       work'[w] = work[w] \/ work'[w].kind \notin {"end", "assign", "claim"}

LEMMA QuietLeads ==
  ASSUME Types, LeadsInv, LeadsQuiet
  PROVE  LeadsInv'
<1>1. /\ file' = file /\ held' = held /\ strayed' = strayed /\ crossed' = crossed
      /\ \A w \in Workers : work'[w].kind \in {"end", "assign", "claim"} => work'[w] = work[w]
      /\ \A w \in Workers : work[w] \in Operation
  BY DEF LeadsQuiet, Types
<1>2. \A u \in Users :
        /\ Assignable(u) => Assignable(u)' /\ (person[u].admin => person'[u].admin)
        /\ person[u].state # "none" => person'[u].state # "none"
        /\ person'[u].stamp = person[u].stamp
        /\ person'[u].admin => person[u].admin \/ ~Locked(u)
        /\ passed'[u] \in {0, passed[u]}
  BY DEF LeadsQuiet
<1>3. \A w \in Workers :
        /\ work[w].kind \in {"end", "claim"} => work[w].of \in Users
        /\ work[w].kind = "claim" => work[w].passing \subseteq Users
  BY <1>1, OperationFields
<1>4. HeldInv'
  <2>1. OnePrimary' /\ NothingHeldBefore' /\ HeldHasAPrimary'
    BY <1>1 DEF LeadsInv, HeldInv, OnePrimary, NothingHeldBefore, HeldHasAPrimary, Holds
  <2>2. HoldersCanSignIn'
    BY <1>1, <1>2 DEF LeadsInv, HeldInv, HoldersCanSignIn, Holds
  <2> QED
    BY <2>1, <2>2 DEF HeldInv
<1>5. WorkInv'
  <2>1. LocksExclude'
    BY <1>1 DEF LeadsInv, WorkInv, LocksExclude, Locks
  <2>2. LockedIsThere'
    BY <1>1, <1>2, <1>3 DEF LeadsInv, WorkInv, LockedIsThere
  <2>3. ClaimsStand'
    BY <1>1, <1>2, <1>3 DEF LeadsInv, WorkInv, ClaimsStand
  <2>4. MovingWasOpen'
    BY <1>1 DEF LeadsInv, WorkInv, MovingWasOpen
  <2> QED
    BY <2>1, <2>2, <2>3, <2>4 DEF WorkInv
<1>6. AdminInv'
  <2>1. AnAdminRemains'
    BY <1>1, <1>2 DEF LeadsInv, AdminInv, AnAdminRemains
  <2>2. ASSUME ~crossed, NEW w \in Workers, work'[w].kind = "end", person'[work'[w].of].admin
        PROVE  OtherAdmin(work[w].of)'
    <3>1. work'[w] = work[w] /\ work[w].of \in Users
      BY <1>1, <1>3, <2>2
    <3>2. Locked(work[w].of)
      BY <2>2, <3>1 DEF Locked, Locks
    <3>3. OtherAdmin(work[w].of)
      BY <1>2, <2>2, <3>1, <3>2 DEF LeadsInv, AdminInv, AnotherIsLeft
    <3> QED
      BY <1>2, <3>1, <3>3 DEF OtherAdmin
  <2>3. AnotherIsLeft'
    BY <1>1, <2>2 DEF AnotherIsLeft
  <2> QED
    BY <2>1, <2>3 DEF AdminInv
<1>7. TurnInv'
  <2>1. ClaimsAreInTurn'
    BY <1>1, <1>2, <1>3 DEF LeadsInv, TurnInv, ClaimsAreInTurn
  <2>2. ASSUME NEW u \in Users PROVE passed'[u] <= Cardinality(Later(u)')
    <3>1. Later(u)' = Later(u)
      BY <1>2 DEF Later
    <3>2. passed[u] <= Cardinality(Later(u)) /\ Cardinality(Later(u)) \in Nat
      BY LaterIsFinite DEF LeadsInv, TurnInv, PassedByLater
    <3> QED
      BY <1>2, <3>1, <3>2
  <2> QED
    BY <2>1, <2>2 DEF TurnInv, PassedByLater
<1> QED
  BY <1>4, <1>5, <1>6, <1>7 DEF LeadsInv

(* Invitations, sessions and accounts that do not end.                     *)
LEMMA UserStepsAreQuiet ==
  ASSUME AccessInv, LeadsInv,
         \/ \E w \in Workers :
              \/ \E i \in Links : FindInvitation(w, i)
              \/ \E s \in Sessions : AskPassword(w, s)
              \/ \E u \in Users : SignIn(w, u)
              \/ Activate(w) \/ OpenSession(w) \/ WritePassword(w) \/ EndSessions(w) \/ Fail(w)
         \/ \E u \in Users : \/ \E admin, rotation \in BOOLEAN : CreateStaff(u, admin, rotation)
                            \/ ResendInvitation(u) \/ Reactivate(u) \/ MakeAdmin(u)
                            \/ \E on \in BOOLEAN : SetRotation(u, on)
         \/ \E on \in BOOLEAN : SetRoundRobin(on)
         \/ \E i \in Links : Expire(i)
         \/ \E s \in Sessions : Refuse(s) \/ SignOut(s)
         \/ UNCHANGED vars
  PROVE  LeadsQuiet
<1> Types
  BY DEF AccessInv
<1>0. \A v \in Workers : work[v] \in Operation
  BY DEF Types
<1>a. \A u \in Users : person[u] \in Person /\ passed[u] \in {0, passed[u]}
  BY DEF Types
<1>b. Idle.kind = "idle"
  BY DEF Idle
<1>1. ASSUME NEW w \in Workers, NEW op, Start(w, op), UNCHANGED <<person, leads, crossed>>,
             op.kind \notin {"end", "assign", "claim"}
      PROVE  LeadsQuiet
  <2>1. \A v \in Workers : work'[v] = work[v] \/ work'[v].kind \notin {"end", "assign", "claim"}
    BY <1>1, StartWork
  <2>2. person' = person /\ passed' = passed /\ UNCHANGED <<file, held, strayed, crossed>>
    BY <1>1 DEF leads
  <2> QED
    BY <2>1, <2>2 DEF LeadsQuiet, Assignable
<1>2. ASSUME UNCHANGED <<person, leads, crossed>>,
             \A v \in Workers : work'[v] = work[v] \/ work'[v].kind \notin {"end", "assign", "claim"}
      PROVE  LeadsQuiet
  <2>1. person' = person /\ passed' = passed /\ UNCHANGED <<file, held, strayed, crossed>>
    BY <1>2 DEF leads
  <2> QED
    BY <1>2, <2>1 DEF LeadsQuiet, Assignable
<1>3. ASSUME NEW w \in Workers, NEW i \in Links, FindInvitation(w, i) PROVE LeadsQuiet
  BY <1>1, <1>3 DEF FindInvitation
<1>4. ASSUME NEW w \in Workers, NEW s \in Sessions, AskPassword(w, s) PROVE LeadsQuiet
  BY <1>1, <1>4 DEF AskPassword
<1>5. ASSUME NEW w \in Workers, NEW u \in Users, SignIn(w, u) PROVE LeadsQuiet
  BY <1>1, <1>5 DEF SignIn
<1>6. ASSUME NEW w \in Workers, Activate(w) PROVE LeadsQuiet
  <2> DEFINE op == work[w]
  <2>1. CASE StillUsable(w)
    <3>1. op.of \in Users
      BY <1>0, <1>6, OperationFields DEF Activate
    <3>2. person[op.of] \in Person
      BY <1>a, <3>1
    <3>3. person' = [person EXCEPT ![op.of] = [[person[op.of] EXCEPT !.activated = TRUE]
                                                 EXCEPT !.password = person[op.of].password + 1]]
      BY <1>6, <2>1, <3>1, <3>2 DEF Activate, Types
    <3>4. ASSUME NEW u \in Users
          PROVE  /\ person[u].activated => person'[u].activated
                 /\ person'[u].state = person[u].state /\ person'[u].stamp = person[u].stamp
                 /\ person'[u].admin = person[u].admin
      <4>1. CASE u # op.of
        BY <3>3, <4>1 DEF Types
      <4>2. CASE u = op.of
        <5>1. person'[u] = [[person[u] EXCEPT !.activated = TRUE]
                              EXCEPT !.password = person[u].password + 1]
          BY <3>3, <4>2 DEF Types
        <5> QED
          BY <3>2, <4>2, <5>1 DEF Person
      <4> QED
        BY <4>1, <4>2
    <3>5. UNCHANGED <<file, held, strayed, crossed, passed>>
      BY <1>6 DEF Activate, leads
    <3>6. \A v \in Workers :
            work'[v] = work[v] \/ work'[v].kind \notin {"end", "assign", "claim"}
      <4> DEFINE new == [kind |-> "sign in", of |-> op.of, late |-> FALSE,
                         password |-> person[op.of].password + 1]
      <4>1. work' = [work EXCEPT ![w] = new]
        BY <1>6, <2>1 DEF Activate
      <4>2. new.kind = "sign in"
        OBVIOUS
      <4> HIDE DEF new
      <4> QED
        BY <4>1, <4>2 DEF Types
    <3> QED
      BY <3>4, <3>5, <3>6 DEF LeadsQuiet, Assignable
  <2>2. CASE ~StillUsable(w)
    BY <1>2, <1>6, <2>2, DoneWork DEF Activate
  <2> QED
    BY <2>1, <2>2
<1>7. ASSUME NEW w \in Workers, OpenSession(w) PROVE LeadsQuiet
  BY <1>2, <1>7, DoneWork DEF OpenSession, Open
<1>8. ASSUME NEW w \in Workers, WritePassword(w) PROVE LeadsQuiet
  <2> DEFINE op == work[w]
             W == Overtaken(op.of, w)
  <2>1. op.of \in Users /\ op.kind = "password"
    BY <1>0, <1>8, OperationFields DEF WritePassword
  <2>2. ASSUME NEW v \in Workers
        PROVE  work'[v] = work[v] \/ work'[v].kind \notin {"end", "assign", "claim"}
    <3>1. W \in [Workers -> Operation] /\ W[w] = op
      BY <2>1, OvertakenFields
    <3>2. work' = [W EXCEPT ![w] = [W[w] EXCEPT !.at = "end"]]
      BY <1>8 DEF WritePassword
    <3>3. CASE v = w
      <4>1. work'[w] = [op EXCEPT !.at = "end"]
        <5> HIDE DEF W
        <5> QED
          BY <3>1, <3>2
      <4>2. op \in [kind : {"password"}, at : {"write", "end"}, of : Users, late : BOOLEAN]
        BY <1>0, <2>1, OperationCases
      <4> HIDE DEF op
      <4> QED
        BY <3>3, <4>1, <4>2
    <3>4. CASE v # w
      <4>1. work'[v] = W[v]
        <5> HIDE DEF W
        <5> QED
          BY <3>1, <3>2, <3>4
      <4>2. CASE work[v].kind \in {"sign in", "password"}
        <5>1. [work[v] EXCEPT !.late = TRUE].kind = work[v].kind
          BY <1>0, <4>2, LateFields
        <5> QED
          BY <4>1, <4>2, <5>1 DEF Overtaken
      <4>3. CASE work[v].kind \notin {"sign in", "password"}
        BY <4>1, <4>3 DEF Overtaken
      <4> QED
        BY <4>2, <4>3
    <3> QED
      BY <3>3, <3>4
  <2>3. ASSUME NEW u \in Users
        PROVE  /\ person'[u].activated = person[u].activated
               /\ person'[u].state = person[u].state /\ person'[u].stamp = person[u].stamp
               /\ person'[u].admin = person[u].admin
    BY <1>8, <2>1, ZenonT(40) DEF WritePassword, Types, Person
  <2>4. UNCHANGED <<file, held, strayed, crossed, passed>>
    BY <1>8 DEF WritePassword, leads
  <2> QED
    BY <2>2, <2>3, <2>4 DEF LeadsQuiet, Assignable
<1>9. ASSUME NEW w \in Workers, EndSessions(w) PROVE LeadsQuiet
  <2>1. \A v \in Workers :
          work'[v] = work[v] \/ work'[v].kind \notin {"end", "assign", "claim"}
    BY <1>9 DEF EndSessions, Types
  <2> QED
    BY <1>2, <1>9, <2>1 DEF EndSessions
<1>10. ASSUME NEW w \in Workers, Fail(w) PROVE LeadsQuiet
  BY <1>2, <1>10, DoneWork DEF Fail
<1>11. ASSUME NEW u \in Users, NEW admin \in BOOLEAN, NEW rotation \in BOOLEAN,
              CreateStaff(u, admin, rotation)
       PROVE  LeadsQuiet
  <2>1. person[u].state = "none" /\ person[u].stamp = 0
    BY <1>11 DEF CreateStaff, AccessInv, NoneIsNobody
  <2>2. ~Locked(u)
    BY <2>1 DEF LeadsInv, WorkInv, LockedIsThere, Locked, Locks
  <2>3. /\ \A v \in Users \ {u} : person'[v] = person[v]
        /\ person'[u].state = "active" /\ person'[u].stamp = 0
    BY <1>11 DEF CreateStaff, Account, Types
  <2>4. UNCHANGED <<file, held, strayed, crossed, passed, work>>
    BY <1>11 DEF CreateStaff, leads
  <2> QED
    BY <2>1, <2>2, <2>3, <2>4 DEF LeadsQuiet, Assignable
<1>12. ASSUME NEW u \in Users, ResendInvitation(u) PROVE LeadsQuiet
  BY <1>2, <1>12 DEF ResendInvitation
<1>13. ASSUME NEW u \in Users, Reactivate(u) \/ MakeAdmin(u) PROVE LeadsQuiet
  <2>1. ~Locked(u) /\ UNCHANGED <<file, held, strayed, crossed, passed, work>>
    BY <1>13 DEF Reactivate, MakeAdmin, leads
  <2>2. /\ \A v \in Users \ {u} : person'[v] = person[v]
        /\ person'[u].state \in {"active", person[u].state}
        /\ person'[u].activated = person[u].activated
        /\ person'[u].stamp = person[u].stamp
        /\ person[u].admin => person'[u].admin
    BY <1>13 DEF Reactivate, MakeAdmin, Types, Person
  <2> QED
    BY <2>1, <2>2 DEF LeadsQuiet, Assignable
<1>14. ASSUME NEW u \in Users, NEW on \in BOOLEAN, SetRotation(u, on) PROVE LeadsQuiet
  <2>1. /\ UNCHANGED <<file, held, strayed, crossed, work>>
        /\ \A v \in Users : passed'[v] \in {0, passed[v]}
    BY <1>14 DEF SetRotation, Types
  <2>2. /\ \A v \in Users \ {u} : person'[v] = person[v]
        /\ person'[u].state = person[u].state /\ person'[u].activated = person[u].activated
        /\ person'[u].stamp = person[u].stamp /\ person'[u].admin = person[u].admin
    BY <1>14 DEF SetRotation, Types, Person
  <2> QED
    BY <2>1, <2>2 DEF LeadsQuiet, Assignable
<1>15. ASSUME NEW on \in BOOLEAN, SetRoundRobin(on) PROVE LeadsQuiet
  BY <1>15 DEF SetRoundRobin, LeadsQuiet, Assignable
<1>16. ASSUME NEW i \in Links, Expire(i) PROVE LeadsQuiet
  BY <1>2, <1>16 DEF Expire
<1>17. ASSUME NEW s \in Sessions, Refuse(s) \/ SignOut(s) PROVE LeadsQuiet
  BY <1>2, <1>17 DEF Refuse, SignOut
<1>18. CASE UNCHANGED vars
  BY <1>2, <1>18 DEF vars, leads
<1> QED
  BY <1>3, <1>4, <1>5, <1>6, <1>7, <1>8, <1>9, <1>10, <1>11, <1>12, <1>13, <1>14, <1>15,
     <1>16, <1>17, <1>18

(* A request about leads, or to end an account, that begins.               *)
LEMMA AskLeads ==
  ASSUME Types, LeadsInv, NEW w \in Workers, NEW op, Start(w, op),
         UNCHANGED <<person, file, held, strayed, crossed, passed>>,
         op.kind \in {"end", "claim"} =>
           op.of \in Users /\ ~Locked(op.of) /\ person[op.of].state # "none",
         op.kind = "end" =>
           /\ \A f \in DOMAIN op.moving : file[f] # "none" /\ op.to \in Users \ {op.of}
           /\ crossed \/ (person[op.of].admin => OtherAdmin(op.of)),
         op.kind = "assign" =>
           \A v \in Workers : work[v].kind = "claim" => work[v].file # op.file,
         op.kind = "claim" =>
           /\ Assignable(op.of) /\ file[op.file] = "none"
           /\ \A v \in Workers : work[v].kind \in {"assign", "claim"} => work[v].file # op.file
           /\ person[op.of].stamp < op.stamp
           /\ \A u \in op.passing : person[op.of].stamp <= person[u].stamp
  PROVE  LeadsInv'
<1>1. /\ work'[w] = op /\ \A v \in Workers : v # w => work'[v] = work[v]
      /\ work[w].kind = "idle"
  BY StartWork
<1>2. HeldInv'
  BY DEF LeadsInv, HeldInv, OnePrimary, NothingHeldBefore, HeldHasAPrimary, HoldersCanSignIn,
         Holds, Assignable
<1>3. WorkInv'
  <2>1. LocksExclude'
    <3> SUFFICES ASSUME NEW v \in Workers, NEW x \in Workers, NEW u \in Users,
                        Locks(v, u)', Locks(x, u)'
                 PROVE  v = x
      BY DEF LocksExclude
    <3>1. \A y \in Workers \ {w} : Locks(y, u)' => Locks(y, u)
      BY <1>1 DEF Locks
    <3>2. Locks(w, u)' => ~Locked(u)
      BY <1>1 DEF Locks
    <3> QED
      BY <3>1, <3>2 DEF LeadsInv, WorkInv, LocksExclude, Locked
  <2>2. LockedIsThere'
    BY <1>1 DEF LeadsInv, WorkInv, LockedIsThere
  <2>3. ClaimsStand'
    <3> SUFFICES ASSUME NEW x \in Workers, work'[x].kind = "claim"
                 PROVE  /\ Assignable(work[x].of)' /\ file'[work'[x].file] = "none"
                        /\ \A v \in Workers \ {x} :
                             work'[v].kind \in {"assign", "claim"} => work'[v].file # work'[x].file
      BY DEF ClaimsStand
    <3>1. CASE x = w
      BY <1>1, <3>1 DEF Assignable
    <3>2. CASE x # w
      <4>1. work'[x] = work[x] /\ work[x].kind = "claim"
        BY <1>1, <3>2
      <4>2. /\ Assignable(work[x].of) /\ file[work[x].file] = "none"
            /\ \A v \in Workers \ {x} :
                 work[v].kind \in {"assign", "claim"} => work[v].file # work[x].file
        BY <4>1 DEF LeadsInv, WorkInv, ClaimsStand
      <4> QED
        BY <1>1, <4>1, <4>2 DEF Assignable
    <3> QED
      BY <3>1, <3>2
  <2>4. MovingWasOpen'
    BY <1>1 DEF LeadsInv, WorkInv, MovingWasOpen
  <2> QED
    BY <2>1, <2>2, <2>3, <2>4 DEF WorkInv
<1>4. AdminInv'
  <2>1. AnAdminRemains'
    BY DEF LeadsInv, AdminInv, AnAdminRemains, Assignable
  <2>2. AnotherIsLeft'
    BY <1>1 DEF LeadsInv, AdminInv, AnotherIsLeft, OtherAdmin, Assignable
  <2> QED
    BY <2>1, <2>2 DEF AdminInv
<1>5. TurnInv'
  <2>1. ClaimsAreInTurn'
    BY <1>1 DEF LeadsInv, TurnInv, ClaimsAreInTurn
  <2>2. PassedByLater'
    BY DEF LeadsInv, TurnInv, PassedByLater, Later
  <2> QED
    BY <2>1, <2>2 DEF TurnInv
<1> QED
  BY <1>2, <1>3, <1>4, <1>5 DEF LeadsInv

LEMMA AskStepLeads ==
  ASSUME Types, LeadsInv, NEW w \in Workers,
         \/ \E how \in {"deactivate", "delete", "change role"}, actor, u \in Users,
                to \in Users \cup {None} : LockTarget(w, how, actor, u, to)
         \/ \E f \in Files, u \in Users : AskAssign(w, f, u) \/ ClaimNext(w, f, u)
  PROVE  LeadsInv'
<1>1. ASSUME NEW how \in {"deactivate", "delete", "change role"}, NEW actor \in Users,
             NEW u \in Users, NEW to \in Users \cup {None}, LockTarget(w, how, actor, u, to)
      PROVE  LeadsInv'
  <2> DEFINE moving == IF how = "change role" THEN {} ELSE OpenFiles(u)
             op == [kind |-> "end", how |-> how, of |-> u, to |-> to,
                    moving |-> [f \in moving |-> held[f][u]]]
  <2>1. op.kind = "end" /\ op.of = u /\ op.to = to /\ DOMAIN op.moving = moving
    OBVIOUS
  <2>2. ~Locked(u) /\ person[u].state \in {"active", "inactive"} /\ Start(w, op)
        /\ UNCHANGED <<person, file, held, strayed, crossed, passed>>
    BY <1>1 DEF LockTarget, leads
  <2>3. \A f \in moving : file[f] # "none" /\ to \in Users \ {u}
    BY <1>1 DEF LockTarget, OpenFiles
  <2>4. crossed \/ (person[u].admin => OtherAdmin(u))
    <3>1. CASE person[u].state = "active"
      BY <1>1, <3>1 DEF LockTarget
    <3>2. CASE person[u].state # "active"
      BY <3>2 DEF LeadsInv, AdminInv, AnAdminRemains, OtherAdmin, Assignable
    <3> QED
      BY <3>1, <3>2
  <2> HIDE DEF op, moving
  <2> QED
    BY <2>1, <2>2, <2>3, <2>4, AskLeads
<1>2. ASSUME NEW f \in Files, NEW u \in Users, AskAssign(w, f, u) PROVE LeadsInv'
  <2> DEFINE op == [kind |-> "assign", of |-> u, file |-> f]
  <2>1. op.kind = "assign" /\ op.of = u /\ op.file = f
    OBVIOUS
  <2>2. Start(w, op) /\ UNCHANGED <<person, file, held, strayed, crossed, passed>>
    BY <1>2 DEF AskAssign, leads
  <2>3. \A v \in Workers : work[v].kind = "claim" => work[v].file # f
    BY <1>2 DEF AskAssign, LeadsInv, WorkInv, ClaimsStand
  <2> HIDE DEF op
  <2> QED
    BY <2>1, <2>2, <2>3, AskLeads
<1>3. ASSUME NEW f \in Files, NEW u \in Users, ClaimNext(w, f, u) PROVE LeadsInv'
  <2> DEFINE op == [kind |-> "claim", of |-> u, file |-> f, stamp |-> NewStamp(u),
                    passing |-> Free \ {u}]
  <2>1. /\ op.kind = "claim" /\ op.of = u /\ op.file = f /\ op.stamp = NewStamp(u)
        /\ op.passing = Free \ {u}
    OBVIOUS
  <2>2. Start(w, op) /\ UNCHANGED <<person, file, held, strayed, crossed, passed>>
    BY <1>3 DEF ClaimNext, leads
  <2>3. Assignable(u) /\ ~Locked(u) /\ person[u].state # "none"
    BY <1>3 DEF ClaimNext, Free, Rotating, Waiting, Assignable
  <2>4. /\ file[f] = "none"
        /\ \A v \in Workers : work[v].kind \in {"assign", "claim"} => work[v].file # f
        /\ \A v \in Free \ {u} : person[u].stamp <= person[v].stamp
    BY <1>3 DEF ClaimNext
  <2>5. person[u].stamp < NewStamp(u)
    BY NewStampIsNew
  <2> HIDE DEF op
  <2> QED
    BY <2>1, <2>2, <2>3, <2>4, <2>5, AskLeads
<1> QED
  BY <1>1, <1>2, <1>3

(* A lead nobody takes, a file that closes and one that comes back.        *)
LEMMA FileStepLeads ==
  ASSUME Types, LeadsInv, NEW f \in Files, LeadForNobody(f) \/ Close(f) \/ Reopen(f)
  PROVE  LeadsInv'
<1>1. person' = person /\ held' = held /\ passed' = passed /\ crossed' = crossed /\ work' = work
  BY DEF LeadForNobody, Close, Reopen
<1>2. /\ file' \in [Files -> {"none", "open", "closed"}]
      /\ \A g \in Files \ {f} : file'[g] = file[g]
      /\ file'[f] # "none" /\ strayed \subseteq strayed'
  BY DEF LeadForNobody, Close, Reopen, Types
<1>3. file'[f] = "open" =>
        \/ file[f] = "none"
        \/ \A u \in Users : f \notin strayed' /\ Holds(f, u) => Assignable(u)
  BY DEF LeadForNobody, Close, Reopen, Types
<1>4. \A w \in Workers : work[w].kind = "claim" => work[w].file # f /\ work[w].file \in Files
  <2>1. \A w \in Workers : work[w].kind = "claim" => work[w].file # f
    <3>1. CASE LeadForNobody(f)
      BY <3>1 DEF LeadForNobody
    <3>2. CASE Close(f) \/ Reopen(f)
      BY <3>2 DEF Close, Reopen, LeadsInv, WorkInv, ClaimsStand
    <3> QED
      BY <3>1, <3>2
  <2> QED
    BY <2>1, OperationFields DEF Types
<1>5. HeldInv'
  <2>1. OnePrimary' /\ NothingHeldBefore' /\ HeldHasAPrimary'
    BY <1>1, <1>2 DEF LeadsInv, HeldInv, OnePrimary, NothingHeldBefore, HeldHasAPrimary, Holds
  <2>2. HoldersCanSignIn'
    <3> SUFFICES ASSUME NEW g \in Files \ strayed', file'[g] = "open", NEW u \in Users, Holds(g, u)
                 PROVE  Assignable(u)
      BY <1>1 DEF HoldersCanSignIn, Holds, Assignable
    <3>1. CASE g = f
      BY <1>3, <3>1 DEF LeadsInv, HeldInv, NothingHeldBefore
    <3>2. CASE g # f
      BY <1>2, <3>2 DEF LeadsInv, HeldInv, HoldersCanSignIn
    <3> QED
      BY <3>1, <3>2
  <2> QED
    BY <2>1, <2>2 DEF HeldInv
<1>6. WorkInv'
  <2>1. LocksExclude' /\ LockedIsThere'
    BY <1>1 DEF LeadsInv, WorkInv, LocksExclude, LockedIsThere, Locks
  <2>2. ClaimsStand'
    BY <1>1, <1>2, <1>4 DEF LeadsInv, WorkInv, ClaimsStand, Assignable
  <2>3. MovingWasOpen'
    <3>1. \A w \in Workers : work[w].kind = "end" => DOMAIN work[w].moving \subseteq Files
      BY MovingFields DEF Types
    <3> QED
      BY <1>1, <1>2, <3>1 DEF LeadsInv, WorkInv, MovingWasOpen
  <2> QED
    BY <2>1, <2>2, <2>3 DEF WorkInv
<1>7. AdminInv' /\ TurnInv'
  BY <1>1 DEF LeadsInv, AdminInv, AnAdminRemains, AnotherIsLeft, OtherAdmin, Assignable,
              TurnInv, ClaimsAreInTurn, PassedByLater, Later
<1> QED
  BY <1>5, <1>6, <1>7 DEF LeadsInv

(* A file that is given to somebody as its primary.                        *)
LEMMA GivenFile ==
  ASSUME Types, HeldInv, NEW f \in Files, NEW u \in Users,
         held' = [held EXCEPT ![f] = Primary(f, u)],
         \A g \in Files \ {f} : file'[g] = file[g],
         file'[f] # "none", strayed \subseteq strayed',
         file'[f] = "open" /\ f \notin strayed' => file[f] # "closed" /\ Assignable(u)',
         \A v \in Users : Assignable(v) => Assignable(v)',
         file[f] \in {"none", "open", "closed"}
  PROVE  HeldInv'
<1>1. /\ held'[f][u] = "primary"
      /\ \A v \in Users \ {u} : held'[f][v] # "primary"
      /\ \A v \in Users \ {u} : held'[f][v] # "no" => held[f][v] # "no"
      /\ \A g \in Files \ {f} : held'[g] = held[g]
  <2>1. held'[f] = Primary(f, u) /\ \A g \in Files \ {f} : held'[g] = held[g]
    BY DEF Types
  <2> QED
    BY <2>1 DEF Primary
<1>2. OnePrimary'
  BY <1>1 DEF HeldInv, OnePrimary
<1>3. NothingHeldBefore'
  BY <1>1 DEF HeldInv, NothingHeldBefore, Holds
<1>4. HeldHasAPrimary'
  <2> SUFFICES ASSUME NEW g \in Files \ strayed', NEW v \in Users, held'[g][v] # "no"
               PROVE  \E x \in Users : held'[g][x] = "primary"
    BY DEF HeldHasAPrimary, Holds
  <2>1. CASE g = f
    BY <1>1, <2>1
  <2>2. CASE g # f
    BY <1>1, <2>2 DEF HeldInv, HeldHasAPrimary, Holds
  <2> QED
    BY <2>1, <2>2
<1>5. HoldersCanSignIn'
  <2> SUFFICES ASSUME NEW g \in Files \ strayed', file'[g] = "open", NEW v \in Users,
                      held'[g][v] # "no"
               PROVE  Assignable(v)'
    BY DEF HoldersCanSignIn, Holds
  <2>1. CASE g = f /\ v = u
    BY <2>1
  <2>2. CASE g = f /\ v # u
    <3>1. held[f][v] # "no"
      BY <1>1, <2>2
    <3>2. file[f] = "open"
      BY <2>2, <3>1 DEF HeldInv, NothingHeldBefore, Holds
    <3> QED
      BY <2>2, <3>1, <3>2 DEF HeldInv, HoldersCanSignIn, Holds
  <2>3. CASE g # f
    BY <1>1, <2>3 DEF HeldInv, HoldersCanSignIn, Holds
  <2> QED
    BY <2>1, <2>2, <2>3
<1> QED
  BY <1>2, <1>3, <1>4, <1>5 DEF HeldInv

LEMMA AssignLeads ==
  ASSUME Types, LeadsInv, NEW w \in Workers, Assign(w)
  PROVE  LeadsInv'
<1> DEFINE op == work[w]
           f == op.file
           u == op.of
<1>1. u \in Users /\ f \in Files /\ op.kind = "assign"
  BY OperationFields DEF Assign, Types
<1>2. /\ person' = person /\ crossed' = crossed /\ passed' = passed
      /\ file' = [file EXCEPT ![f] = IF @ = "none" THEN "open" ELSE @]
      /\ held' = [held EXCEPT ![f] = Primary(f, u)]
      /\ strayed' = IF Assignable(u) THEN strayed ELSE strayed \cup {f}
  BY DEF Assign
<1>3. work'[w].kind = "idle" /\ \A v \in Workers \ {w} : work'[v] = work[v]
  BY DoneWork DEF Assign
<1>4. /\ \A g \in Files \ {f} : file'[g] = file[g]
      /\ file'[f] # "none" /\ file'[f] = "open" => file[f] # "closed"
      /\ file[f] \in {"none", "open", "closed"}
  BY <1>1, <1>2 DEF Types
<1>5. \A x \in Workers : work[x].kind = "claim" => work[x].file # f /\ work[x].file \in Files
  BY <1>1, OperationFields DEF LeadsInv, WorkInv, ClaimsStand, Types
<1>6. HeldInv'
  <2>1. \A v \in Users : Assignable(v)' <=> Assignable(v)
    BY <1>2 DEF Assignable
  <2>2. /\ f \notin strayed' => Assignable(u)
        /\ strayed \subseteq strayed'
    BY <1>1, <1>2
  <2>3. file'[f] # "none" /\ (file'[f] = "open" => file[f] # "closed")
    BY <1>1, <1>2 DEF Types
  <2> HIDE DEF f, u
  <2> QED
    BY <1>1, <1>2, <1>4, <2>1, <2>2, <2>3, GivenFile DEF LeadsInv
<1>7. WorkInv'
  <2>1. LocksExclude'
    BY <1>3 DEF LeadsInv, WorkInv, LocksExclude, Locks
  <2>2. LockedIsThere'
    BY <1>2, <1>3 DEF LeadsInv, WorkInv, LockedIsThere
  <2>3. ClaimsStand'
    BY <1>2, <1>3, <1>4, <1>5 DEF LeadsInv, WorkInv, ClaimsStand, Assignable
  <2>4. MovingWasOpen'
    <3>1. \A x \in Workers : work[x].kind = "end" => DOMAIN work[x].moving \subseteq Files
      BY MovingFields DEF Types
    <3>2. \A g \in Files : file[g] # "none" => file'[g] # "none"
      BY <1>2 DEF Types
    <3> QED
      BY <1>3, <3>1, <3>2 DEF LeadsInv, WorkInv, MovingWasOpen
  <2> QED
    BY <2>1, <2>2, <2>3, <2>4 DEF WorkInv
<1>8. AdminInv'
  BY <1>2, <1>3 DEF LeadsInv, AdminInv, AnAdminRemains, AnotherIsLeft, OtherAdmin, Assignable
<1>9. TurnInv'
  <2>1. ClaimsAreInTurn'
    BY <1>2, <1>3 DEF LeadsInv, TurnInv, ClaimsAreInTurn
  <2>2. PassedByLater'
    BY <1>2 DEF LeadsInv, TurnInv, PassedByLater, Later
  <2> QED
    BY <2>1, <2>2 DEF TurnInv
<1> QED
  BY <1>6, <1>7, <1>8, <1>9 DEF LeadsInv

(* The turn that is taken counts once for each who was passed.             *)
LEMMA CommitLeadLeads ==
  ASSUME Types, LeadsInv, NEW w \in Workers, CommitLead(w)
  PROVE  LeadsInv'
<1> DEFINE op == work[w]
           f == op.file
           u == op.of
<1>1. /\ u \in Users /\ f \in Files /\ op.kind = "claim" /\ op.stamp \in Nat
      /\ op.passing \subseteq Users
  BY OperationFields DEF CommitLead, Types
<1>2. /\ person' = [person EXCEPT ![u].stamp = op.stamp]
      /\ file' = [file EXCEPT ![f] = "open"] /\ held' = [held EXCEPT ![f] = Primary(f, u)]
      /\ strayed' = strayed /\ crossed' = crossed
  BY DEF CommitLead
<1>3. work'[w].kind = "idle" /\ \A v \in Workers \ {w} : work'[v] = work[v]
  BY DoneWork DEF CommitLead
<1>4. /\ Assignable(u) /\ file[f] = "none"
      /\ \A x \in Workers \ {w} : work[x].kind \in {"assign", "claim"} => work[x].file # f
      /\ person[u].stamp < op.stamp
      /\ \A v \in op.passing : person[u].stamp <= person[v].stamp
  BY <1>1 DEF LeadsInv, WorkInv, ClaimsStand, TurnInv, ClaimsAreInTurn
<1>5. ASSUME NEW v \in Users
      PROVE  /\ person'[v].state = person[v].state /\ person'[v].activated = person[v].activated
             /\ person'[v].admin = person[v].admin /\ person'[v].rotation = person[v].rotation
             /\ person'[v].stamp = IF v = u THEN op.stamp ELSE person[v].stamp
             /\ person[v].stamp \in Nat
  <2>1. person[v] \in Person
    BY DEF Types
  <2>2. person'[v] = IF v = u THEN [person[v] EXCEPT !.stamp = op.stamp] ELSE person[v]
    BY <1>2 DEF Types
  <2> QED
    BY <2>1, <2>2 DEF Person
<1>6. \A v \in Users : Assignable(v)' <=> Assignable(v)
  BY <1>5 DEF Assignable
<1>7. \A x \in Workers \ {w} : work[x].kind \in {"end", "claim"} =>
        work[x].of \in Users \ {u}
  <2> SUFFICES ASSUME NEW x \in Workers \ {w}, work[x].kind \in {"end", "claim"}
               PROVE  work[x].of \in Users \ {u}
    OBVIOUS
  <2>1. work[x].of \in Users
    BY OperationFields DEF Types
  <2>2. Locks(w, u) /\ Locks(x, work[x].of)
    BY <1>1 DEF Locks
  <2> QED
    BY <1>1, <2>1, <2>2 DEF LeadsInv, WorkInv, LocksExclude
<1>8. HeldInv'
  <2>1. /\ \A g \in Files \ {f} : file'[g] = file[g]
        /\ file'[f] = "open"
    BY <1>1, <1>2 DEF Types
  <2> HIDE DEF f, u
  <2> QED
    BY <1>1, <1>2, <1>4, <1>6, <2>1, GivenFile DEF LeadsInv
<1>9. WorkInv'
  <2>1. LocksExclude'
    BY <1>3 DEF LeadsInv, WorkInv, LocksExclude, Locks
  <2>2. LockedIsThere'
    BY <1>3, <1>5, <1>7 DEF LeadsInv, WorkInv, LockedIsThere
  <2>3. ClaimsStand'
    <3> SUFFICES ASSUME NEW x \in Workers, work'[x].kind = "claim"
                 PROVE  /\ Assignable(work[x].of)' /\ file'[work'[x].file] = "none"
                        /\ \A v \in Workers \ {x} :
                             work'[v].kind \in {"assign", "claim"} => work'[v].file # work'[x].file
      BY DEF ClaimsStand
    <3>1. x # w /\ work'[x] = work[x] /\ work[x].kind = "claim"
      BY <1>3
    <3>2. work[x].of \in Users \ {u} /\ work[x].file \in Files \ {f}
      BY <1>4, <1>7, <3>1, OperationFields DEF Types
    <3>3. /\ Assignable(work[x].of) /\ file[work[x].file] = "none"
          /\ \A v \in Workers \ {x} :
               work[v].kind \in {"assign", "claim"} => work[v].file # work[x].file
      BY <3>1 DEF LeadsInv, WorkInv, ClaimsStand
    <3>4. Assignable(work[x].of)'
      <4>1. person'[work[x].of] = person[work[x].of]
        BY <1>2, <3>2 DEF Types
      <4> QED
        BY <3>1, <3>3, <4>1 DEF Assignable
    <3>5. file'[work[x].file] = "none"
      BY <1>2, <3>2, <3>3 DEF Types
    <3> QED
      BY <1>3, <3>1, <3>3, <3>4, <3>5
  <2>4. MovingWasOpen'
    <3>1. \A x \in Workers : work[x].kind = "end" => DOMAIN work[x].moving \subseteq Files
      BY MovingFields DEF Types
    <3>2. \A g \in Files : file[g] # "none" => file'[g] # "none"
      BY <1>2 DEF Types
    <3> QED
      BY <1>3, <3>1, <3>2 DEF LeadsInv, WorkInv, MovingWasOpen
  <2> QED
    BY <2>1, <2>2, <2>3, <2>4 DEF WorkInv
<1>10. AdminInv'
  <2>1. AnAdminRemains'
    BY <1>2, <1>5, <1>6 DEF LeadsInv, AdminInv, AnAdminRemains
  <2>2. ASSUME ~crossed, NEW x \in Workers, work'[x].kind = "end", person'[work'[x].of].admin
        PROVE  OtherAdmin(work[x].of)'
    <3>1. x # w /\ work'[x] = work[x] /\ work[x].of \in Users
      BY <1>3, <1>7, <2>2
    <3>2. OtherAdmin(work[x].of)
      BY <1>5, <2>2, <3>1 DEF LeadsInv, AdminInv, AnotherIsLeft
    <3> QED
      BY <1>5, <1>6, <3>1, <3>2 DEF OtherAdmin
  <2>3. AnotherIsLeft'
    BY <1>2, <2>2 DEF AnotherIsLeft
  <2> QED
    BY <2>1, <2>3 DEF AdminInv
<1>11. TurnInv'
  <2>1. ClaimsAreInTurn'
    <3> SUFFICES ASSUME NEW x \in Workers, work'[x].kind = "claim"
                 PROVE  /\ person'[work'[x].of].stamp < work'[x].stamp
                        /\ \A v \in work'[x].passing :
                             person'[work'[x].of].stamp <= person'[v].stamp
      BY DEF ClaimsAreInTurn
    <3>1. x # w /\ work'[x] = work[x] /\ work[x].kind = "claim"
      BY <1>3
    <3>2. work[x].of \in Users \ {u} /\ work[x].passing \subseteq Users
      BY <1>7, <3>1, OperationFields DEF Types
    <3>3. /\ person[work[x].of].stamp < work[x].stamp
          /\ \A v \in work[x].passing : person[work[x].of].stamp <= person[v].stamp
      BY <3>1 DEF LeadsInv, TurnInv, ClaimsAreInTurn
    <3>4. person'[work[x].of].stamp = person[work[x].of].stamp
      BY <1>5, <3>2
    <3>5. ASSUME NEW v \in work[x].passing
          PROVE  person[work[x].of].stamp <= person'[v].stamp
      <4>1. v \in Users /\ person[v].stamp \in Nat /\ person[work[x].of].stamp \in Nat
            /\ person'[v].stamp \in {person[v].stamp, op.stamp}
            /\ (v # u => person'[v].stamp = person[v].stamp)
        BY <1>5, <3>2
      <4>2. CASE v = u
        BY <1>1, <1>4, <3>3, <4>1, <4>2
      <4>3. CASE v # u
        BY <3>3, <4>1, <4>3
      <4> QED
        BY <4>2, <4>3
    <3> QED
      BY <3>1, <3>3, <3>4, <3>5
  <2>2. ASSUME NEW v \in Users PROVE passed'[v] <= Cardinality(Later(v)')
    <3> DEFINE L == Later(v)
               M == {x \in Users : person'[x].stamp > person'[v].stamp}
    <3>1. Later(v)' = M
      BY DEF Later
    <3>2. IsFiniteSet(L) /\ Cardinality(L) \in Nat /\ passed[v] <= Cardinality(L)
          /\ passed[v] \in Nat
      BY LaterIsFinite DEF LeadsInv, TurnInv, PassedByLater, Types
    <3>3. IsFiniteSet(M) /\ Cardinality(M) \in Nat
      <4>1. M \subseteq Users
        OBVIOUS
      <4> HIDE DEF M
      <4> QED
        BY <4>1, StaffAssumption, FS_Subset, FS_CardinalityType
    <3>4. CASE v = u
      <4>1. passed'[v] = 0
        BY <3>4 DEF CommitLead
      <4> QED
        BY <3>1, <3>3, <4>1
    <3>5. CASE v # u
      <4>1. L \subseteq M
        <5> SUFFICES ASSUME NEW x \in L PROVE x \in M
          OBVIOUS
        <5>1. x \in Users /\ person[x].stamp > person[v].stamp
          BY DEF Later
        <5>2. /\ person'[v].stamp = person[v].stamp /\ person[v].stamp \in Nat
              /\ person[x].stamp \in Nat
              /\ person'[x].stamp = IF x = u THEN op.stamp ELSE person[x].stamp
          BY <1>5, <3>5, <5>1
        <5>3. person'[x].stamp > person[v].stamp
          <6>1. CASE x = u
            BY <1>1, <1>4, <5>1, <5>2, <6>1
          <6>2. CASE x # u
            BY <5>1, <5>2, <6>2
          <6> QED
            BY <6>1, <6>2
        <5> QED
          BY <5>1, <5>2, <5>3
      <4>2. CASE v \in op.passing /\ person[v].stamp < op.stamp
        <5>1. u \notin L
          <6>1. person[u].stamp <= person[v].stamp /\ person[u].stamp \in Nat
                /\ person[v].stamp \in Nat
            BY <1>1, <1>4, <1>5, <4>2
          <6> QED
            BY <6>1 DEF Later
        <5>2. u \in M
          <6>1. /\ person'[u].stamp = op.stamp /\ person'[v].stamp = person[v].stamp
                /\ person[v].stamp \in Nat
            BY <1>1, <1>5, <3>5
          <6> QED
            BY <1>1, <4>2, <6>1
        <5>3. Cardinality(L \cup {u}) = Cardinality(L) + 1
          <6> HIDE DEF L, u
          <6> QED
            BY <3>2, <5>1, FS_AddElement
        <5>4. Cardinality(L \cup {u}) <= Cardinality(M)
          <6> HIDE DEF L, M, u
          <6> QED
            BY <3>3, <4>1, <5>2, FS_Subset
        <5>5. passed'[v] \in {passed[v], passed[v] + 1}
          BY <3>5 DEF CommitLead
        <5> HIDE DEF L, M, u
        <5> QED
          BY <3>1, <3>2, <3>3, <5>3, <5>4, <5>5
      <4>3. CASE ~(v \in op.passing /\ person[v].stamp < op.stamp)
        <5>1. passed'[v] = passed[v]
          BY <3>5, <4>3 DEF CommitLead
        <5>2. Cardinality(L) <= Cardinality(M)
          <6> HIDE DEF L, M
          <6> QED
            BY <3>3, <4>1, FS_Subset
        <5> HIDE DEF L, M
        <5> QED
          BY <3>1, <3>2, <3>3, <5>1, <5>2
      <4> QED
        BY <4>2, <4>3
    <3> QED
      BY <3>4, <3>5
  <2> QED
    BY <2>1, <2>2 DEF TurnInv, PassedByLater
<1> QED
  BY <1>8, <1>9, <1>10, <1>11 DEF LeadsInv

(* The files of the one who ends go to the one who takes over.             *)
LEMMA CommitEndLeads ==
  ASSUME Types, LeadsInv, NEW w \in Workers, CommitEnd(w)
  PROVE  LeadsInv'
<1> DEFINE op == work[w]
           to == op.to
           M == DOMAIN op.moving
           ends == op.how # "change role"
<1>0. op \in Operation /\ op.kind = "end"
  BY DEF CommitEnd, Types
<1>1. PICK u \in Users : u = op.of
  BY <1>0, OperationFields
<1>2. /\ M \subseteq Files /\ \A f \in M : op.moving[f] \in {"primary", "holds"}
      /\ \A f \in M : file[f] # "none" /\ to \in Users \ {u}
  <2>1. M \subseteq Files /\ \A f \in M : op.moving[f] \in {"primary", "holds"}
    BY <1>0, MovingFields
  <2>2. \A f \in M : file[f] # "none" /\ to \in Users \ {u}
    BY <1>0, <1>1 DEF LeadsInv, WorkInv, MovingWasOpen
  <2> QED
    BY <2>1, <2>2
<1>3. /\ \A v \in Users \ {u} : person'[v] = person[v]
      /\ ~ends => person'[u].state = person[u].state
      /\ ends => person'[u].state \in {"inactive", "deleted"}
      /\ person'[u].activated = person[u].activated /\ person'[u].stamp = person[u].stamp
  BY <1>1, EndedPerson
<1>4. /\ \A v \in Users \ {u} : Assignable(v)' <=> Assignable(v)
      /\ ~ends => (Assignable(u)' <=> Assignable(u))
  BY <1>3 DEF Assignable
<1>5. /\ file' = file /\ passed' = [passed EXCEPT ![u] = 0]
      /\ \A f \in Files : held'[f] = IF f \in M THEN HandedOver(f, op) ELSE held[f]
      /\ strayed \subseteq strayed'
      /\ ends => OpenFiles(u) \ M \subseteq strayed'
      /\ \A f \in M : ~Assignable(to) \/ op.moving[f] # held[f][u] => f \in strayed'
      /\ crossed' = (crossed \/ (person[u].admin /\ \E v \in Workers \ {w} :
                        work[v].kind = "end" /\ person[work[v].of].admin))
  BY <1>1 DEF CommitEnd
<1>6. \A x \in Workers : work'[x].kind \in {"end", "assign", "claim"} =>
        x # w /\ work'[x] = work[x]
  <2> DEFINE W == IF ends THEN Overtaken(u, w) ELSE work
  <2>1. work' = [W EXCEPT ![w] = Idle]
    BY <1>1 DEF CommitEnd
  <2>2. W \in [Workers -> Operation]
    <3>1. Overtaken(u, w) \in [Workers -> Operation]
      BY OvertakenFields
    <3> QED
      BY <3>1 DEF Types
  <2>3. \A x \in Workers : W[x] = work[x] \/ W[x].kind \in {"sign in", "password"}
    <3> TAKE x \in Workers
    <3>1. work[x] \in Operation
      BY DEF Types
    <3>2. CASE work[x].kind \in {"sign in", "password"}
      <4>1. [work[x] EXCEPT !.late = TRUE].kind = work[x].kind
        BY <3>1, <3>2, LateFields
      <4> QED
        BY <3>2, <4>1 DEF Overtaken
    <3>3. CASE work[x].kind \notin {"sign in", "password"}
      BY <3>3 DEF Overtaken
    <3> QED
      BY <3>2, <3>3
  <2>4. Idle.kind = "idle"
    BY DEF Idle
  <2> HIDE DEF W
  <2> QED
    BY <2>1, <2>2, <2>3, <2>4
<1>7. \A x \in Workers \ {w} : work[x].kind \in {"end", "claim"} =>
        work[x].of \in Users \ {u}
  <2> SUFFICES ASSUME NEW x \in Workers \ {w}, work[x].kind \in {"end", "claim"}
               PROVE  work[x].of \in Users \ {u}
    OBVIOUS
  <2>1. work[x].of \in Users
    BY OperationFields DEF Types
  <2>2. Locks(w, u) /\ Locks(x, work[x].of)
    BY <1>0, <1>1 DEF Locks
  <2> QED
    BY <2>1, <2>2 DEF LeadsInv, WorkInv, LocksExclude
<1>8. ASSUME NEW f \in M, op.moving[f] = "primary"
      PROVE  /\ f \in Files /\ held'[f][to] = "primary" /\ held'[f][u] = "no"
             /\ \A v \in Users \ {to} : held'[f][v] # "primary"
             /\ \A v \in Users \ {to} : held'[f][v] # "no" => held[f][v] # "no"
  <2>1. f \in Files /\ held'[f] = HandedOver(f, op) /\ to \in Users \ {u}
    BY <1>2, <1>5
  <2> QED
    BY <1>1, <1>8, <2>1 DEF HandedOver
<1>9. ASSUME NEW f \in M, op.moving[f] # "primary"
      PROVE  /\ f \in Files /\ held'[f][u] = "no"
             /\ held'[f][to] = IF held[f][to] = "no" THEN "holds" ELSE held[f][to]
             /\ \A v \in Users \ {to, u} : held'[f][v] = held[f][v]
  <2>1. f \in Files /\ held'[f] = HandedOver(f, op) /\ to \in Users \ {u}
    BY <1>2, <1>5
  <2>2. held[f] \in [Users -> {"no", "holds", "primary"}]
    BY <2>1 DEF Types
  <2>3. held'[f] = [held[f] EXCEPT ![u] = "no", ![to] = IF @ = "no" THEN "holds" ELSE @]
    BY <1>1, <1>9, <2>1 DEF HandedOver
  <2> HIDE DEF to, op
  <2> QED
    BY <2>1, <2>2, <2>3
<1>10. HeldInv'
  <2>1. OnePrimary'
    <3> SUFFICES ASSUME NEW f \in Files, NEW x \in Users, NEW v \in Users,
                        held'[f][x] = "primary", held'[f][v] = "primary"
                 PROVE  x = v
      BY DEF OnePrimary
    <3>1. CASE f \in M /\ op.moving[f] = "primary"
      BY <1>8, <3>1
    <3>2. CASE f \in M /\ op.moving[f] # "primary"
      <4>1. \A y \in Users : held'[f][y] = "primary" => held[f][y] = "primary"
        BY <1>9, <3>2
      <4> QED
        BY <4>1 DEF LeadsInv, HeldInv, OnePrimary
    <3>3. CASE f \notin M
      BY <1>5, <3>3 DEF LeadsInv, HeldInv, OnePrimary
    <3> QED
      BY <3>1, <3>2, <3>3
  <2>2. NothingHeldBefore'
    BY <1>2, <1>5, ZenonT(40) DEF LeadsInv, HeldInv, NothingHeldBefore, Holds
  <2>3. HeldHasAPrimary'
    <3> SUFFICES ASSUME NEW f \in Files \ strayed', NEW v \in Users, held'[f][v] # "no"
                 PROVE  \E x \in Users : held'[f][x] = "primary"
      BY DEF HeldHasAPrimary, Holds
    <3>1. CASE f \in M /\ op.moving[f] = "primary"
      BY <1>2, <1>8, <3>1
    <3>2. CASE f \in M /\ op.moving[f] # "primary"
      <4>1. held[f][u] = "holds"
        BY <1>2, <1>5, <3>2
      <4>2. PICK x \in Users : held[f][x] = "primary"
        BY <1>5, <4>1 DEF LeadsInv, HeldInv, HeldHasAPrimary, Holds
      <4>3. held'[f][x] = "primary"
        BY <1>9, <3>2, <4>1, <4>2
      <4> QED
        BY <4>3
    <3>3. CASE f \notin M
      BY <1>5, <3>3 DEF LeadsInv, HeldInv, HeldHasAPrimary, Holds
    <3> QED
      BY <3>1, <3>2, <3>3
  <2>4. HoldersCanSignIn'
    <3> SUFFICES ASSUME NEW f \in Files \ strayed', file'[f] = "open", NEW v \in Users,
                        held'[f][v] # "no"
                 PROVE  Assignable(v)'
      BY DEF HoldersCanSignIn, Holds
    <3>1. \A x \in Users : held[f][x] # "no" => Assignable(x)
      BY <1>5 DEF LeadsInv, HeldInv, HoldersCanSignIn, Holds
    <3>2. CASE f \in M
      <4>1. Assignable(to) /\ to \in Users \ {u} /\ v # u
        BY <1>2, <1>5, <1>8, <1>9, <3>2
      <4>2. CASE v = to
        <5>1. Assignable(v)
          BY <4>1, <4>2
        <5> HIDE DEF to
        <5> QED
          BY <1>4, <4>1, <5>1
      <4>3. CASE v # to
        <5>1. held[f][v] # "no"
          BY <1>8, <1>9, <3>2, <4>1, <4>3
        <5> QED
          BY <1>4, <3>1, <4>1, <5>1
      <4> QED
        BY <4>2, <4>3
    <3>3. CASE f \notin M
      <4>1. held[f][v] # "no" /\ file[f] = "open"
        BY <1>5, <3>3
      <4>2. CASE v # u
        BY <1>4, <3>1, <4>1, <4>2
      <4>3. CASE v = u
        <5>1. ~ends
          BY <1>5, <3>3, <4>1, <4>3 DEF OpenFiles, Holds
        <5> QED
          BY <1>4, <3>1, <4>1, <4>3, <5>1
      <4> QED
        BY <4>2, <4>3
    <3> QED
      BY <3>2, <3>3
  <2> QED
    BY <2>1, <2>2, <2>3, <2>4 DEF HeldInv
<1>11. WorkInv'
  <2>1. LocksExclude'
    BY <1>6 DEF LeadsInv, WorkInv, LocksExclude, Locks
  <2>2. LockedIsThere'
    BY <1>3, <1>6, <1>7, ZenonT(40) DEF LeadsInv, WorkInv, LockedIsThere
  <2>3. ClaimsStand'
    <3> SUFFICES ASSUME NEW x \in Workers, work'[x].kind = "claim"
                 PROVE  /\ Assignable(work[x].of)' /\ file'[work'[x].file] = "none"
                        /\ \A v \in Workers \ {x} :
                             work'[v].kind \in {"assign", "claim"} => work'[v].file # work'[x].file
      BY DEF ClaimsStand
    <3>1. x # w /\ work'[x] = work[x] /\ work[x].kind = "claim"
      BY <1>6
    <3>2. work[x].of \in Users \ {u}
      BY <1>7, <3>1
    <3>3. /\ Assignable(work[x].of) /\ file[work[x].file] = "none"
          /\ \A v \in Workers \ {x} :
               work[v].kind \in {"assign", "claim"} => work[v].file # work[x].file
      BY <3>1 DEF LeadsInv, WorkInv, ClaimsStand
    <3>4. Assignable(work[x].of)'
      BY <1>3, <3>1, <3>2, <3>3 DEF Assignable
    <3> QED
      BY <1>5, <1>6, <3>1, <3>3, <3>4
  <2>4. MovingWasOpen'
    BY <1>5, <1>6 DEF LeadsInv, WorkInv, MovingWasOpen
  <2> QED
    BY <2>1, <2>2, <2>3, <2>4 DEF WorkInv
<1>12. AdminInv'
  <2>1. person[u].admin /\ ~crossed => OtherAdmin(u)
    BY <1>0, <1>1 DEF LeadsInv, AdminInv, AnotherIsLeft
  <2>2. AnAdminRemains'
    <3>1. CASE person[u].admin
      BY <1>3, <1>4, <1>5, <2>1, <3>1 DEF AnAdminRemains, OtherAdmin
    <3>2. CASE ~person[u].admin
      BY <1>3, <1>4, <1>5, <3>2 DEF LeadsInv, AdminInv, AnAdminRemains
    <3> QED
      BY <3>1, <3>2
  <2>3. ASSUME ~crossed', NEW x \in Workers, work'[x].kind = "end", person'[work'[x].of].admin
        PROVE  OtherAdmin(work[x].of)'
    <3>1. x # w /\ work'[x] = work[x] /\ work[x].kind = "end" /\ work[x].of \in Users \ {u}
      BY <1>6, <1>7, <2>3
    <3>2. person[work[x].of].admin /\ ~crossed
      BY <1>3, <1>5, <2>3, <3>1
    <3>3. ~person[u].admin
      BY <1>5, <2>3, <3>1, <3>2
    <3>4. PICK v \in Users \ {work[x].of} : person[v].admin /\ Assignable(v)
      BY <3>1, <3>2 DEF LeadsInv, AdminInv, AnotherIsLeft, OtherAdmin
    <3>5. v # u
      BY <3>3, <3>4
    <3>6. person'[v].admin /\ Assignable(v)'
      BY <1>3, <1>4, <3>4, <3>5
    <3> QED
      BY <3>1, <3>4, <3>6 DEF OtherAdmin
  <2>4. AnotherIsLeft'
    BY <2>3 DEF AnotherIsLeft
  <2> QED
    BY <2>2, <2>4 DEF AdminInv
<1>13. TurnInv'
  <2>1. \A v \in Users : person'[v].stamp = person[v].stamp
    BY <1>3
  <2>2. ClaimsAreInTurn'
    <3>1. \A x \in Workers : work[x].kind = "claim" =>
            work[x].of \in Users /\ work[x].passing \subseteq Users
      BY OperationFields DEF Types
    <3> QED
      BY <1>6, <2>1, <3>1 DEF LeadsInv, TurnInv, ClaimsAreInTurn
  <2>3. ASSUME NEW v \in Users PROVE passed'[v] <= Cardinality(Later(v)')
    <3>1. Later(v)' = Later(v)
      BY <2>1 DEF Later
    <3>2. passed[v] <= Cardinality(Later(v)) /\ Cardinality(Later(v)) \in Nat
      BY LaterIsFinite DEF LeadsInv, TurnInv, PassedByLater
    <3>3. passed'[v] \in {0, passed[v]}
      BY <1>5 DEF Types
    <3> QED
      BY <3>1, <3>2, <3>3
  <2> QED
    BY <2>2, <2>3 DEF TurnInv, PassedByLater
<1> QED
  BY <1>10, <1>11, <1>12, <1>13 DEF LeadsInv

LEMMA LeadsKept ==
  ASSUME AccessInv, LeadsInv, [Next]_vars
  PROVE  LeadsInv'
<1> Types
  BY DEF AccessInv
<1>1. ASSUME NEW w \in Workers, AskStep(w) PROVE LeadsInv'
  <2>1. CASE \/ \E i \in Links : FindInvitation(w, i)
             \/ \E s \in Sessions : AskPassword(w, s)
             \/ \E u \in Users : SignIn(w, u)
    BY <2>1, UserStepsAreQuiet, QuietLeads
  <2>2. CASE \/ \E how \in {"deactivate", "delete", "change role"}, actor, u \in Users,
                   to \in Users \cup {None} : LockTarget(w, how, actor, u, to)
             \/ \E f \in Files, u \in Users : AskAssign(w, f, u) \/ ClaimNext(w, f, u)
    BY <2>2, AskStepLeads
  <2> QED
    BY <1>1, <2>1, <2>2 DEF AskStep
<1>2. ASSUME NEW w \in Workers, WorkStep(w) PROVE LeadsInv'
  <2>1. CASE Activate(w) \/ OpenSession(w) \/ WritePassword(w) \/ EndSessions(w) \/ Fail(w)
    BY <2>1, UserStepsAreQuiet, QuietLeads
  <2>2. CASE CommitEnd(w) \/ Assign(w) \/ CommitLead(w)
    BY <2>2, CommitEndLeads, AssignLeads, CommitLeadLeads
  <2> QED
    BY <1>2, <2>1, <2>2 DEF WorkStep
<1>3. CASE \/ \E u \in Users : \/ \E admin, rotation \in BOOLEAN : CreateStaff(u, admin, rotation)
                              \/ ResendInvitation(u) \/ Reactivate(u) \/ MakeAdmin(u)
                              \/ \E on \in BOOLEAN : SetRotation(u, on)
           \/ \E on \in BOOLEAN : SetRoundRobin(on)
           \/ \E i \in Links : Expire(i)
           \/ \E s \in Sessions : Refuse(s) \/ SignOut(s)
           \/ UNCHANGED vars
  BY <1>3, UserStepsAreQuiet, QuietLeads
<1>4. CASE \E f \in Files : LeadForNobody(f) \/ Close(f) \/ Reopen(f)
  BY <1>4, FileStepLeads
<1> QED
  BY <1>1, <1>2, <1>3, <1>4 DEF Next

-----------------------------------------------------------------------------
(* The invariant holds at first ...                                        *)
LEMMA InitInv ==
  ASSUME Init
  PROVE  AccessInv /\ LeadsInv
<1>1. Types
  <2>1. person \in [Users -> Person]
    BY DEF Init, Account, Person, States
  <2>2. /\ file \in [Files -> {"none", "open", "closed"}]
        /\ held \in [Files -> [Users -> {"no", "holds", "primary"}]]
    BY DEF Init
  <2>4. /\ link \in [Links -> Link \cup {None}] /\ session \in [Sessions -> Session \cup {None}]
        /\ roundRobin \in BOOLEAN /\ late \subseteq Sessions /\ strayed \subseteq Files
        /\ crossed \in BOOLEAN
    BY DEF Init
  <2>5. steps \in 0 .. MaxSteps /\ passed \in [Users -> Nat]
    BY StaffAssumption DEF Init
  <2>3. work \in [Workers -> Operation]
    BY DEF Init, Operation
  <2> QED
    BY <2>1, <2>2, <2>3, <2>4, <2>5 DEF Types
<1>2. Idle.kind = "idle"
  BY DEF Idle
<1>3. \A w \in Workers : work[w].kind = "idle"
  BY <1>2 DEF Init
<1>4. /\ \A u \in Users : /\ person[u].state \in {"none", "active"} /\ person[u].stamp = 0
                          /\ person[u].state = "none" => ~person[u].activated
      /\ \E u \in Users : person[u].admin /\ Assignable(u)
  <2>1. PICK admins \in (SUBSET Users) \ {{}}, others \in SUBSET Users :
          person = [u \in Users |-> IF u \in admins THEN Account("active", TRUE, TRUE)
                                    ELSE IF u \in others THEN Account("active", TRUE, FALSE)
                                    ELSE Account("none", FALSE, FALSE)]
    BY DEF Init
  <2>2. ASSUME NEW u \in Users
        PROVE  /\ person[u].state \in {"none", "active"} /\ person[u].stamp = 0
               /\ person[u].state = "none" => ~person[u].activated
               /\ u \in admins => person[u].admin /\ person[u].activated
    BY <2>1 DEF Account
  <2>3. PICK a \in admins : a \in Users
    BY <2>1
  <2> QED
    BY <2>2, <2>3 DEF Assignable
<1>5. AccessInv
  <2>1. ActivationNamesItsLink /\ SignInsAreCurrent
    BY <1>3 DEF ActivationNamesItsLink, SignInsAreCurrent
  <2>2. NoneIsNobody
    BY <1>4 DEF NoneIsNobody
  <2>3. (\A i \in Links : link[i] = None) /\ (\A s \in Sessions : session[s] = None)
    BY DEF Init
  <2>4. OneWorkingLink /\ NothingBeforeActivation /\ SessionsEndWithAccess
    BY <1>3, <2>3 DEF OneWorkingLink, NothingBeforeActivation, SessionsEndWithAccess
  <2> QED
    BY <1>1, <2>1, <2>2, <2>4 DEF AccessInv
<1>6. HeldInv
  <2>1. PICK f \in Files, u \in Users :
          /\ Assignable(u)
          /\ file = [g \in Files |-> IF g = f THEN "open" ELSE "none"]
          /\ held = [g \in Files |-> [v \in Users |-> IF g = f /\ v = u THEN "primary" ELSE "no"]]
    BY DEF Init
  <2>2. \A g \in Files, v \in Users :
          /\ held[g][v] # "no" => g = f /\ v = u
          /\ file[g] = "none" => g # f
    BY <2>1
  <2>3. held[f][u] = "primary"
    BY <2>1
  <2> QED
    BY <2>1, <2>2, <2>3 DEF HeldInv, OnePrimary, NothingHeldBefore, HeldHasAPrimary,
       HoldersCanSignIn, Holds
<1>7. WorkInv
  BY <1>3 DEF WorkInv, LocksExclude, Locks, LockedIsThere, ClaimsStand, MovingWasOpen
<1>8. AdminInv
  BY <1>3, <1>4 DEF AdminInv, AnAdminRemains, AnotherIsLeft
<1>9. TurnInv
  <2>1. ASSUME NEW u \in Users PROVE passed[u] <= Cardinality(Later(u))
    BY <1>1, LaterIsFinite DEF Init
  <2> QED
    BY <1>3, <2>1 DEF TurnInv, ClaimsAreInTurn, PassedByLater
<1> QED
  BY <1>5, <1>6, <1>7, <1>8, <1>9 DEF LeadsInv

(* ... and after every step.                                               *)
LEMMA Invariant == Spec => [](AccessInv /\ LeadsInv)
<1>1. Init => AccessInv /\ LeadsInv
  BY InitInv
<1>2. AccessInv /\ LeadsInv /\ [Next]_vars => (AccessInv /\ LeadsInv)'
  BY AccessKept, LeadsKept DEF LeadsInv, WorkInv
<1> QED
  BY <1>1, <1>2, PTL DEF Spec

-----------------------------------------------------------------------------
(* Every variable keeps its type, a file has one primary at most, and one  *)
(* that is not there yet is held by nobody.                                *)
THEOREM TypeCorrect == Spec => []TypeOK
<1>1. ASSUME AccessInv, LeadsInv PROVE TypeOK
  <2>1. ASSUME NEW f \in Files PROVE Cardinality({u \in Users : held[f][u] = "primary"}) <= 1
    <3> DEFINE P == {u \in Users : held[f][u] = "primary"}
    <3>1. CASE P = {}
      BY <3>1, FS_EmptySet
    <3>2. CASE P # {}
      <4>1. PICK u \in P : TRUE
        BY <3>2
      <4>2. P = {u}
        BY <1>1, <4>1 DEF LeadsInv, HeldInv, OnePrimary
      <4>3. Cardinality(P) = 1
        BY <4>2, FS_Singleton
      <4> QED
        BY <4>3
    <3> QED
      BY <3>1, <3>2
  <2>2. \A f \in Files : file[f] = "none" => \A u \in Users : ~Holds(f, u)
    BY <1>1 DEF LeadsInv, HeldInv, NothingHeldBefore
  <2> QED
    BY <1>1, <2>1, <2>2 DEF AccessInv, Types, TypeOK
<1> QED
  BY <1>1, Invariant, PTL

(* Invitations and sessions end with the access they gave, whatever        *)
(* requests overlap.                                                       *)
THEOREM AccessEndsWithTheAccount == Spec => []AccessEnds
<1>1. AccessInv /\ TypeOK => AccessEnds
  BY DEF AccessInv, AccessEnds
<1> QED
  BY <1>1, TypeCorrect, Invariant, PTL

(* The leads, the CRM and the turns of the rotation are looked after.      *)
THEOREM SomebodyLooksAfterThem == Spec => []LeadsAreLookedAfter
<1>1. ASSUME AccessInv, LeadsInv PROVE LeadsAreLookedAfter
  <2>1. NobodyGoneHoldsALead
    BY <1>1 DEF LeadsInv, HeldInv, HeldHasAPrimary, HoldersCanSignIn, NobodyGoneHoldsALead
  <2>2. AnAdminRemains
    BY <1>1 DEF LeadsInv, AdminInv
  <2>3. ASSUME NEW u \in Users PROVE passed[u] < Cardinality(Users)
    <3>1. /\ IsFiniteSet(Later(u)) /\ Cardinality(Later(u)) \in Nat
          /\ Later(u) \subseteq Users \ {u} /\ passed[u] <= Cardinality(Later(u))
          /\ passed[u] \in Nat
      BY <1>1, LaterIsFinite DEF AccessInv, Types, LeadsInv, TurnInv, PassedByLater
    <3>2. Cardinality(Users \ {u}) = Cardinality(Users) - 1 /\ IsFiniteSet(Users \ {u})
          /\ Cardinality(Users) \in Nat
      BY StaffAssumption, FS_RemoveElement, FS_CardinalityType
    <3>3. Cardinality(Later(u)) <= Cardinality(Users \ {u})
      BY <3>1, <3>2, FS_Subset
    <3> QED
      BY <3>1, <3>2, <3>3
  <2> QED
    BY <2>1, <2>2, <2>3 DEF LeadsAreLookedAfter, RotationIsFair
<1> QED
  BY <1>1, Invariant, PTL
=============================================================================
