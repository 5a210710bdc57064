------------------------------- MODULE Staff -------------------------------
(***************************************************************************)
(* The accounts of the brokerage's staff: their invitations and sessions,  *)
(* and the leads they hold: src/services/staff.ts, src/services/auth.ts,   *)
(* src/services/assignment.ts, src/services/leads.ts and the routes of     *)
(* src/http/routes/auth.ts.                                                *)
(*                                                                         *)
(* Many requests read and check before the transaction that writes, so     *)
(* each is two steps.  A transaction that locks an account's row           *)
(* (lockTarget, claimNextInRotation) is two steps as well, and the lock is *)
(* held between them.                                                      *)
(***************************************************************************)
EXTENDS Integers, FiniteSets, FiniteSetsExt

CONSTANTS
  Users, Files,
  Workers,    \* bound: requests at the same time
  Links,      \* bound: invitations ever sent, numbered
  Sessions,   \* bound: sessions ever opened, numbered
  MaxSteps,   \* bound: requests
  None

States == {"none", "active", "inactive", "deleted"}
LinkStates == {"live", "expired", "used", "revoked"}

Link == [of : Users, state : LinkStates]
Session == [of : Users, password : Nat, live : BOOLEAN]

ASSUME StaffAssumption ==
  /\ IsFiniteSet(Users) /\ IsFiniteSet(Workers)
  /\ IsFiniteSet(Links) /\ IsFiniteSet(Sessions)
  /\ Links \subseteq Nat /\ Sessions \subseteq Nat /\ MaxSteps \in Nat
  /\ None \notin Users /\ None \notin Link /\ None \notin Session

VARIABLES
  person,      \* person[u]: the account
  link,        \* link[i]: the invitation, or None
  session,     \* session[s]: the session, or None
  file,        \* "none", "open", or "closed" for a file that is won, lost or archived
  held,        \* held[f][u]: who holds the file as its broker, and whether as the primary
  roundRobin,  \* the organisation's owner rule rotates
  work,        \* work[w]: the request under way
  steps,
  late,        \* ghost: sessions whose sign-in had read the account before its access changed
  strayed,     \* ghost: files given or handed over by a request that others overtook
  crossed,     \* ghost: two admins were being removed at the same time
  passed       \* ghost: leads the rotation has given to others since u's last turn

vars == <<person, link, session, file, held, roundRobin, work, steps, late, strayed, crossed,
    passed>>
access == <<link, session, late>>
leads == <<file, held, strayed, passed>>

Person == [state : States, activated : BOOLEAN, admin : BOOLEAN, rotation : BOOLEAN,
           stamp : Nat, password : Nat]

Idle == [kind |-> "idle"]
Moving == UNION {[S -> {"primary", "holds"}] : S \in SUBSET Files}
Operation ==
  {Idle}
  \cup [kind : {"activate"}, link : Links, of : Users]
  \cup [kind : {"sign in"}, of : Users, late : BOOLEAN, password : Nat]
  \cup [kind : {"password"}, at : {"write", "end"}, of : Users, late : BOOLEAN]
  \cup [kind : {"end"}, how : {"deactivate", "delete", "change role"}, of : Users,
        to : Users \cup {None}, moving : Moving]
  \cup [kind : {"assign"}, of : Users, file : Files]
  \cup [kind : {"claim"}, of : Users, file : Files, stamp : Nat, passing : SUBSET Users]

Assignable(u) == person[u].state = "active" /\ person[u].activated
Locks(w, u) == work[w].kind \in {"end", "claim"} /\ work[w].of = u
Locked(u) == \E w \in Workers : Locks(w, u)
Holds(f, u) == held[f][u] # "no"
OpenFiles(u) == {f \in Files : file[f] = "open" /\ Holds(f, u)}

(* Fault: an admin who cannot sign in counts.                              *)
OtherNamed(u) == \E v \in Users \ {u} : person[v].admin

OtherAdmin(u) == \E v \in Users \ {u} : person[v].admin /\ Assignable(v)

Account(state, activated, admin) ==
  [state |-> state, activated |-> activated, admin |-> admin,
   rotation |-> TRUE, stamp |-> 0, password |-> 0]

(* A brokerage with an admin, perhaps other staff, and a file one holds.   *)
Init ==
  /\ \E admins \in (SUBSET Users) \ {{}}, others \in SUBSET Users :
       person = [u \in Users |-> IF u \in admins THEN Account("active", TRUE, TRUE)
                                 ELSE IF u \in others THEN Account("active", TRUE, FALSE)
                                 ELSE Account("none", FALSE, FALSE)]
  /\ link = [i \in Links |-> None] /\ session = [s \in Sessions |-> None]
  /\ \E f \in Files, u \in Users :
       /\ Assignable(u)
       /\ file = [g \in Files |-> IF g = f THEN "open" ELSE "none"]
       /\ held = [g \in Files |-> [v \in Users |-> IF g = f /\ v = u THEN "primary" ELSE "no"]]
  /\ roundRobin = TRUE
  /\ work = [w \in Workers |-> Idle]
  /\ steps = 0 /\ late = {} /\ strayed = {} /\ crossed = FALSE
  /\ passed = [u \in Users |-> 0]

Start(w, op) == work[w] = Idle /\ steps < MaxSteps /\ steps' = steps + 1
    /\ work' = [work EXCEPT ![w] = op]
Done(w) == work' = [work EXCEPT ![w] = Idle]
Asked == steps < MaxSteps /\ steps' = steps + 1

(* Whoever leaves the rotation, or is passed by nobody, waits from nothing. *)
Waiting(u) == Assignable(u) /\ person[u].rotation

-----------------------------------------------------------------------------
(* Invitations and activation.                                             *)

(* Fault: a new link leaves the earlier ones live.                         *)
IssueAnother(u) ==
  \E i \in Links : link[i] = None /\ link' = [link EXCEPT ![i] = [of |-> u, state |-> "live"]]

Revoked(u) ==
  [i \in Links |-> IF link[i] # None /\ link[i].of = u /\ link[i].state \in {"live", "expired"}
                     THEN [link[i] EXCEPT !.state = "revoked"] ELSE link[i]]

(* A new link replaces the old one.                                        *)
IssueInvitation(u) ==
  /\ \E i \in Links : link[i] = None
  /\ link' = [Revoked(u) EXCEPT ![Min({i \in Links : link[i] = None})] = [of |-> u,
         state |-> "live"]]

CreateStaff(u, admin, rotation) ==
  /\ Asked /\ person[u].state = "none"
  /\ person' = [person EXCEPT ![u] = [Account("active", FALSE, admin) EXCEPT !.rotation = rotation]]
  /\ IssueInvitation(u)
  /\ UNCHANGED <<session, late, leads, roundRobin, work, crossed>>

ResendInvitation(u) ==
  /\ Asked /\ ~Locked(u)
  /\ person[u].state = "active" /\ ~person[u].activated
  /\ IssueInvitation(u)
  /\ UNCHANGED <<person, session, late, leads, roundRobin, work, crossed>>

Expire(i) ==
  /\ link[i] # None /\ link[i].state = "live"
  /\ link' = [link EXCEPT ![i].state = "expired"]
  /\ UNCHANGED <<person, session, late, leads, roundRobin, work, steps, crossed>>

(* findInvitation.                                                         *)
FindInvitation(w, i) ==
  /\ link[i] # None /\ link[i].state = "live"
  /\ ~person[link[i].of].activated /\ person[link[i].of].state = "active"
  /\ Start(w, [kind |-> "activate", link |-> i, of |-> link[i].of])
  /\ UNCHANGED <<person, access, leads, roundRobin, crossed>>

(* Fault: the link is checked when it is found only.                       *)
StillFound(w) == TRUE

StillUsable(w) == link[work[w].link].state = "live"

(* The claim of the link, the password and the end of other links commit   *)
(* together; the route then opens a session.                               *)
Activate(w) ==
  LET u == work[w].of IN
  /\ work[w].kind = "activate" /\ ~Locked(u)
  /\ IF StillUsable(w)
       THEN /\ link' = [Revoked(u) EXCEPT ![work[w].link].state = "used"]
            /\ person' = [person EXCEPT ![u].activated = TRUE, ![u].password = @ + 1]
            /\ work' = [work EXCEPT ![w] = [kind |-> "sign in", of |-> u, late |-> FALSE,
                                            password |-> person[u].password + 1]]
       ELSE UNCHANGED <<link, person>> /\ Done(w)
  /\ UNCHANGED <<session, late, leads, roundRobin, steps, crossed>>

-----------------------------------------------------------------------------
(* Sessions.                                                               *)

(* What is under way on an account whose access changes now is late.       *)
Overtaken(u, but) ==
  [v \in Workers |-> IF v # but /\ work[v].kind \in {"sign in", "password"} /\ work[v].of = u
                       THEN [work[v] EXCEPT !.late = TRUE] ELSE work[v]]

(* signIn: the account is read and the password verified ...               *)
SignIn(w, u) ==
  /\ Assignable(u)
  /\ Start(w, [kind |-> "sign in", of |-> u, late |-> FALSE, password |-> person[u].password])
  /\ UNCHANGED <<person, access, leads, roundRobin, crossed>>

(* ... createSession, by the route.                                        *)
Open(w) ==
  LET s == Min({x \in Sessions : session[x] = None}) IN
  /\ \E x \in Sessions : session[x] = None
  /\ session' = [session EXCEPT ![s] = [of |-> work[w].of, password |-> work[w].password,
         live |-> TRUE]]
  /\ late' = IF work[w].late THEN late \cup {s} ELSE late
  /\ Done(w)

OpenSession(w) ==
  /\ work[w].kind = "sign in" /\ ~Locked(work[w].of)
  /\ Open(w)
  /\ UNCHANGED <<person, link, leads, roundRobin, steps, crossed>>

(* resolveSession: the session of an account that is not active ends.      *)
Accepted(s) == session[s] # None /\ session[s].live /\ person[session[s].of].state = "active"

Refuse(s) ==
  /\ session[s] # None /\ session[s].live /\ person[session[s].of].state # "active"
  /\ session' = [session EXCEPT ![s].live = FALSE]
  /\ UNCHANGED <<person, link, late, leads, roundRobin, work, steps, crossed>>

SignOut(s) ==
  /\ Asked /\ Accepted(s)
  /\ session' = [session EXCEPT ![s].live = FALSE]
  /\ UNCHANGED <<person, link, late, leads, roundRobin, work, crossed>>

(* Fault: nobody is signed out.                                            *)
LeaveSessions(u) == session

SessionsEnded(u) ==
  [s \in Sessions |-> IF session[s] # None /\ session[s].of = u
                        THEN [session[s] EXCEPT !.live = FALSE] ELSE session[s]]

(* POST /password: verify, write, end every session, open one.             *)
AskPassword(w, s) ==
  /\ Accepted(s)
  /\ Start(w, [kind |-> "password", at |-> "write", of |-> session[s].of, late |-> FALSE])
  /\ UNCHANGED <<person, access, leads, roundRobin, crossed>>

WritePassword(w) ==
  LET u == work[w].of IN
  /\ work[w].kind = "password" /\ work[w].at = "write" /\ ~Locked(u)
  /\ person' = [person EXCEPT ![u].password = @ + 1]
  /\ work' = [Overtaken(u, w) EXCEPT ![w].at = "end"]
  /\ UNCHANGED <<access, leads, roundRobin, steps, crossed>>

EndSessions(w) ==
  LET u == work[w].of IN
  /\ work[w].kind = "password" /\ work[w].at = "end"
  /\ session' = SessionsEnded(u)
  /\ work' = [work EXCEPT ![w] = [kind |-> "sign in", of |-> u, late |-> @.late,
         password |-> person[u].password]]
  /\ UNCHANGED <<person, link, late, leads, roundRobin, steps, crossed>>

-----------------------------------------------------------------------------
(* Deactivating, deleting, changing a role.                                *)

(* The account is locked, the rules checked and the open leads read.  The  *)
(* actor is anybody who was given user.manage.                             *)
LockTarget(w, how, actor, u, to) ==
  LET moving == IF how = "change role" THEN {} ELSE OpenFiles(u) IN
  /\ Assignable(actor) /\ actor # u /\ ~Locked(u)
  /\ person[u].state \in (IF how = "deactivate" THEN {"active"} ELSE {"active", "inactive"})
  /\ how = "change role" => person[u].admin
  /\ person[u].admin /\ person[u].state = "active" => OtherAdmin(u)
  /\ IF moving = {} THEN to = None ELSE to # None /\ to # u /\ Assignable(to)
  /\ Start(w, [kind |-> "end", how |-> how, of |-> u, to |-> to,
               moving |-> [f \in moving |-> held[f][u]]])
  /\ UNCHANGED <<person, access, leads, roundRobin, crossed>>

(* Fault: who held the file as its primary is not replaced as one.         *)
OnlyHeld(f, op) == [held[f] EXCEPT ![op.of] = "no", ![op.to] = IF @ = "no" THEN "holds" ELSE @]

(* handOver: the one who takes over is the primary where the other was.    *)
HandedOver(f, op) ==
  IF op.moving[f] = "primary"
    THEN [v \in Users |-> IF v = op.of THEN "no" ELSE IF v = op.to THEN "primary"
                          ELSE IF held[f][v] = "primary" THEN "holds" ELSE held[f][v]]
    ELSE [held[f] EXCEPT ![op.of] = "no", ![op.to] = IF @ = "no" THEN "holds" ELSE @]

CommitEnd(w) ==
  LET op == work[w]  u == op.of  ends == op.how # "change role" IN
  /\ op.kind = "end"
  /\ person' = [person EXCEPT ![u].state = CASE op.how = "deactivate" -> "inactive"
                                             [] op.how = "delete" -> "deleted" [] OTHER -> @,
                              ![u].rotation = IF op.how = "delete" THEN FALSE ELSE @,
                              ![u].admin = IF ends THEN @ ELSE FALSE]
  /\ held' = [f \in Files |-> IF f \in DOMAIN op.moving THEN HandedOver(f, op) ELSE held[f]]
  /\ IF ends THEN link' = Revoked(u) /\ session' = SessionsEnded(u) ELSE UNCHANGED <<link, session>>
  /\ strayed' = strayed \cup (IF ends THEN OpenFiles(u) \ DOMAIN op.moving ELSE {})
                        \cup {f \in DOMAIN op.moving : ~Assignable(op.to)
                            \/ op.moving[f] # held[f][u]}
  /\ crossed' = (crossed \/ (person[u].admin /\ \E v \in Workers \ {w} :
                   work[v].kind = "end" /\ person[work[v].of].admin))
  /\ passed' = [passed EXCEPT ![u] = 0]
  /\ work' = [(IF ends THEN Overtaken(u, w) ELSE work) EXCEPT ![w] = Idle]
  /\ UNCHANGED <<late, file, roundRobin, steps>>

Reactivate(u) ==
  /\ Asked /\ ~Locked(u) /\ person[u].state = "inactive"
  /\ person' = [person EXCEPT ![u].state = "active"]
  /\ UNCHANGED <<access, leads, roundRobin, work, crossed>>

(* updateStaff: round robin on or off for one, a role of technical admin.  *)
SetRotation(u, on) ==
  /\ Asked /\ ~Locked(u) /\ person[u].state \in {"active", "inactive"} /\ person[u].rotation # on
  /\ person' = [person EXCEPT ![u].rotation = on]
  /\ passed' = [passed EXCEPT ![u] = 0]
  /\ UNCHANGED <<access, file, held, strayed, roundRobin, work, crossed>>

MakeAdmin(u) ==
  /\ Asked /\ ~Locked(u) /\ person[u].state \in {"active", "inactive"} /\ ~person[u].admin
  /\ person' = [person EXCEPT ![u].admin = TRUE]
  /\ UNCHANGED <<access, leads, roundRobin, work, crossed>>

SetRoundRobin(on) ==
  /\ Asked /\ roundRobin # on
  /\ roundRobin' = on
  /\ passed' = [u \in Users |-> 0]
  /\ UNCHANGED <<person, access, file, held, strayed, work, crossed>>

-----------------------------------------------------------------------------
(* Leads.                                                                  *)

Primary(f, u) ==
  [v \in Users |-> IF v = u THEN "primary" ELSE IF held[f][v] = "primary" THEN "holds"
      ELSE held[f][v]]

(* createLead for somebody chosen, or assignLead: the person is checked    *)
(* outside the transaction ...                                             *)
AskAssign(w, f, u) ==
  /\ Assignable(u)
  /\ \A v \in Workers : work[v].kind \in {"assign", "claim"} => file[f] # "none" \/ work[v].file # f
  /\ Start(w, [kind |-> "assign", of |-> u, file |-> f])
  /\ UNCHANGED <<person, access, leads, roundRobin, crossed>>

(* ... and put on the file by it.                                          *)
Assign(w) ==
  LET op == work[w] IN
  /\ op.kind = "assign" /\ ~Locked(op.of)
  /\ file' = [file EXCEPT ![op.file] = IF @ = "none" THEN "open" ELSE @]
  /\ held' = [held EXCEPT ![op.file] = Primary(op.file, op.of)]
  /\ strayed' = IF Assignable(op.of) THEN strayed ELSE strayed \cup {op.file}
  /\ Done(w)
  /\ UNCHANGED <<person, access, roundRobin, steps, crossed, passed>>

Rotating == {u \in Users : Waiting(u)}
Free == {u \in Rotating : ~Locked(u)}
Later(u) == {v \in Users : person[v].stamp > person[u].stamp}

(* Fault: the turn just taken is not written down.                         *)
SameStamp(u) == person[u].stamp

NewStamp(u) == 1 + Max({person[v].stamp : v \in Users} \cup
                       {work[w].stamp : w \in {x \in Workers : work[x].kind = "claim"}})

(* claimNextInRotation: the one who has waited longest of those whose row  *)
(* nobody has locked; everybody locked, it waits.                          *)
ClaimNext(w, f, u) ==
  /\ roundRobin /\ file[f] = "none"
  /\ \A v \in Workers : work[v].kind \in {"assign", "claim"} => work[v].file # f
  /\ u \in Free /\ \A v \in Free : person[u].stamp <= person[v].stamp
  /\ Start(w, [kind |-> "claim", of |-> u, file |-> f, stamp |-> NewStamp(u),
         passing |-> Free \ {u}])
  /\ UNCHANGED <<person, access, leads, roundRobin, crossed>>

CommitLead(w) ==
  LET op == work[w] IN
  /\ op.kind = "claim"
  /\ file' = [file EXCEPT ![op.file] = "open"]
  /\ held' = [held EXCEPT ![op.file] = Primary(op.file, op.of)]
  /\ person' = [person EXCEPT ![op.of].stamp = op.stamp]
  /\ passed' = [u \in Users |-> IF u = op.of THEN 0
                                ELSE IF u \in op.passing /\ Waiting(u)
                                        /\ person[u].stamp < op.stamp THEN passed[u] + 1
                                ELSE passed[u]]
  /\ Done(w)
  /\ UNCHANGED <<access, roundRobin, steps, crossed, strayed>>

(* Round robin off, or nobody in it: the lead waits, unassigned.           *)
LeadForNobody(f) ==
  /\ Asked /\ file[f] = "none" /\ (~roundRobin \/ Rotating = {})
  /\ \A v \in Workers : work[v].kind \in {"assign", "claim"} => work[v].file # f
  /\ file' = [file EXCEPT ![f] = "open"]
  /\ UNCHANGED <<person, access, held, strayed, passed, roundRobin, work, crossed>>

Close(f) ==
  /\ Asked /\ file[f] = "open"
  /\ file' = [file EXCEPT ![f] = "closed"]
  /\ UNCHANGED <<person, access, held, strayed, passed, roundRobin, work, crossed>>

(* A lost file comes back with whoever held it.                            *)
Reopen(f) ==
  /\ Asked /\ file[f] = "closed"
  /\ file' = [file EXCEPT ![f] = "open"]
  /\ strayed' = IF \E u \in Users : Holds(f, u) /\ ~Assignable(u) THEN strayed \cup {f} ELSE strayed
  /\ UNCHANGED <<person, access, held, passed, roundRobin, work, crossed>>

-----------------------------------------------------------------------------
(* A transaction that is rolled back, for a deadlock or a lost connection, *)
(* or a request that ends with the process: nothing more of it is done.    *)
Fail(w) ==
  /\ work[w] # Idle
  /\ late' = IF work[w].kind = "password" /\ work[w].at = "end"
               THEN late \cup {s \in Sessions : session[s] # None /\ session[s].of = work[w].of}
                   ELSE late
  /\ Done(w)
  /\ UNCHANGED <<person, link, session, leads, roundRobin, steps, crossed>>

AskStep(w) ==
  \/ \E i \in Links : FindInvitation(w, i)
  \/ \E s \in Sessions : AskPassword(w, s)
  \/ \E how \in {"deactivate", "delete", "change role"}, actor, u \in Users, to \in Users
         \cup {None} :
       LockTarget(w, how, actor, u, to)
  \/ \E u \in Users : SignIn(w, u)
  \/ \E f \in Files, u \in Users : AskAssign(w, f, u) \/ ClaimNext(w, f, u)

WorkStep(w) ==
  \/ Activate(w) \/ OpenSession(w) \/ WritePassword(w) \/ EndSessions(w)
  \/ CommitEnd(w) \/ Assign(w) \/ CommitLead(w) \/ Fail(w)

Next ==
  \/ \E w \in Workers : (steps < MaxSteps /\ work[w] = Idle /\ AskStep(w)) \/ WorkStep(w)
  \/ \E u \in Users : \/ \E admin, rotation \in BOOLEAN : CreateStaff(u, admin, rotation)
                      \/ ResendInvitation(u) \/ Reactivate(u) \/ MakeAdmin(u)
                      \/ \E on \in BOOLEAN : SetRotation(u, on)
  \/ \E on \in BOOLEAN : SetRoundRobin(on)
  \/ \E i \in Links : Expire(i)
  \/ \E s \in Sessions : Refuse(s) \/ SignOut(s)
  \/ \E f \in Files : LeadForNobody(f) \/ Close(f) \/ Reopen(f)

Spec == Init /\ [][Next]_vars

-----------------------------------------------------------------------------
(* Properties.                                                             *)

TypeOK ==
  /\ person \in [Users -> Person]
  /\ link \in [Links -> Link \cup {None}]
  /\ session \in [Sessions -> Session \cup {None}]
  /\ file \in [Files -> {"none", "open", "closed"}]
  /\ held \in [Files -> [Users -> {"no", "holds", "primary"}]]
  /\ \A f \in Files : /\ Cardinality({u \in Users : held[f][u] = "primary"}) <= 1
                      /\ file[f] = "none" => \A u \in Users : ~Holds(f, u)
  /\ roundRobin \in BOOLEAN
  /\ work \in [Workers -> Operation]
  /\ steps \in 0 .. MaxSteps
  /\ late \subseteq Sessions /\ strayed \subseteq Files /\ crossed \in BOOLEAN
  /\ passed \in [Users -> Nat]

(* An account has at most one link that works, none once it is activated   *)
(* or has ended, and no link is used twice: whatever resends, activations  *)
(* and deactivations overlap.                                              *)
OneWorkingLink ==
  \A i \in Links : link[i] # None /\ link[i].state = "live" =>
    /\ person[link[i].of].state = "active" /\ ~person[link[i].of].activated
    /\ \A j \in Links \ {i} : link[j] # None /\ link[j].of = link[i].of => link[j].state # "live"

(* A session the CRM accepts was opened after the last time its account    *)
(* was deactivated, and with the password it has now, unless the sign-in   *)
(* was under way when that changed, or the change is not finished.         *)
SessionsEndWithAccess ==
  \A s \in Sessions \ late : session[s] # None /\ session[s].live =>
    /\ person[session[s].of].state = "active"
    /\ \/ session[s].password = person[session[s].of].password
       \/ \E w \in Workers : work[w].kind = "password" /\ work[w].at = "end"
              /\ work[w].of = session[s].of

(* Ways in, links and sessions, over accounts, leads and requests that are *)
(* what their schema says (one primary of a file, held by nobody before).  *)
AccessEnds == TypeOK /\ OneWorkingLink /\ SessionsEndWithAccess

(* An open file that anybody holds has a primary, and everybody who holds  *)
(* it can sign in: nobody ends with open leads, except by a change that    *)
(* overtook the check of another.                                          *)
NobodyGoneHoldsALead ==
  \A f \in Files \ strayed : file[f] = "open" =>
    \A u \in Users : Holds(f, u) =>
      /\ Assignable(u)
      /\ \E v \in Users : held[f][v] = "primary"

(* There is always an active technical admin, unless two were being        *)
(* removed at the same time.                                               *)
AnAdminRemains == crossed \/ \E u \in Users : person[u].admin /\ Assignable(u)

(* However lead requests overlap and fail, nobody who stays in the         *)
(* rotation is passed over for more leads than it has other people, those  *)
(* given while a request held their row aside.                             *)
RotationIsFair == \A u \in Users : passed[u] < Cardinality(Users)

(* Who is there: for the leads, for the CRM itself, and by turns.          *)
LeadsAreLookedAfter == NobodyGoneHoldsALead /\ AnAdminRemains /\ RotationIsFair

-----------------------------------------------------------------------------
(* What the comments say and the code does not do.                         *)

(* src/services/staff.ts:21 "Inactive and deleted staff never hold open    *)
(* leads".                                                                 *)
NeverHoldOpenLeads ==
  \A f \in Files, u \in Users :
    file[f] = "open" /\ person[u].state \in {"inactive", "deleted"} => ~Holds(f, u)

(* src/services/staff.ts:447 "The brokerage must never be left without     *)
(* somebody who can manage staff and settings".                            *)
AnAdminAlways == \E u \in Users : person[u].admin /\ Assignable(u)
=============================================================================
