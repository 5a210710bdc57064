----------------------------- MODULE Pipelines -----------------------------
(***************************************************************************)
(* Pipelines, their stages and the files that stand on them:               *)
(* src/services/pipelines.ts (what an administrator may do),               *)
(* src/services/stage-moves.ts with src/domain/pipeline.ts (a file's move) *)
(* and the two other writers of applications.stage_key, the importer and   *)
(* the confirmation of a funding.                                          *)
(*                                                                         *)
(* A transaction that reads, decides and then writes is two steps here;    *)
(* the row locks it holds in between are those of `work`.  A move and an   *)
(* import look at the stages before they write, without a lock.            *)
(***************************************************************************)
EXTENDS Naturals, FiniteSets, Functions

CONSTANTS
  Pipes,       \* pipelines, those to be created included
  Stages,      \* stages, those to be created included
  Home,        \* Home[s]: the pipeline of stage s, which never changes
  Files,
  Admins,      \* bound: administrators at work at the same time
  Needs,       \* Needs[s]: entry_rules of stage s, a subset of Rules
  StartPipes,  \* StartPipes[p]: pipelines as they are at first
  StartStages, \* StartStages[s]: stages as they are at first
  StartFiles,  \* sets of files, as they may be at first
  MaxSteps     \* bound: requests, imports and facts recorded

Category == {"open", "parked", "won", "lost"}
Rules == {"facts", "disposition", "not once pushed"}
NoPipe == 0
NoStage == 0

PipelinesAssumption ==
  /\ Pipes \subseteq Nat \ {NoPipe} /\ Stages \subseteq Nat \ {NoStage}
  /\ IsFiniteSet(Pipes) /\ IsFiniteSet(Stages)
  /\ Home \in [Stages -> Pipes] /\ Needs \in [Stages -> SUBSET Rules]
  /\ MaxSteps \in Nat

VARIABLES
  pipe,     \* pipe[p]: its row
  stage,    \* stage[s]: its row
  claim,    \* the pipeline that claims the purpose, or none (pipeline_purposes)
  file,     \* file[f]: the columns of its row that matter here
  work,     \* work[a]: the transaction administrator a has open
  moves,    \* moves and imports that have looked at the stages and not written yet
  steps,
  frayed    \* pipelines changed while another change to them was being decided,
            \* and copies of those that lack something

vars == <<pipe, stage, claim, file, work, moves, steps, frayed>>

Pipe == [state : {"new", "live", "archived"}, default : BOOLEAN, active : BOOLEAN]
Stage == [state : {"new", "live", "archived"}, cat : Category, active : BOOLEAN, position : Nat]

(* `lost` is lost_at, `disposition` lost_disposition_key, `automated` that *)
(* an enrollment is active or paused; `strayed` and `late` are ghosts: the *)
(* stage's meaning changed under the file, or its place did in between a   *)
(* look and a write.                                                       *)
FileRow ==
  [on : Stages \cup {NoStage}, in : Pipes \cup {NoPipe}, here : BOOLEAN, facts : BOOLEAN,
   pushed : BOOLEAN, lost : BOOLEAN, disposition : BOOLEAN, automated : BOOLEAN,
   strayed : BOOLEAN, late : BOOLEAN]
NotHere == [on |-> NoStage, in |-> NoPipe, here |-> FALSE, facts |-> FALSE, pushed |-> FALSE,
            lost |-> FALSE, disposition |-> FALSE, automated |-> FALSE,
            strayed |-> FALSE, late |-> FALSE]
Idle == [kind |-> "idle"]

(* What the seed leaves: one default pipeline, active ones with all they   *)
(* need, nothing under a pipeline yet to be created, files where they say. *)
StartAssumption ==
  /\ StartPipes \in [Pipes -> Pipe] /\ StartStages \in [Stages -> Stage]
  /\ \E p \in Pipes : /\ \A q \in Pipes : StartPipes[q].default <=> q = p
                      /\ StartPipes[p].state = "live" /\ StartPipes[p].active
  /\ \A s \in Stages :
       /\ StartStages[s].state = "live" => StartPipes[Home[s]].state = "live"
       /\ StartPipes[Home[s]].state = "new" => StartStages[s].state = "new"
  /\ \A p \in Pipes : StartPipes[p].state = "live" /\ StartPipes[p].active =>
       \A c \in {"open", "won", "lost"} : \E s \in Stages :
         /\ Home[s] = p /\ StartStages[s].state = "live" /\ StartStages[s].active
         /\ StartStages[s].cat = c
  /\ StartFiles \subseteq [Files -> FileRow]
  /\ \A start \in StartFiles, f \in Files : start[f].here =>
       LET r == start[f]  s == StartStages[r.on] IN
         /\ r.on \in Stages /\ r.in = Home[r.on] /\ s.state = "live"
         /\ r.lost = (s.cat = "lost") /\ (r.disposition => s.cat = "lost")
         /\ r.automated => s.cat \notin {"won", "lost"}

Init ==
  /\ pipe = StartPipes /\ stage = StartStages /\ claim = NoPipe
  /\ file \in StartFiles
  /\ work = [a \in Admins |-> Idle]
  /\ moves = {} /\ steps = 0 /\ frayed = {}

-----------------------------------------------------------------------------
(* What the requests read.                                                 *)

StagesOf(p) == {s \in Stages : Home[s] = p /\ stage[s].state = "live"}
Usable(s) ==
  /\ stage[s].state = "live" /\ stage[s].active
  /\ pipe[Home[s]].state = "live" /\ pipe[Home[s]].active

(* pipelineProblems finds none; `rows` are the stages as they would be.    *)
Complete(rows) ==
  \A c \in {"open", "won", "lost"} : \E r \in rows : r.active /\ r.cat = c

First(S) == CHOOSE s \in S : \A t \in S : stage[s].position <= stage[t].position
EntryStageOf(p) ==
  LET open == {s \in StagesOf(p) : stage[s].active /\ stage[s].cat = "open"} IN
    IF open = {} THEN NoStage ELSE First(open)

Default == CHOOSE p \in Pipes : pipe[p].state = "live" /\ pipe[p].default
PipelineForPurpose(claiming) ==
  IF claiming /\ claim # NoPipe /\ pipe[claim].active THEN claim ELSE Default
EntryStage(claiming) ==
  LET at == EntryStageOf(PipelineForPurpose(claiming)) IN
    IF at # NoStage THEN at ELSE EntryStageOf(Default)

OnStage(s) == {f \in Files : file[f].here /\ file[f].on = s}

(* Fault: the pipeline is read without FOR UPDATE.                         *)
NotLocked(p) == FALSE

(* Rows locked FOR UPDATE by the transactions that are open.               *)
PipeLocked(p) == \E a \in Admins : work[a].kind \in {"edit pipe", "delete pipe"} /\ work[a].pipe = p

StageLocked(s) == \E a \in Admins : work[a].kind \in {"edit stage", "delete stage"}
    /\ work[a].stage = s

-----------------------------------------------------------------------------
(* The administrator: a request is opened (lock, read, refuse) ...         *)

Saw(p) == [row |-> pipe[p], rows |-> [s \in {t \in Stages : Home[t] = p} |-> stage[s]]]

Open(a, op) ==
  /\ work[a] = Idle /\ steps < MaxSteps
  /\ work' = [work EXCEPT ![a] = op]
  /\ steps' = steps + 1
  /\ UNCHANGED <<pipe, stage, claim, file, moves, frayed>>

OpenEditPipe(a, p, change) ==
  /\ pipe[p].state = "live" /\ ~PipeLocked(p)
  /\ CASE change = "activate" -> ~pipe[p].active /\ Complete({stage[s] : s \in StagesOf(p)})
       [] change = "deactivate" -> pipe[p].active /\ ~pipe[p].default
       [] change = "make default" -> pipe[p].active /\ ~pipe[p].default
       [] change = "claim" -> claim # p
  /\ Open(a, [kind |-> "edit pipe", pipe |-> p, change |-> change, saw |-> Saw(p)])

(* Every stage with files needs a target in another pipeline that is used. *)
OpenDeletePipe(a, p, target) ==
  LET occupied == {s \in Stages : \E f \in OnStage(s) : file[f].in = p} IN
  /\ pipe[p].state = "live" /\ ~PipeLocked(p) /\ ~pipe[p].default
  /\ occupied # {} => Usable(target) /\ Home[target] # p
  /\ Open(a, [kind |-> "delete pipe", pipe |-> p, target |-> target,
              occupied |-> occupied, counted |-> UNION {OnStage(s) : s \in occupied},
              saw |-> Saw(p), aim |-> stage[target]])

StageOpen(s) ==
  /\ stage[s].state = "live" /\ pipe[Home[s]].state = "live" /\ ~StageLocked(s)

OpenEditStage(a, s, new) ==
  /\ StageOpen(s)
  /\ pipe[Home[s]].active => Complete({stage[t] : t \in StagesOf(Home[s]) \ {s}} \cup {new})
  /\ Open(a, [kind |-> "edit stage", stage |-> s, pipe |-> Home[s], new |-> new,
         saw |-> Saw(Home[s])])

OpenDeleteStage(a, s, target) ==
  /\ StageOpen(s)
  /\ pipe[Home[s]].active => Complete({stage[t] : t \in StagesOf(Home[s]) \ {s}})
  /\ OnStage(s) # {} => target # s /\ Usable(target)
  /\ Open(a, [kind |-> "delete stage", stage |-> s, pipe |-> Home[s], target |-> target,
              occupied |-> {t \in {s} : OnStage(t) # {}}, counted |-> OnStage(s),
              saw |-> Saw(Home[s]), aim |-> stage[target]])

(* ... and writes and commits.  A commit that finds the pipeline other     *)
(* than it was read leaves it frayed.                                      *)
Fray(op) == IF Saw(op.pipe) = op.saw THEN frayed ELSE frayed \cup {op.pipe}

Close(a) == work' = [work EXCEPT ![a] = Idle]

CommitEditPipe(a) ==
  LET op == work[a] IN
  /\ op.kind = "edit pipe"
  /\ CASE op.change = "make default" ->
            (* the other default's row is written too: its lock is waited for *)
            /\ ~\E q \in Pipes \ {op.pipe} : pipe[q].default /\ PipeLocked(q)
            /\ pipe' = [p \in Pipes |-> [pipe[p] EXCEPT !.default = (p = op.pipe)]]
            /\ UNCHANGED claim
       [] op.change = "claim" -> claim' = op.pipe /\ UNCHANGED pipe
       [] OTHER -> /\ pipe' = [pipe EXCEPT ![op.pipe].active = (op.change = "activate")]
                   /\ UNCHANGED claim
  /\ frayed' = Fray(op) /\ Close(a)
  /\ UNCHANGED <<stage, file, moves, steps>>

(* moveFiles: one statement, no event, no rule, no automation stopped.     *)
Moved(f, target, seen) ==
  [file[f] EXCEPT !.on = target, !.in = Home[target],
     !.strayed = @ \/ stage[file[f].on].cat # stage[target].cat \/ seen.cat # stage[target].cat,
     !.late = @ \/ seen # stage[target] \/ ~Usable(target)]

(* Fault: the files of an archived stage stay on it.                       *)
NonePlaced(gone, op) ==
  file' = [f \in Files |-> IF file[f].on \in gone /\ f \notin op.counted
                             THEN [file[f] EXCEPT !.late = TRUE] ELSE file[f]]

(* Every stage that was found occupied is emptied; what reached another    *)
(* one meanwhile is left behind.                                           *)
Placed(gone, op) ==
  file' = [f \in Files |->
             CASE file[f].here /\ file[f].on \in gone \cap op.occupied ->
                      Moved(f, op.target, op.aim)
               [] file[f].here /\ file[f].on \in gone \ op.occupied ->
                      [file[f] EXCEPT !.late = TRUE]
               [] OTHER -> file[f]]

(* Fault: the claims of a pipeline survive it.                             *)
Kept(p) == claim

(* What claimed the purpose is free again.                                 *)
Freed(p) == IF claim = p THEN NoPipe ELSE claim

CommitDeletePipe(a) ==
  LET op == work[a] IN
  /\ op.kind = "delete pipe"
  /\ ~\E s \in StagesOf(op.pipe) : StageLocked(s)
  /\ Placed(StagesOf(op.pipe), op)
  /\ stage' = [s \in Stages |-> IF s \in StagesOf(op.pipe)
                 THEN [stage[s] EXCEPT !.state = "archived", !.active = FALSE] ELSE stage[s]]
  /\ pipe' = [pipe EXCEPT ![op.pipe] = [state |-> "archived", default |-> FALSE, active |-> FALSE]]
  /\ claim' = Freed(op.pipe)
  /\ frayed' = Fray(op) /\ Close(a)
  /\ UNCHANGED <<moves, steps>>

CommitEditStage(a) ==
  LET op == work[a] IN
  /\ op.kind = "edit stage"
  /\ stage' = [stage EXCEPT ![op.stage].cat = op.new.cat, ![op.stage].active = op.new.active]
  /\ file' = [f \in Files |-> [file[f] EXCEPT !.strayed =
                @ \/ (file[f].on = op.stage /\ op.new.cat # stage[op.stage].cat)]]
  /\ frayed' = Fray(op) /\ Close(a)
  /\ UNCHANGED <<pipe, claim, moves, steps>>

(* renumber writes the remaining stages: their locks are waited for.       *)
CommitDeleteStage(a) ==
  LET op == work[a]
      remaining == StagesOf(op.pipe) \ {op.stage} IN
  /\ op.kind = "delete stage"
  /\ ~\E s \in remaining : StageLocked(s)
  /\ Placed({op.stage}, op)
  /\ stage' = [stage EXCEPT ![op.stage].state = "archived", ![op.stage].active = FALSE]
  /\ frayed' = Fray(op) /\ Close(a)
  /\ UNCHANGED <<pipe, claim, moves, steps>>

(* The connection is lost, or Postgres ends one of two that wait for each  *)
(* other: nothing was written.                                             *)
Rollback(a) ==
  /\ work[a] # Idle
  /\ Close(a)
  /\ UNCHANGED <<pipe, stage, claim, file, moves, steps, frayed>>

(* createPipeline: the stages of `from`, as they are, or the starter set,  *)
(* in their order; at[x] is the row that x becomes.                        *)
Starter ==
  [i \in 1 .. 3 |-> [state |-> "live", cat |-> <<"open", "won", "lost">>[i], active |-> TRUE,
                     position |-> i]]
Template(from) == IF from = NoPipe THEN Starter ELSE [s \in StagesOf(from) |-> stage[s]]

CreatePipeline(p, from, default) ==
  LET rows == Template(from) IN
  /\ steps < MaxSteps /\ pipe[p].state = "new"
  /\ default => ~\E q \in Pipes : pipe[q].default /\ PipeLocked(q)
  /\ DOMAIN rows # {}
  /\ \E at \in Injection(DOMAIN rows, {s \in Stages : Home[s] = p}) :
       /\ \A x, y \in DOMAIN rows : rows[x].position < rows[y].position => at[x] < at[y]
       /\ stage' = [s \in Stages |-> IF \E x \in DOMAIN rows : at[x] = s
            THEN [rows[CHOOSE x \in DOMAIN rows : at[x] = s] EXCEPT !.position = s]
            ELSE stage[s]]
  /\ pipe' = [q \in Pipes |-> IF q = p
       THEN [state |-> "live", default |-> default, active |-> TRUE]
       ELSE [pipe[q] EXCEPT !.default = @ /\ ~default]]
  /\ frayed' = IF Complete({rows[x] : x \in DOMAIN rows}) THEN frayed ELSE frayed \cup {p}
  /\ steps' = steps + 1
  /\ UNCHANGED <<claim, file, work, moves>>

CreateStage(s, cat) ==
  /\ steps < MaxSteps /\ stage[s].state = "new"
  /\ pipe[Home[s]].state = "live" /\ ~PipeLocked(Home[s])
  /\ ~\E t \in StagesOf(Home[s]) : StageLocked(t)
  /\ stage' = [stage EXCEPT ![s] = [state |-> "live", cat |-> cat, active |-> TRUE, position |-> s]]
  /\ steps' = steps + 1
  /\ UNCHANGED <<pipe, claim, file, work, moves, frayed>>

(* moveStage: two neighbours change places.                                *)
MoveStage(s, t) ==
  /\ steps < MaxSteps /\ StageOpen(s) /\ s # t /\ t \in StagesOf(Home[s])
  /\ ~\E u \in StagesOf(Home[s]) : StageLocked(u)
  /\ ~\E u \in StagesOf(Home[s]) \ {s, t} :
       \/ stage[s].position < stage[u].position /\ stage[u].position < stage[t].position
       \/ stage[t].position < stage[u].position /\ stage[u].position < stage[s].position
  /\ stage' = [stage EXCEPT ![s].position = stage[t].position, ![t].position = stage[s].position]
  /\ steps' = steps + 1
  /\ UNCHANGED <<pipe, claim, file, work, moves, frayed>>

-----------------------------------------------------------------------------
(* Files.                                                                  *)

(* What is read of the stages before a file is written: loadStages, before *)
(* moveFileToStage's transaction; entryStage, by the importer for a file   *)
(* it does not know; the first won stage, when a funding is confirmed.     *)
Target(f, kind, t) ==
  CASE kind = "move" ->
         /\ file[f].here /\ t # file[f].on
         /\ stage[t].state = "live" /\ pipe[Home[t]].state = "live" /\ pipe[Home[t]].active
    [] kind = "import" -> ~file[f].here /\ \E claiming \in BOOLEAN : t = EntryStage(claiming)
    [] kind = "fund" ->
         LET won == {s \in StagesOf(file[f].in) : stage[s].active /\ stage[s].cat = "won"} IN
           file[f].here /\ won # {} /\ t = First(won)

Look(f, kind, target, force, disposition) ==
  /\ steps < MaxSteps
  /\ ~\E m \in moves : m.file = f
  /\ Target(f, kind, target)
  /\ force \/ disposition => kind = "move"
  /\ moves' = moves \cup {[file |-> f, kind |-> kind, target |-> target, force |-> force,
                           disposition |-> disposition, rows |-> stage, used |-> Usable(target)]}
  /\ steps' = steps + 1
  /\ UNCHANGED <<pipe, stage, claim, file, work, frayed>>

(* evaluateTransition, with the file as it is and the stage as it was.     *)
Refused(m) ==
  LET f == file[m.file] IN
  \/ ~m.rows[m.target].active
  \/ "facts" \in Needs[m.target] /\ ~f.facts
  \/ "disposition" \in Needs[m.target] /\ ~(f.disposition \/ m.disposition)
  \/ "not once pushed" \in Needs[m.target] /\ f.pushed

(* Fault: leaving a lost stage leaves the reason behind.                   *)
KeepReason(m) ==
  LET to == m.rows[m.target] IN
  [file[m.file] EXCEPT !.on = m.target, !.in = Home[m.target],
     !.lost = (to.cat = "lost"),
     !.disposition = IF to.cat = "lost" THEN @ \/ m.disposition ELSE @,
     !.automated = @ /\ to.cat \notin {"lost", "won"}]

(* transitionEffects: what leaving and entering do to the file.            *)
Effects(m) ==
  LET old == file[m.file]
      from == m.rows[old.on]
      fromLost == from.state = "live" /\ from.cat = "lost"
      to == m.rows[m.target]
      stops == \/ to.cat \in {"lost", "won"}
               \/ fromLost /\ to.cat # "lost"
               \/ from.state = "live" /\ from.cat = "open" /\ to.cat = "parked" IN
  [old EXCEPT !.on = m.target, !.in = Home[m.target],
     !.lost = IF to.cat = "lost" THEN TRUE ELSE @ /\ ~fromLost,
     !.disposition = IF to.cat = "lost" THEN @ \/ m.disposition ELSE @ /\ ~fromLost,
     !.automated = @ /\ ~stops,
     !.strayed = @ \/ from.state # "live" \/ from.cat # stage[old.on].cat
         \/ to.cat # stage[m.target].cat]

Outdated(m) == stage[m.target] # m.rows[m.target] \/ m.used # Usable(m.target)

MoveFile(m) ==
  /\ m.kind = "move"
  /\ moves' = moves \ {m}
  /\ IF Refused(m) /\ ~m.force
       THEN UNCHANGED file
       ELSE file' = [file EXCEPT ![m.file] = [Effects(m) EXCEPT !.late = Outdated(m)]]
  /\ UNCHANGED <<pipe, stage, claim, work, steps, frayed>>

(* The importer inserts; the trigger derives the pipeline.  The client's   *)
(* first sequence starts with the file.                                    *)
ImportFile(m) ==
  /\ m.kind = "import"
  /\ moves' = moves \ {m}
  /\ file' = [file EXCEPT ![m.file] = [NotHere EXCEPT !.here = TRUE, !.on = m.target,
                !.in = Home[m.target], !.automated = TRUE, !.late = Outdated(m),
                !.strayed = stage[m.target].cat # "open"]]
  /\ UNCHANGED <<pipe, stage, claim, work, steps, frayed>>

(* What the rules ask for is recorded; the deal is pushed to Scarlett.     *)
Learn(f) ==
  /\ steps < MaxSteps /\ file[f].here
  /\ \/ ~file[f].facts /\ file' = [file EXCEPT ![f].facts = TRUE]
     \/ ~file[f].pushed /\ file' = [file EXCEPT ![f].pushed = TRUE]
  /\ steps' = steps + 1
  /\ UNCHANGED <<pipe, stage, claim, work, moves, frayed>>

(* POST /applications/:id/funding/confirm writes the stage itself: it asks *)
(* no rule, stops nothing and clears nothing.                              *)
ConfirmFunding(m) ==
  /\ m.kind = "fund"
  /\ moves' = moves \ {m}
  /\ file' = [file EXCEPT ![m.file].on = m.target, ![m.file].in = Home[m.target],
                ![m.file].strayed = TRUE, ![m.file].late = Outdated(m)]
  /\ UNCHANGED <<pipe, stage, claim, work, steps, frayed>>

-----------------------------------------------------------------------------
AdminOpens(a) ==
  \/ \E p \in Pipes :
       \/ \E change \in {"activate", "deactivate", "make default", "claim"} :
              OpenEditPipe(a, p, change)
       \/ \E t \in Stages : OpenDeletePipe(a, p, t)
  \/ \E s \in Stages :
       \/ OpenEditStage(a, s, [stage[s] EXCEPT !.active = ~@])
       \/ \E cat \in Category \ {stage[s].cat} : OpenEditStage(a, s, [stage[s] EXCEPT !.cat = cat])
       \/ \E t \in Stages : OpenDeleteStage(a, s, t)

AdminCloses(a) ==
  \/ CommitEditPipe(a) \/ CommitDeletePipe(a) \/ CommitEditStage(a) \/ CommitDeleteStage(a)
  \/ Rollback(a)

FileStep(f) ==
  \/ \E kind \in {"move", "import", "fund"}, t \in Stages, force, disposition \in BOOLEAN :
       Look(f, kind, t, force, disposition)
  \/ Learn(f)

MoveStep(m) == MoveFile(m) \/ ImportFile(m) \/ ConfirmFunding(m)

Next ==
  \/ steps < MaxSteps /\ \E a \in Admins : work[a] = Idle /\ AdminOpens(a)
  \/ \E a \in Admins : AdminCloses(a)
  \/ /\ steps < MaxSteps
     /\ \/ \E p \in Pipes, from \in Pipes \cup {NoPipe}, default \in BOOLEAN :
             CreatePipeline(p, from, default)
        \/ \E s \in Stages, cat \in Category : CreateStage(s, cat)
        \/ \E s, t \in Stages : MoveStage(s, t)
  \/ steps < MaxSteps /\ \E f \in Files : FileStep(f)
  \/ \E m \in moves : MoveStep(m)

Spec == Init /\ [][Next]_vars

-----------------------------------------------------------------------------
(* Properties.                                                             *)

TypeOK ==
  /\ pipe \in [Pipes -> Pipe] /\ stage \in [Stages -> Stage]
  /\ claim \in Pipes \cup {NoPipe} /\ (claim # NoPipe => pipe[claim].state = "live")
  /\ file \in [Files -> FileRow]
  /\ \A a \in Admins : work[a].kind \in
       {"idle", "edit pipe", "delete pipe", "edit stage", "delete stage"}
  /\ \A m \in moves : m.file \in Files /\ m.target \in Stages
  /\ steps \in 0 .. MaxSteps /\ frayed \subseteq Pipes

(* "There is always exactly one default pipeline, and it is active": two   *)
(* administrators make defaults, deactivate and delete at the same time.   *)
OneDefault ==
  /\ Cardinality({p \in Pipes : pipe[p].default}) = 1
  /\ \A p \in Pipes : pipe[p].default => pipe[p].state = "live" /\ pipe[p].active

(* A file stands on a stage that is gone, and an active pipeline lacks a   *)
(* stage to start, to win or to lose on, only where something changed      *)
(* between somebody's look and their write (or was copied as it was):      *)
(* never by requests that follow each other.                               *)
NothingInUseGoes ==
  /\ \A f \in Files : file[f].here /\ ~file[f].late /\ file[f].on # NoStage =>
       stage[file[f].on].state = "live" /\ pipe[file[f].in].state = "live"
  /\ \A p \in Pipes \ frayed : pipe[p].state = "live" /\ pipe[p].active =>
       Complete({stage[s] : s \in StagesOf(p)})

(* A file on a stage that is not lost carries no reason for having been    *)
(* lost, one on a lost stage says when, and no sequence goes on chasing a  *)
(* client whose file is funded or lost, whatever moves the file has made:  *)
(* except where an administrator's tidying or a confirmed funding, which   *)
(* do not go through the stage machine, put it there.                      *)
FilesTellTheTruth ==
  \A f \in Files : file[f].here /\ ~file[f].strayed =>
    LET cat == stage[file[f].on].cat IN
      /\ file[f].lost = (cat = "lost")
      /\ file[f].disposition => cat = "lost"
      /\ file[f].automated => cat \notin {"won", "lost"}

-----------------------------------------------------------------------------
(* What the comments say and the code does not do.                         *)

(* pipelines.ts:11 "An active pipeline always has somewhere to start, to   *)
(* win and to lose": not when it is copied from one that has not, nor when *)
(* two stages are edited at the same time.                                 *)
ActiveIsComplete ==
  \A p \in Pipes : pipe[p].state = "live" /\ pipe[p].active =>
    Complete({stage[s] : s \in StagesOf(p)})
=============================================================================
