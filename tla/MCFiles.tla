------------------------------ MODULE MCFiles ------------------------------
(* What moves a file along its pipeline: meetings (the story "meetings"),  *)
(* and people who move it while others change the stages (the story        *)
(* "stages").  The other story stands still.                               *)
EXTENDS Appointments

CONSTANTS
  Pipes, Stages, Home, Files, Admins, Needs, StartPipes, StartStages, StartFiles

VARIABLES story, pipe, stage, claim, file, moves, frayed

(* Pipeline 1 is the default one; 2 has an open stage to spare; 3 is yet   *)
(* to be created, and has a slot less than pipeline 2 has stages.          *)
MCHome == <<1, 1, 1, 2, 2, 2, 2, 3, 3, 3>>
MCCat == <<"open", "won", "lost", "open", "open", "won", "lost", "open", "open", "open">>
MCNeeds == [s \in 1 .. 10 |->
  CASE s \in {2, 6} -> {"facts"} [] s \in {3, 7} -> {"disposition"}
    [] s \in {1, 4} -> {"not once pushed"} [] OTHER -> {}]
MCPipes == [p \in 1 .. 3 |-> [state |-> IF p = 3 THEN "new" ELSE "live",
                              default |-> p = 1, active |-> p # 3]]
MCStages == [s \in 1 .. 10 |-> [state |-> IF MCHome[s] = 3 THEN "new" ELSE "live",
                                cat |-> MCCat[s], active |-> MCHome[s] # 3, position |-> s]]

(* A file that is not there yet and one that was lost.                     *)
MCNotHere == [on |-> 0, in |-> 0, here |-> FALSE, facts |-> FALSE, pushed |-> FALSE,
            lost |-> FALSE, disposition |-> FALSE, automated |-> FALSE,
            strayed |-> FALSE, late |-> FALSE]
MCFile(on) == [MCNotHere EXCEPT !.on = on, !.in = MCHome[on], !.here = TRUE]
MCFiles == {[f \in Files |-> x] : x \in
  {MCNotHere, [MCFile(3) EXCEPT !.lost = TRUE, !.disposition = TRUE]}}

\* Both stories use the variables `work` and `steps`.
Board == INSTANCE Pipelines

ASSUME FilesAssumption ==
  Board!PipelinesAssumption /\ Board!StartAssumption /\ AppointmentsAssumption

boardVars == <<pipe, stage, claim, file, moves, frayed>>
meetingVars ==
  <<appt, events, connected, jobs, tries, next, place, clock, fails, exits, old, stale, cut,
    spent>>

\* What the variables of the other story are.
Still == 0

MCInit ==
  \/ /\ story = "meetings" /\ Init
     /\ pipe = Still /\ stage = Still /\ claim = Still /\ file = Still
     /\ moves = Still /\ frayed = Still
  \/ /\ story = "stages" /\ Board!Init
     /\ appt = Still /\ events = Still /\ connected = Still /\ jobs = Still
     /\ tries = Still /\ next = Still /\ place = Still /\ clock = Still
     /\ fails = Still /\ exits = Still
     /\ old = Still /\ stale = Still /\ cut = Still /\ spent = Still

MCNext ==
  \/ /\ story = "meetings" /\ Next
     /\ UNCHANGED <<story, boardVars>>
  \/ /\ story = "stages" /\ Board!Next
     /\ UNCHANGED <<story, meetingVars>>

MCSpec == MCInit /\ [][MCNext]_<<story, vars, boardVars>>

MCSymmetry == Permutations(Workers) \cup Permutations(Hosts)

(* The more people do, the less goes wrong: calls Google does not answer   *)
(* and exits.  Where an older row was written over a newer, or the process *)
(* or the connection ended in between, nothing more is said of the meeting.*)
Judged == story = "meetings" => steps + fails + exits <= 4 /\ stale \cup cut # Appts

-----------------------------------------------------------------------------
(* The stages and the files; the meetings, the calendars and the jobs.     *)
TypesOK == IF story = "meetings" THEN TypeOK ELSE Board!TypeOK

(* pipelines.ts, stage-moves.ts: there is one default pipeline, nothing    *)
(* that is in use goes, and a file's marks say how it left its pipeline.   *)
PipelinesHold ==
  story = "stages" => Board!OneDefault /\ Board!NothingInUseGoes /\ Board!FilesTellTheTruth

(* appointments.ts, google-calendar.ts: when nobody is at work and nothing *)
(* is left to try, the calendars show the meetings and only those, and the *)
(* file's next meeting and the reminders are those of the clock.           *)
MeetingsStand == story = "meetings" => CalendarsAgree /\ ClockIsKept
=============================================================================
