---------------------------- MODULE MCEnrollment ----------------------------
(* Small instances of Enrollment for TLC. *)
EXTENDS Enrollment

MCSendWait == <<"send", "wait">>
MCWaitTask == <<"wait", "task">>

(* One thing goes wrong: a statement throws, or the process ends.          *)
OneTrouble == faults + exits <= 1
=============================================================================
