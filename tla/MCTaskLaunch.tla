---------------------------- MODULE MCTaskLaunch ----------------------------
(* Instances of TaskLaunch for TLC: one character in ASCII and one outside,*)
(* and a short that one task can outgrow.                                  *)
EXTENDS TaskLaunch

MCStrings == {[units |-> 1, bytes |-> 1], [units |-> 1, bytes |-> 3]}
=============================================================================
