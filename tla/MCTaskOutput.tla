---------------------------- MODULE MCTaskOutput ----------------------------
(* Instances of TaskOutput for TLC: two tasks and two tools, each of which *)
(* can write more than its pipe holds.                                     *)
EXTENDS TaskOutput
=============================================================================
