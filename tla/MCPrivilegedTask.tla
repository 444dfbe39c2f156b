-------------------------- MODULE MCPrivilegedTask --------------------------
(* Instances of PrivilegedTask for TLC: two tasks, so that one can take    *)
(* the other's child, and enough children for a relaunch.                  *)
EXTENDS PrivilegedTask, TLC

Perms == Permutations(Tasks) \cup Permutations(Children)
=============================================================================
