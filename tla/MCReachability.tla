--------------------------- MODULE MCReachability ---------------------------
(* Instances of Reachability for TLC: two watchers, who can overlap or take*)
(* turns, over a few objects, so that a watch can be started, lost and     *)
(* started again. Liveness is checked, so no symmetry is declared.         *)
EXTENDS Reachability
=============================================================================
