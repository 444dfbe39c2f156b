--------------------------- MODULE MCWWANConnect ---------------------------
(* Instances of WWANConnect for TLC: three blocks, two of calls nested in *)
(* one another and the third of a connection made before them, or free to  *)
(* be handed out again. Liveness is checked, so no symmetry is declared.   *)
EXTENDS WWANConnect
=============================================================================
