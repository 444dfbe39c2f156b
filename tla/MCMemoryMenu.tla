---------------------------- MODULE MCMemoryMenu ----------------------------
(* Instances of MemoryMenu for TLC: two sizes below the limit and two from *)
(* it on, so that the limit itself, a size above it and an empty file occur*)
EXTENDS MemoryMenu
=============================================================================
