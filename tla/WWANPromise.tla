---------------------------- MODULE WWANPromise ----------------------------
(***************************************************************************)
(* What forcing the cellular connection promises, without blocks, streams  *)
(* or run loops: one connection, which is idle, being forced or held. The  *)
(* promise is void once the client is careless or the program crashed.     *)
(***************************************************************************)
VARIABLES connection, void

vars == <<connection, void>>

Init == connection = "idle" /\ void = FALSE

Force ==
  /\ connection = "idle"
  /\ connection' = "forcing"
  /\ UNCHANGED void

Connect ==
  /\ connection = "forcing" /\ ~void
  /\ connection' = "held"
  /\ UNCHANGED void

Shutdown ==
  /\ connection = "held"
  /\ connection' = "idle"
  /\ UNCHANGED void

Void ==
  /\ void' = TRUE
  /\ connection' \in {"idle", "forcing", "held", "lost"}

Next == Force \/ Connect \/ Shutdown \/ Void

(* What is forced is held in the end.                                      *)
Forcing == connection = "forcing" /\ ~void
Settled == connection = "held" \/ void

Spec == Init /\ [][Next]_vars /\ (Forcing ~> Settled)
=============================================================================
