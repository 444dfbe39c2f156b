---------------------------- MODULE WatchPromise ----------------------------
(***************************************************************************)
(* What watching the network promises, without any of its objects: one     *)
(* watcher at a time, which is told of a change or stops. The promise is   *)
(* void once watchers overlap or the program has crashed.                  *)
(***************************************************************************)
CONSTANTS Watchers, NoWatcher

VARIABLES watcher, news, void

vars == <<watcher, news, void>>

Init == watcher = NoWatcher /\ news = FALSE /\ void = FALSE

Start ==
  /\ watcher = NoWatcher
  /\ watcher' \in Watchers
  /\ UNCHANGED <<news, void>>

Stop ==
  /\ watcher # NoWatcher
  /\ watcher' = NoWatcher
  /\ news' = FALSE
  /\ UNCHANGED void

Change ==
  /\ watcher # NoWatcher
  /\ news' = TRUE
  /\ UNCHANGED <<watcher, void>>

Tell ==
  /\ news /\ ~void
  /\ news' = FALSE
  /\ UNCHANGED <<watcher, void>>

Void ==
  /\ void' = TRUE
  /\ watcher' \in Watchers \cup {NoWatcher}
  /\ news' \in BOOLEAN

Next == Start \/ Stop \/ Change \/ Tell \/ Void

(* The watcher is told in the end, or stops.                               *)
News == news /\ ~void
Told == ~news \/ void

Spec == Init /\ [][Next]_vars /\ (News ~> Told)
=============================================================================
