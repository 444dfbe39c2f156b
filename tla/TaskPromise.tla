---------------------------- MODULE TaskPromise ----------------------------
(***************************************************************************)
(* What a client of STPrivilegedTask may rely on, with no timers, pids or  *)
(* waitpid: a job it starts runs, exits with a result, and is then, and    *)
(* only then, reported done with exactly that result.                      *)
(***************************************************************************)
CONSTANTS Tasks, Statuses

VARIABLES
  job,      \* what each task is doing
  result,   \* the exit status of its current process, 0 before it has one
  reported  \* the status the task reports

vars == <<job, result, reported>>

Init ==
  /\ job = [t \in Tasks |-> "idle"]
  /\ result = [t \in Tasks |-> 0]
  /\ reported = [t \in Tasks |-> 0]

(* A task starts for the first time or again; the old report stays.        *)
Start(t) ==
  /\ job[t] \in {"idle", "done"}
  /\ job' = [job EXCEPT ![t] = "running"]
  /\ result' = [result EXCEPT ![t] = 0]
  /\ UNCHANGED reported

Exit(t) ==
  /\ job[t] = "running"
  /\ job' = [job EXCEPT ![t] = "exited"]
  /\ \E s \in Statuses : result' = [result EXCEPT ![t] = s]
  /\ UNCHANGED reported

Report(t) ==
  /\ job[t] = "exited"
  /\ job' = [job EXCEPT ![t] = "done"]
  /\ reported' = [reported EXCEPT ![t] = result[t]]
  /\ UNCHANGED result

Next == \E t \in Tasks : Start(t) \/ Exit(t) \/ Report(t)

(* An exit is always reported in the end.                                  *)
Exited(t) == job[t] = "exited"
Done(t) == job[t] = "done"
Reported(t) == Exited(t) ~> Done(t)

Spec == Init /\ [][Next]_vars /\ \A t \in Tasks : Reported(t)
=============================================================================
