--------------------------- MODULE PrivilegedTask ---------------------------
(***************************************************************************)
(* STPrivilegedTask (Classes/STPrivilegedTask.m): an object that runs a    *)
(* tool as root through Authorization Services and learns of its exit in   *)
(* two competing ways, a 0.1 s NSTimer that polls waitpid(WNOHANG) and the *)
(* blocking -waitUntilExit.                                                *)
(*                                                                         *)
(* All of it runs on the thread of the run loop, so a method is one step   *)
(* except where it gives the thread away: inside the notification it posts *)
(* (client code runs there), and while waitpid blocks (only the children   *)
(* make progress then).                                                    *)
(*                                                                         *)
(* A successful launch makes one child, one pid and one timer; the three   *)
(* share one identity, a member of Children, and it is never reused (the   *)
(* kernel wraps its pids after thousands of forks).                        *)
(***************************************************************************)
EXTENDS Naturals, FiniteSets

CONSTANTS
  Tasks,          \* the STPrivilegedTask objects of the program
  Children,       \* the processes that launches fork, with their timers
  Statuses,       \* exit statuses; 0 is also what an unset ivar holds
  NoTask, NoChild,
  MaxPosts,       \* bound: notifications are counted up to here
  WaitUnlaunched, \* do clients wait on a task whose launch failed?
  RelaunchEarly   \* do clients launch again while a timer still polls?

ASSUME TaskAssumption ==
  /\ NoTask \notin Tasks
  /\ NoChild \notin Children
  /\ Statuses \subseteq Nat
  /\ 0 \in Statuses
  /\ MaxPosts \in Nat /\ MaxPosts >= 2
  /\ WaitUnlaunched \in BOOLEAN
  /\ RelaunchEarly \in BOOLEAN

VARIABLES
  isRunning,          \* ivar of each task
  pid,                \* ivar of each task, NoChild for the initial 0
  terminationStatus,  \* ivar of each task
  held,               \* does the client still retain the task?
  child,              \* kernel: state of each process
  status,             \* kernel: exit status of each process
  target,             \* which task forked the process (and is its timer's target)
  timer,              \* run loop: state of the timer scheduled with the process
  posts,              \* notifications posted from each timer
  handler,            \* the timer inside whose notification the client runs
  waiting,            \* the task inside whose -waitUntilExit the thread is
  crashed             \* a message went to a freed timer

taskVars   == <<isRunning, pid, terminationStatus, held>>
kernelVars == <<child, status, target>>
vars == <<taskVars, kernelVars, timer, posts, handler, waiting, crashed>>

TypeOK ==
  /\ isRunning \in [Tasks -> BOOLEAN]
  /\ pid \in [Tasks -> Children \cup {NoChild}]
  /\ terminationStatus \in [Tasks -> Statuses]
  /\ held \in [Tasks -> BOOLEAN]
  /\ child \in [Children -> {"unused", "running", "zombie", "reaped"}]
  /\ status \in [Children -> Statuses]
  /\ target \in [Children -> Tasks \cup {NoTask}]
  /\ timer \in [Children -> {"none", "valid", "invalid"}]
  /\ posts \in [Children -> 0..MaxPosts]
  /\ handler \in Children \cup {NoChild}
  /\ waiting \in Tasks \cup {NoTask}
  /\ crashed \in BOOLEAN

Init ==
  /\ isRunning = [t \in Tasks |-> FALSE]
  /\ pid = [t \in Tasks |-> NoChild]
  /\ terminationStatus = [t \in Tasks |-> 0]
  /\ held = [t \in Tasks |-> TRUE]
  /\ child = [c \in Children |-> "unused"]
  /\ status = [c \in Children |-> 0]
  /\ target = [c \in Children |-> NoTask]
  /\ timer = [c \in Children |-> "none"]
  /\ posts = [c \in Children |-> 0]
  /\ handler = NoChild
  /\ waiting = NoTask
  /\ crashed = FALSE
-----------------------------------------------------------------------------
(* The thread runs client code for task t: the client holds t and no       *)
(* waitpid blocks. In a handler or in an event from the run loop alike.    *)
ClientRuns(t) == waiting = NoTask /\ ~crashed /\ held[t]

(* The timers of t that the run loop still fires; each one retains t.      *)
LiveTimers(t) == {c \in Children : target[c] = t /\ timer[c] = "valid"}

(* -dealloc has run: no client and no run loop timer retains the task.     *)
Deallocated(t) == ~held[t] /\ LiveTimers(t) = {}

(* The ivar checkStatusTimer is assigned where pid is, by -launch alone.   *)
checkStatusTimer(t) == pid[t]

(* Slip: a timer is scheduled by the first launch only.                    *)
ForkReusingTimer(t) ==
  /\ RelaunchEarly \/ LiveTimers(t) = {}
  /\ \E c \in Children :
       /\ child[c] = "unused"
       /\ child' = [child EXCEPT ![c] = "running"]
       /\ target' = [target EXCEPT ![c] = t]
       /\ timer' = [timer EXCEPT ![c] = IF pid[t] = NoChild THEN "valid" ELSE "invalid"]
       /\ pid' = [pid EXCEPT ![t] = c]
  /\ isRunning' = [isRunning EXCEPT ![t] = TRUE]
  /\ UNCHANGED <<terminationStatus, held, status, posts, handler, crashed>>

(* What a successful -launch does: the fork, and then every assignment     *)
(* from isRunning to checkStatusTimer. The guard is the client's discipline*)
(* of RelaunchEarly; the code has none.                                    *)
Fork(t) ==
  /\ RelaunchEarly \/ LiveTimers(t) = {}
  /\ \E c \in Children :
       /\ child[c] = "unused"
       /\ child' = [child EXCEPT ![c] = "running"]
       /\ target' = [target EXCEPT ![c] = t]
       /\ timer' = [timer EXCEPT ![c] = "valid"]
       /\ pid' = [pid EXCEPT ![t] = c]
  /\ isRunning' = [isRunning EXCEPT ![t] = TRUE]
  /\ UNCHANGED <<terminationStatus, held, status, posts, handler, crashed>>

(* -launch. When the authorization is denied or the execution fails it     *)
(* returns before its first assignment: a step that changes nothing.       *)
Launch(t) == ClientRuns(t) /\ Fork(t) /\ UNCHANGED waiting

(* -waitUntilExit enters waitpid.                                          *)
WaitUntilExit(t) ==
  /\ ClientRuns(t)
  /\ pid[t] # NoChild \/ WaitUnlaunched
  /\ waiting' = t
  /\ UNCHANGED <<taskVars, kernelVars, timer, posts, handler, crashed>>

(* +launchedPrivilegedTaskWithLaunchPath: launches, drops the result and   *)
(* waits, whether the launch succeeded or not.                             *)
LaunchedPrivilegedTask(t) ==
  /\ ClientRuns(t)
  /\ pid[t] = NoChild
  /\ waiting' = t
  /\ \/ Fork(t)
     \/ /\ WaitUnlaunched
        /\ UNCHANGED <<taskVars, kernelVars, timer, posts, handler, crashed>>

(* The children waitpid(pid, ...) speaks of. Its first argument 0, which   *)
(* is the ivar of a task never launched, names every child of the program. *)
Awaited(t) ==
  IF pid[t] = NoChild THEN {c \in Children : child[c] \in {"running", "zombie"}}
                      ELSE {pid[t]}

(* Slip: the status is discarded.                                          *)
ReapDiscarding(t, c) ==
  /\ c \in Awaited(t)
  /\ child[c] = "zombie"
  /\ child' = [child EXCEPT ![c] = "reaped"]
  /\ UNCHANGED terminationStatus

(* waitpid collects a zombie and stores its status ...                     *)
Reap(t, c) ==
  /\ c \in Awaited(t)
  /\ child[c] = "zombie"
  /\ child' = [child EXCEPT ![c] = "reaped"]
  /\ terminationStatus' = [terminationStatus EXCEPT ![t] = status[c]]

(* ... or fails with ECHILD, storing nothing. Otherwise it blocks, or      *)
(* returns 0 under WNOHANG.                                                *)
NoSuchChild(t) ==
  /\ \A c \in Awaited(t) : child[c] \notin {"running", "zombie"}
  /\ UNCHANGED <<child, terminationStatus>>

(* Slip: ECHILD is taken for EINTR, and waitpid is tried again.            *)
WaitpidRetrying(t) == \E c \in Children : Reap(t, c)

Waitpid(t) == NoSuchChild(t) \/ \E c \in Children : Reap(t, c)

(* Slip: -waitUntilExit stops the timer.                                   *)
WaitReturnsStoppingTimer(t) ==
  /\ waiting = t
  /\ Waitpid(t)
  /\ isRunning' = [isRunning EXCEPT ![t] = FALSE]
  /\ waiting' = NoTask
  /\ timer' = IF pid[t] = NoChild THEN timer ELSE [timer EXCEPT ![pid[t]] = "invalid"]
  /\ UNCHANGED <<pid, held, status, target, posts, handler, crashed>>

(* The blocking waitpid of -waitUntilExit returns; the timer stays.        *)
WaitReturns(t) ==
  /\ waiting = t
  /\ Waitpid(t)
  /\ isRunning' = [isRunning EXCEPT ![t] = FALSE]
  /\ waiting' = NoTask
  /\ UNCHANGED <<pid, held, status, target, timer, posts, handler, crashed>>

(* Slip: the timer is invalidated before the notification, too.            *)
CheckTaskStatusInvalidating(c) ==
  LET t == target[c] IN
  /\ timer[c] = "valid"
  /\ handler = NoChild /\ waiting = NoTask /\ ~crashed
  /\ Waitpid(t)
  /\ isRunning' = [isRunning EXCEPT ![t] = FALSE]
  /\ posts' = [posts EXCEPT ![c] = IF @ < MaxPosts THEN @ + 1 ELSE @]
  /\ handler' = c
  /\ timer' = [timer EXCEPT ![c] = "invalid"]
  /\ UNCHANGED <<pid, held, status, target, waiting, crashed>>

(* The run loop fires timer c: -_checkTaskStatus up to the notification it *)
(* posts. While waitpid returns 0 it does nothing.                         *)
CheckTaskStatus(c) ==
  LET t == target[c] IN
  /\ timer[c] = "valid"
  /\ handler = NoChild /\ waiting = NoTask /\ ~crashed
  /\ Waitpid(t)
  /\ isRunning' = [isRunning EXCEPT ![t] = FALSE]
  /\ posts' = [posts EXCEPT ![c] = IF @ < MaxPosts THEN @ + 1 ELSE @]
  /\ handler' = c
  /\ UNCHANGED <<pid, held, status, target, timer, waiting, crashed>>

(* Slip: the invalidate is missing.                                        *)
InvalidateNothing(c) ==
  /\ handler = c
  /\ waiting = NoTask /\ ~crashed
  /\ handler' = NoChild
  /\ UNCHANGED <<taskVars, kernelVars, timer, posts, waiting, crashed>>

(* The observers have returned; [checkStatusTimer invalidate] goes to the  *)
(* timer the ivar holds by now. An invalid timer has been freed: the       *)
(* message crashes or happens to do nothing.                               *)
InvalidateTimer(c) ==
  LET current == checkStatusTimer(target[c]) IN
  /\ handler = c
  /\ waiting = NoTask /\ ~crashed
  /\ handler' = NoChild
  /\ IF timer[current] = "valid"
     THEN timer' = [timer EXCEPT ![current] = "invalid"] /\ UNCHANGED crashed
     ELSE UNCHANGED timer /\ crashed' \in BOOLEAN
  /\ UNCHANGED <<taskVars, kernelVars, posts, waiting>>

(* The client releases its reference (or its autorelease pool does).       *)
Release(t) ==
  /\ ClientRuns(t)
  /\ held' = [held EXCEPT ![t] = FALSE]
  /\ UNCHANGED <<isRunning, pid, terminationStatus, kernelVars, timer, posts,
                 handler, waiting, crashed>>

(* The tool ends with some status.                                         *)
ChildExits(c) ==
  /\ child[c] = "running"
  /\ ~crashed
  /\ child' = [child EXCEPT ![c] = "zombie"]
  /\ \E s \in Statuses : status' = [status EXCEPT ![c] = s]
  /\ UNCHANGED <<taskVars, target, timer, posts, handler, waiting, crashed>>
-----------------------------------------------------------------------------
Next ==
  \/ \E t \in Tasks : \/ Launch(t)
                      \/ WaitUntilExit(t)
                      \/ LaunchedPrivilegedTask(t)
                      \/ WaitReturns(t)
                      \/ Release(t)
  \/ \E c \in Children : \/ CheckTaskStatus(c)
                         \/ InvalidateTimer(c)
                         \/ ChildExits(c)

(* The run loop fires a due timer on each of its passes, however busy the  *)
(* client keeps the thread between them: strong fairness. Code that has    *)
(* started runs on, and a tool does end; nothing forces the client to call.*)
WaitFairness(t) == WF_vars(WaitReturns(t))

ChildFairness(c) ==
  /\ SF_vars(CheckTaskStatus(c))
  /\ SF_vars(InvalidateTimer(c))
  /\ WF_vars(ChildExits(c))

Fairness ==
  /\ \A t \in Tasks : WaitFairness(t)
  /\ \A c \in Children : ChildFairness(c)

Spec == Init /\ [][Next]_vars /\ Fairness
-----------------------------------------------------------------------------
(* A task that says it runs is polled by at least one live timer, so its   *)
(* exit cannot go unnoticed. It holds for every client, even one that      *)
(* launches again from inside the notification: the invalidate then kills  *)
(* the new timer and the old one, which it should have killed, goes on     *)
(* polling the new pid (STPrivilegedTask.m lines 251-261).                 *)
Monitored == \A t \in Tasks : isRunning[t] => LiveTimers(t) # {}

(* A task is reported finished only when its own current child is gone,    *)
(* whichever of the timer and -waitUntilExit came first, and whoever       *)
(* waited in between.                                                      *)
FinishedMeansReaped ==
  \A t \in Tasks : ~isRunning[t] /\ pid[t] # NoChild => child[pid[t]] = "reaped"

(* The termination status of a finished task is that of its own child.     *)
(* Clients that wait on a task that never launched break it for others     *)
(* (lines 81-95, 244).                                                     *)
OwnStatus ==
  \A t \in Tasks : ~isRunning[t] /\ pid[t] # NoChild =>
    terminationStatus[t] = status[pid[t]]

(* No timer goes on after the ivar was given another one, so no message is *)
(* ever sent to a freed timer: what -launch leaves to its caller (line 227)*)
NoOrphanTimer ==
  /\ ~crashed
  /\ \A c \in Children : timer[c] = "valid" => checkStatusTimer(target[c]) = c

(* One launch posts STPrivilegedTaskDidTerminateNotification once at most, *)
(* although -waitUntilExit leaves the timer alive and the next poll gets   *)
(* ECHILD and posts (lines 242-261).                                       *)
NotifiedOnce == \A c \in Children : posts[c] <= 1

(* -waitUntilExit collects no child but its own task's: "hang until task   *)
(* is done" (line 241).                                                    *)
WaitsForOwnTask ==
  [][\A t \in Tasks, c \in Children :
       WaitReturns(t) /\ child'[c] # child[c] => target[c] = t]_vars

(* The thread is free for the run loop to fire a timer.                    *)
Idle == handler = NoChild /\ waiting = NoTask /\ ~crashed

(* Nothing that fairness speaks of is blocked: a wait for a child that is  *)
(* gone can return and a poll can notice the exit, even when the other of  *)
(* the two has already collected the child (lines 244, 253), a handler can *)
(* end and a tool can exit.                                                *)
NothingBlocks ==
  /\ \A t \in Tasks :
       waiting = t /\ pid[t] # NoChild /\ child[pid[t]] # "running" /\ ~crashed
         => ENABLED <<WaitReturns(t)>>_vars
  /\ \A c \in Children :
       /\ Idle /\ timer[c] = "valid" /\ pid[target[c]] = c /\ child[c] # "running"
            => ENABLED <<CheckTaskStatus(c)>>_vars
       /\ handler = c /\ waiting = NoTask /\ ~crashed
            => ENABLED <<InvalidateTimer(c)>>_vars
       /\ child[c] = "running" /\ ~crashed => ENABLED <<ChildExits(c)>>_vars

(* No exit goes without its notification, even when -waitUntilExit was the *)
(* one to collect the child (lines 242-258).                               *)
ExitNotified == \A c \in Children : child[c] = "zombie" ~> posts[c] > 0

(* A task whose client let go of it is deallocated in the end: the polling *)
(* timer, which retains it, stops (lines 49-59, 227, 259).                 *)
ReleasedIsFreed == \A t \in Tasks : ~held[t] ~> Deallocated(t)

(* What the object promises its client, whatever timers do (TaskPromise).  *)
JobOf(t) ==
  CASE ~isRunning[t] /\ pid[t] = NoChild -> "idle"
    [] ~isRunning[t] /\ pid[t] # NoChild -> "done"
    [] isRunning[t] -> IF child[pid[t]] = "running" THEN "running" ELSE "exited"

Promise == INSTANCE TaskPromise WITH
  job <- [t \in Tasks |-> JobOf(t)],
  result <- [t \in Tasks |-> IF pid[t] = NoChild THEN 0 ELSE status[pid[t]]],
  reported <- terminationStatus

(* A job that a client starts is reported done after it exited, once, with *)
(* its own result, and in the end: the object implements TaskPromise for   *)
(* clients of both disciplines.                                            *)
KeepsPromise == Promise!Spec
=============================================================================
