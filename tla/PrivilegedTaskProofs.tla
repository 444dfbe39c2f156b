------------------------ MODULE PrivilegedTaskProofs ------------------------
(* Theorems about PrivilegedTask, for any number of tasks and children.    *)
EXTENDS PrivilegedTask, TLAPS

(* A child, its launcher and its timer come into being together, and the   *)
(* ivar pid of a task always names a child that this task forked.          *)
Links ==
  /\ \A c \in Children : target[c] = NoTask <=> child[c] = "unused"
  /\ \A c \in Children : timer[c] = "none" <=> child[c] = "unused"
  /\ \A t \in Tasks : pid[t] # NoChild => target[pid[t]] = t
  /\ \A c \in Children : target[c] # NoTask => pid[target[c]] # NoChild

(* While client code runs inside a notification its timer is still valid,  *)
(* and the task is not running unless it has been launched again.          *)
InHandler ==
  handler # NoChild =>
    /\ timer[handler] = "valid"
    /\ checkStatusTimer(target[handler]) = handler => ~isRunning[target[handler]]

IInv == TypeOK /\ Links /\ InHandler /\ Monitored /\ FinishedMeansReaped

USE DEF taskVars, kernelVars, vars

-----------------------------------------------------------------------------
(* The initial state is well-typed and satisfies the inductive invariant.  *)
LEMMA InitIInv == Init => IInv
<1> SUFFICES ASSUME Init PROVE IInv
  OBVIOUS
<1>1. TypeOK
  <2>1. posts \in [Children -> 0..MaxPosts]
    BY TaskAssumption DEF Init
  <2>2. isRunning \in [Tasks -> BOOLEAN] /\ held \in [Tasks -> BOOLEAN]
    BY DEF Init
  <2> QED
    BY TaskAssumption, <2>1, <2>2 DEF Init, TypeOK
<1>2. Links /\ InHandler
  BY TaskAssumption DEF Init, Links, InHandler
<1>3. Monitored /\ FinishedMeansReaped
  BY DEF Init, Monitored, FinishedMeansReaped
<1> QED
  BY <1>1, <1>2, <1>3 DEF IInv

(* A step keeps the types, whatever the client does.                       *)
LEMMA TypeStep == TypeOK /\ [Next]_vars => TypeOK'
<1> SUFFICES ASSUME TypeOK, [Next]_vars PROVE TypeOK'
  OBVIOUS
<1> USE TaskAssumption DEF TypeOK
<1>1. ASSUME NEW t \in Tasks, Launch(t) PROVE TypeOK'
  BY <1>1 DEF Launch, Fork
<1>2. ASSUME NEW t \in Tasks, WaitUntilExit(t) PROVE TypeOK'
  BY <1>2 DEF WaitUntilExit
<1>3. ASSUME NEW t \in Tasks, LaunchedPrivilegedTask(t) PROVE TypeOK'
  <2>1. CASE Fork(t)
    BY <1>3, <2>1 DEF LaunchedPrivilegedTask, Fork
  <2>2. CASE ~Fork(t)
    BY <1>3, <2>2 DEF LaunchedPrivilegedTask
  <2> QED
    BY <2>1, <2>2
<1>4. ASSUME NEW t \in Tasks, WaitReturns(t) PROVE TypeOK'
  BY <1>4 DEF WaitReturns, Waitpid, Reap, NoSuchChild
<1>5. ASSUME NEW t \in Tasks, Release(t) PROVE TypeOK'
  BY <1>5 DEF Release
<1>6. ASSUME NEW c \in Children, CheckTaskStatus(c) PROVE TypeOK'
  <2>1. posts' \in [Children -> 0..MaxPosts]
    BY <1>6 DEF CheckTaskStatus
  <2>2. child' \in [Children -> {"unused", "running", "zombie", "reaped"}]
        /\ terminationStatus' \in [Tasks -> Statuses]
    BY <1>6 DEF CheckTaskStatus, Waitpid, Reap, NoSuchChild
  <2> QED
    BY <1>6, <2>1, <2>2 DEF CheckTaskStatus
<1>7. ASSUME NEW c \in Children, InvalidateTimer(c) PROVE TypeOK'
  BY <1>7 DEF InvalidateTimer
<1>8. ASSUME NEW c \in Children, ChildExits(c) PROVE TypeOK'
  BY <1>8 DEF ChildExits
<1>9. CASE UNCHANGED vars
  BY <1>9
<1> QED
  BY <1>1, <1>2, <1>3, <1>4, <1>5, <1>6, <1>7, <1>8, <1>9 DEF Next

(* Where waitpid may be called from a polled task: it is never pid 0.      *)
LEMMA PolledTask ==
  ASSUME TypeOK, Links, NEW c \in Children, timer[c] = "valid"
  PROVE  target[c] \in Tasks
  BY TaskAssumption DEF TypeOK, Links

(* A fork keeps the invariant's parts.                                     *)
LEMMA ForkStep ==
  ASSUME IInv, NEW t \in Tasks, Fork(t), waiting' \in Tasks \cup {NoTask}
  PROVE  /\ Links' /\ InHandler' /\ Monitored' /\ FinishedMeansReaped'
<1> USE TaskAssumption DEF IInv, TypeOK, Fork, Links
<1>1. Links'
  OBVIOUS
<1>2. InHandler'
  BY DEF InHandler, checkStatusTimer
<1>3. Monitored'
  <2> SUFFICES ASSUME NEW u \in Tasks, isRunning'[u] PROVE LiveTimers(u)' # {}
    BY DEF Monitored
  <2>1. CASE u = t
    BY <2>1 DEF LiveTimers
  <2>2. CASE u # t
    BY <2>2 DEF Monitored, LiveTimers
  <2> QED
    BY <2>1, <2>2
<1>4. FinishedMeansReaped'
  BY DEF FinishedMeansReaped
<1> QED
  BY <1>1, <1>2, <1>3, <1>4

(* Returning from waitpid keeps the invariant's parts: only what is reaped *)
(* or gone ends the task's run.                                            *)
LEMMA WaitpidStep ==
  ASSUME IInv, NEW t \in Tasks, Waitpid(t),
         isRunning' = [isRunning EXCEPT ![t] = FALSE],
         UNCHANGED <<pid, target, timer>>
  PROVE  /\ Links' /\ Monitored' /\ FinishedMeansReaped'
<1> USE TaskAssumption DEF IInv, TypeOK, Waitpid, Reap, NoSuchChild, Awaited
<1>1. Links'
  BY DEF Links
<1>2. Monitored'
  BY DEF Monitored, LiveTimers
<1>3. FinishedMeansReaped'
  <2> SUFFICES ASSUME NEW u \in Tasks, ~isRunning'[u], pid[u] # NoChild
               PROVE child'[pid[u]] = "reaped"
    BY DEF FinishedMeansReaped
  <2>1. CASE u = t
    BY <2>1 DEF Links
  <2>2. CASE u # t
    BY <2>2 DEF FinishedMeansReaped
  <2> QED
    BY <2>1, <2>2
<1> QED
  BY <1>1, <1>2, <1>3

(* Every step keeps the inductive invariant.                               *)
LEMMA NextIInv == IInv /\ [Next]_vars => IInv'
<1> SUFFICES ASSUME IInv, [Next]_vars PROVE IInv'
  OBVIOUS
<1>t. TypeOK'
  BY TypeStep DEF IInv
<1> DEFINE Rest == Links /\ InHandler /\ Monitored /\ FinishedMeansReaped
<1> SUFFICES Rest'
  BY <1>t DEF IInv
<1>1. ASSUME NEW t \in Tasks, Launch(t) PROVE Rest'
  BY <1>1, <1>t, ForkStep DEF Launch, TypeOK
<1>2. ASSUME NEW t \in Tasks, WaitUntilExit(t) PROVE Rest'
  BY <1>2 DEF WaitUntilExit, IInv, Links, InHandler, Monitored, LiveTimers,
              FinishedMeansReaped, checkStatusTimer
<1>3. ASSUME NEW t \in Tasks, LaunchedPrivilegedTask(t) PROVE Rest'
  <2>1. CASE Fork(t)
    BY <1>t, <2>1, ForkStep DEF TypeOK
  <2>2. CASE ~Fork(t)
    BY <1>3, <2>2 DEF LaunchedPrivilegedTask, IInv, Links, InHandler, Monitored,
                      LiveTimers, FinishedMeansReaped, checkStatusTimer
  <2> QED
    BY <2>1, <2>2
<1>4. ASSUME NEW t \in Tasks, WaitReturns(t) PROVE Rest'
  <2>1. Links' /\ Monitored' /\ FinishedMeansReaped'
    BY <1>4, WaitpidStep DEF WaitReturns
  <2>2. InHandler'
    BY <1>4 DEF WaitReturns, IInv, TypeOK, InHandler, checkStatusTimer
  <2> QED
    BY <2>1, <2>2
<1>5. ASSUME NEW t \in Tasks, Release(t) PROVE Rest'
  BY <1>5 DEF Release, IInv, Links, InHandler, Monitored, LiveTimers,
              FinishedMeansReaped, checkStatusTimer
<1>6. ASSUME NEW c \in Children, CheckTaskStatus(c) PROVE Rest'
  <2>0. target[c] \in Tasks
    BY <1>6, PolledTask DEF CheckTaskStatus, IInv
  <2>1. Links' /\ Monitored' /\ FinishedMeansReaped'
    BY <1>6, <2>0, WaitpidStep DEF CheckTaskStatus
  <2>2. InHandler'
    BY <1>6, <2>0 DEF CheckTaskStatus, IInv, TypeOK, InHandler, checkStatusTimer
  <2> QED
    BY <2>1, <2>2
<1>7. ASSUME NEW c \in Children, InvalidateTimer(c) PROVE Rest'
  <2> DEFINE t == target[c]
  <2>0. t \in Tasks /\ timer[c] = "valid"
    BY <1>7, PolledTask, TaskAssumption DEF InvalidateTimer, IInv, InHandler, TypeOK
  <2>1. Links' /\ InHandler' /\ FinishedMeansReaped'
    BY <1>7, <2>0, TaskAssumption
    DEF InvalidateTimer, IInv, TypeOK, Links, InHandler, FinishedMeansReaped, checkStatusTimer
  <2>2. Monitored'
    <3> SUFFICES ASSUME NEW u \in Tasks, isRunning[u] PROVE LiveTimers(u)' # {}
      BY <1>7 DEF InvalidateTimer, Monitored
    <3>1. PICK d \in Children : target[d] = u /\ timer[d] = "valid"
      BY DEF IInv, Monitored, LiveTimers
    <3>2. CASE u = t
      \* the run was started inside the notification: c itself stays valid
      <4>1. checkStatusTimer(t) # c
        BY <1>7, <3>2, TaskAssumption DEF InvalidateTimer, IInv, InHandler
      <4>2. timer'[c] = "valid" /\ target'[c] = u
        BY <1>7, <2>0, <3>2, <4>1 DEF InvalidateTimer, IInv, TypeOK
      <4> QED
        BY <4>2 DEF LiveTimers
    <3>3. CASE u # t
      \* the timer that is invalidated belongs to t
      <4>1. timer'[d] = "valid" /\ target'[d] = u
        BY <1>7, <2>0, <3>1, <3>3, TaskAssumption
        DEF InvalidateTimer, IInv, TypeOK, Links, checkStatusTimer
      <4> QED
        BY <4>1 DEF LiveTimers
    <3> QED
      BY <3>2, <3>3
  <2> QED
    BY <2>1, <2>2
<1>8. ASSUME NEW c \in Children, ChildExits(c) PROVE Rest'
  BY <1>8, TaskAssumption
  DEF ChildExits, IInv, TypeOK, Links, InHandler, Monitored, LiveTimers,
      FinishedMeansReaped, checkStatusTimer
<1>9. CASE UNCHANGED vars
  BY <1>9 DEF IInv, Links, InHandler, Monitored, LiveTimers,
              FinishedMeansReaped, checkStatusTimer
<1> QED
  BY <1>1, <1>2, <1>3, <1>4, <1>5, <1>6, <1>7, <1>8, <1>9 DEF Next

(* The inductive invariant holds in every behaviour.                       *)
LEMMA Invariance == Spec => []IInv
  BY InitIInv, NextIInv, PTL DEF Spec

(* Type correctness.                                                       *)
THEOREM TypeCorrect == Spec => []TypeOK
<1>1. IInv => TypeOK
  BY DEF IInv
<1> QED
  BY <1>1, Invariance, PTL

(* For every client, a task that says it runs is polled by a live timer.   *)
THEOREM AlwaysMonitored == Spec => []Monitored
<1>1. IInv => Monitored
  BY DEF IInv
<1> QED
  BY <1>1, Invariance, PTL

(* For every client, a task that says it finished has no child left.       *)
THEOREM FinishedIsReaped == Spec => []FinishedMeansReaped
<1>1. IInv => FinishedMeansReaped
  BY DEF IInv
<1> QED
  BY <1>1, Invariance, PTL
-----------------------------------------------------------------------------
(* Clients that wait only on launched tasks: then nobody takes the child of*)
(* another task, a running task's child is uncollected, and a collected    *)
(* child has left its status with its task.                                *)
OwnChild ==
  /\ waiting # NoTask => pid[waiting] # NoChild
  /\ \A c \in Children : child[c] \in {"unused", "running"} => status[c] = 0
  /\ \A t \in Tasks : isRunning[t] =>
       pid[t] # NoChild /\ child[pid[t]] \in {"running", "zombie"}
  /\ \A t \in Tasks : pid[t] # NoChild /\ child[pid[t]] = "reaped" =>
       terminationStatus[t] = status[pid[t]]

(* A return from waitpid on a launched task keeps OwnChild.                *)
LEMMA WaitpidOwnChild ==
  ASSUME IInv, OwnChild, NEW t \in Tasks, pid[t] # NoChild, Waitpid(t),
         isRunning' = [isRunning EXCEPT ![t] = FALSE],
         waiting' \in {waiting, NoTask},
         UNCHANGED <<pid, target, status>>
  PROVE  OwnChild'
<1> USE TaskAssumption DEF IInv, TypeOK, Links
<1>1. Awaited(t) = {pid[t]}
  BY DEF Awaited
<1>2. CASE NoSuchChild(t)
  BY <1>1, <1>2 DEF NoSuchChild, OwnChild
<1>3. CASE \E c \in Children : Reap(t, c)
  <2>1. child' = [child EXCEPT ![pid[t]] = "reaped"]
        /\ terminationStatus' = [terminationStatus EXCEPT ![t] = status[pid[t]]]
        /\ child[pid[t]] = "zombie"
    BY <1>1, <1>3 DEF Reap
  <2>2. \A u \in Tasks : u # t => pid[u] # pid[t]
    OBVIOUS
  <2> QED
    BY <2>1, <2>2 DEF OwnChild
<1> QED
  BY <1>2, <1>3 DEF Waitpid

(* Every step keeps OwnChild when clients wait only on launched tasks.     *)
LEMMA OwnChildStep ==
  ASSUME ~WaitUnlaunched PROVE IInv /\ OwnChild /\ [Next]_vars => OwnChild'
<1> SUFFICES ASSUME IInv, OwnChild, [Next]_vars PROVE OwnChild'
  OBVIOUS
<1>0. ASSUME NEW t \in Tasks, Fork(t), waiting' \in {waiting, t} PROVE OwnChild'
  BY <1>0, TaskAssumption DEF Fork, IInv, TypeOK, Links, OwnChild
<1>1. ASSUME NEW t \in Tasks, Launch(t) PROVE OwnChild'
  BY <1>0, <1>1 DEF Launch
<1>2. ASSUME NEW t \in Tasks, WaitUntilExit(t) PROVE OwnChild'
  BY <1>2 DEF WaitUntilExit, OwnChild
<1>3. ASSUME NEW t \in Tasks, LaunchedPrivilegedTask(t) PROVE OwnChild'
  BY <1>0, <1>3 DEF LaunchedPrivilegedTask
<1>4. ASSUME NEW t \in Tasks, WaitReturns(t) PROVE OwnChild'
  <2>1. pid[t] # NoChild
    BY <1>4, TaskAssumption DEF WaitReturns, OwnChild
  <2> QED
    BY <1>4, <2>1, WaitpidOwnChild DEF WaitReturns
<1>5. ASSUME NEW t \in Tasks, Release(t) PROVE OwnChild'
  BY <1>5 DEF Release, OwnChild
<1>6. ASSUME NEW c \in Children, CheckTaskStatus(c) PROVE OwnChild'
  <2>1. target[c] \in Tasks
    BY <1>6, PolledTask DEF CheckTaskStatus, IInv
  <2>2. pid[target[c]] # NoChild
    BY <1>6, <2>1, TaskAssumption DEF IInv, Links
  <2> QED
    BY <1>6, <2>1, <2>2, WaitpidOwnChild DEF CheckTaskStatus
<1>7. ASSUME NEW c \in Children, InvalidateTimer(c) PROVE OwnChild'
  BY <1>7 DEF InvalidateTimer, OwnChild
<1>8. ASSUME NEW c \in Children, ChildExits(c) PROVE OwnChild'
  BY <1>8, TaskAssumption DEF ChildExits, IInv, TypeOK, OwnChild
<1>9. CASE UNCHANGED vars
  BY <1>9 DEF OwnChild
<1> QED
  BY <1>1, <1>2, <1>3, <1>4, <1>5, <1>6, <1>7, <1>8, <1>9 DEF Next

(* When clients wait only on launched tasks, a finished task reports the   *)
(* exit status of its own child.                                           *)
THEOREM ReportsOwnStatus == ASSUME ~WaitUnlaunched PROVE Spec => []OwnStatus
<1>1. Init => OwnChild
  BY DEF Init, OwnChild
<1>2. IInv /\ OwnChild /\ [Next]_vars => OwnChild'
  BY OwnChildStep
<1>3. IInv /\ OwnChild => OwnStatus
  BY DEF IInv, FinishedMeansReaped, OwnChild, OwnStatus
<1> QED
  BY <1>1, <1>2, <1>3, Invariance, PTL DEF Spec

(* When clients wait only on launched tasks, -waitUntilExit collects no    *)
(* child but its own task's.                                               *)
THEOREM WaitsForOwn == ASSUME ~WaitUnlaunched PROVE Spec => WaitsForOwnTask
<1>1. Init => OwnChild
  BY DEF Init, OwnChild
<1>2. IInv /\ OwnChild /\ [Next]_vars => OwnChild'
  BY OwnChildStep
<1>3. ASSUME IInv, OwnChild, NEW t \in Tasks, NEW c \in Children,
             WaitReturns(t), child'[c] # child[c]
      PROVE  target[c] = t
  <2>1. pid[t] # NoChild /\ Awaited(t) = {pid[t]}
    BY <1>3, TaskAssumption DEF WaitReturns, OwnChild, Awaited
  <2>2. target[pid[t]] = t
    BY <1>3, <2>1 DEF IInv, Links
  <2>3. c = pid[t]
    BY <1>3, <2>1 DEF WaitReturns, Waitpid, NoSuchChild, Reap, IInv, TypeOK
  <2> QED
    BY <2>2, <2>3
<1>4. IInv /\ OwnChild /\ [Next]_vars =>
        [\A t \in Tasks, c \in Children :
           WaitReturns(t) /\ child'[c] # child[c] => target[c] = t]_vars
  BY <1>3
<1> QED
  BY <1>1, <1>2, <1>4, Invariance, PTL DEF Spec, WaitsForOwnTask
-----------------------------------------------------------------------------
(* Clients that launch again only when no timer of the task polls: the ivar*)
(* always names the task's one valid timer, which has not yet posted, but  *)
(* for the notification in progress.                                       *)
OneTimer ==
  /\ NoOrphanTimer
  /\ \A c \in Children : timer[c] # "invalid" /\ handler # c => posts[c] = 0
  /\ NotifiedOnce

(* A fork adds the only timer of its task.                                 *)
LEMMA ForkOneTimer ==
  ASSUME ~RelaunchEarly, IInv, OneTimer, NEW t \in Tasks, Fork(t)
  PROVE  OneTimer'
<1> USE TaskAssumption DEF IInv, TypeOK, Links
<1>1. \A c \in Children : timer[c] = "valid" => target[c] # t
  BY DEF Fork, LiveTimers
<1> QED
  BY <1>1 DEF Fork, OneTimer, NoOrphanTimer, NotifiedOnce, checkStatusTimer, InHandler

(* Every step keeps OneTimer when clients relaunch only after the timers.  *)
LEMMA OneTimerStep ==
  ASSUME ~RelaunchEarly PROVE IInv /\ OneTimer /\ [Next]_vars => OneTimer'
<1> SUFFICES ASSUME IInv, OneTimer, [Next]_vars PROVE OneTimer'
  OBVIOUS
<1> USE DEF OneTimer, NoOrphanTimer, NotifiedOnce, checkStatusTimer
<1>1. ASSUME NEW t \in Tasks, Launch(t) PROVE OneTimer'
  BY <1>1, ForkOneTimer DEF Launch
<1>2. ASSUME NEW t \in Tasks, WaitUntilExit(t) PROVE OneTimer'
  BY <1>2 DEF WaitUntilExit
<1>3. ASSUME NEW t \in Tasks, LaunchedPrivilegedTask(t) PROVE OneTimer'
  <2>1. CASE Fork(t)
    BY <2>1, ForkOneTimer
  <2>2. CASE ~Fork(t)
    BY <1>3, <2>2 DEF LaunchedPrivilegedTask
  <2> QED
    BY <2>1, <2>2
<1>4. ASSUME NEW t \in Tasks, WaitReturns(t) PROVE OneTimer'
  BY <1>4 DEF WaitReturns
<1>5. ASSUME NEW t \in Tasks, Release(t) PROVE OneTimer'
  BY <1>5 DEF Release
<1>6. ASSUME NEW c \in Children, CheckTaskStatus(c) PROVE OneTimer'
  <2>1. posts[c] = 0
    BY <1>6, TaskAssumption DEF CheckTaskStatus
  <2>2. (IF posts[c] < MaxPosts THEN posts[c] + 1 ELSE posts[c]) = 1
    BY <2>1, TaskAssumption
  <2>3. posts' = [posts EXCEPT ![c] = 1]
    BY <1>6, <2>2, Zenon DEF CheckTaskStatus
  <2> QED
    BY <1>6, <2>3, TaskAssumption DEF CheckTaskStatus, IInv, TypeOK
<1>7. ASSUME NEW c \in Children, InvalidateTimer(c) PROVE OneTimer'
  <2>1. timer[c] = "valid" /\ pid[target[c]] = c
    BY <1>7, TaskAssumption DEF InvalidateTimer, IInv, InHandler
  <2> QED
    BY <1>7, <2>1, TaskAssumption DEF InvalidateTimer, IInv, TypeOK
<1>8. ASSUME NEW c \in Children, ChildExits(c) PROVE OneTimer'
  BY <1>8 DEF ChildExits
<1>9. CASE UNCHANGED vars
  BY <1>9
<1> QED
  BY <1>1, <1>2, <1>3, <1>4, <1>5, <1>6, <1>7, <1>8, <1>9 DEF Next

(* OneTimer holds under that discipline.                                   *)
LEMMA OneTimerInvariance == ASSUME ~RelaunchEarly PROVE Spec => []OneTimer
<1>1. Init => OneTimer
  BY DEF Init, OneTimer, NoOrphanTimer, NotifiedOnce
<1>2. IInv /\ OneTimer /\ [Next]_vars => OneTimer'
  BY OneTimerStep
<1> QED
  BY <1>1, <1>2, Invariance, PTL DEF Spec

(* When clients relaunch only after the task's timers have stopped, no     *)
(* timer is orphaned and no message is sent to a freed one.                *)
THEOREM TimersStop == ASSUME ~RelaunchEarly PROVE Spec => []NoOrphanTimer
<1>1. OneTimer => NoOrphanTimer
  BY DEF OneTimer
<1> QED
  BY <1>1, OneTimerInvariance, PTL

(* Under the same discipline a launch posts one notification at most.      *)
THEOREM PostsOnce == ASSUME ~RelaunchEarly PROVE Spec => []NotifiedOnce
<1>1. OneTimer => NotifiedOnce
  BY DEF OneTimer
<1> QED
  BY <1>1, OneTimerInvariance, PTL
-----------------------------------------------------------------------------
(* Two functions that differ at one argument.                              *)
LEMMA Update ==
  ASSUME NEW S, NEW f, NEW g, f = [x \in S |-> f[x]], g = [x \in S |-> g[x]],
         NEW t \in S, \A u \in S : u # t => g[u] = f[u]
  PROVE  g = [f EXCEPT ![t] = g[t]]
  OBVIOUS

(* The steps of the task map to steps of the promise, or to stutters.      *)
LEMMA PromiseStep ==
  ASSUME ~RelaunchEarly, ~WaitUnlaunched
  PROVE  IInv /\ IInv' /\ OwnChild /\ OwnChild' /\ [Next]_vars
           => [Promise!Next]_(Promise!vars)
<1> SUFFICES ASSUME IInv, IInv', OwnChild, OwnChild', [Next]_vars
             PROVE  [Promise!Next]_(Promise!vars)
  OBVIOUS
<1> DEFINE job == [t \in Tasks |-> JobOf(t)]
           result == [t \in Tasks |-> IF pid[t] = NoChild THEN 0 ELSE status[pid[t]]]
<1> USE TaskAssumption
<1>a. /\ \A u \in Tasks : job[u] = JobOf(u) /\ job'[u] = JobOf(u)'
      /\ job = [u \in Tasks |-> job[u]] /\ job' = [u \in Tasks |-> job'[u]]
  OBVIOUS
<1>b. /\ \A u \in Tasks : result[u] = (IF pid[u] = NoChild THEN 0 ELSE status[pid[u]])
      /\ \A u \in Tasks : result'[u] = (IF pid'[u] = NoChild THEN 0 ELSE status'[pid'[u]])
      /\ result = [u \in Tasks |-> result[u]] /\ result' = [u \in Tasks |-> result'[u]]
  OBVIOUS
<1>0. ASSUME NEW t \in Tasks, Fork(t) PROVE Promise!Next
  <2> USE DEF Fork, IInv, TypeOK, Links, Monitored, OwnChild
  <2>1. ~isRunning[t]
    BY <1>0
  <2>2. \A u \in Tasks : u # t => JobOf(u)' = JobOf(u)
    BY <1>0 DEF JobOf
  <2>3. job[t] \in {"idle", "done"} /\ JobOf(t)' = "running"
    BY <1>0, <2>1 DEF JobOf
  <2>4. job' = [job EXCEPT ![t] = "running"]
    <3> HIDE DEF job
    <3>1. job'[t] = "running" /\ \A u \in Tasks : u # t => job'[u] = job[u]
      BY <1>a, <2>2, <2>3
    <3> QED
      BY <1>a, <3>1, Update
  <2>5. result' = [result EXCEPT ![t] = 0]
    <3> HIDE DEF result
    <3>1. result'[t] = 0 /\ \A u \in Tasks : u # t => result'[u] = result[u]
      BY <1>0, <1>b
    <3> QED
      BY <1>b, <3>1, Update
  <2> QED
    BY <1>0, <2>3, <2>4, <2>5 DEF Promise!Next, Promise!Start
<1>1. ASSUME NEW t \in Tasks, pid[t] # NoChild, Waitpid(t),
             isRunning' = [isRunning EXCEPT ![t] = FALSE],
             UNCHANGED <<pid, target, status>>
      PROVE  [Promise!Next]_(Promise!vars)
  <2> USE DEF IInv, TypeOK, Links, OwnChild, FinishedMeansReaped, Waitpid, NoSuchChild,
              Reap, Awaited
  <2>1. \A u \in Tasks : u # t => JobOf(u)' = JobOf(u)
    BY <1>1 DEF JobOf
  <2>2. JobOf(t)' = "done"
    BY <1>1 DEF JobOf
  <2>3. job' = [job EXCEPT ![t] = "done"]
    <3> HIDE DEF job
    <3>1. job'[t] = "done" /\ \A u \in Tasks : u # t => job'[u] = job[u]
      BY <1>a, <2>1, <2>2
    <3> QED
      BY <1>a, <3>1, Update
  <2>4. result' = result
    BY <1>1
  <2>5. CASE isRunning[t]
    <3>1. JobOf(t) = "exited"
      BY <1>1, <2>5 DEF JobOf
    <3>2. terminationStatus' = [terminationStatus EXCEPT ![t] = result[t]]
      BY <1>1, <2>5
    <3> QED
      BY <2>3, <2>4, <3>1, <3>2 DEF Promise!Next, Promise!Report
  <2>6. CASE ~isRunning[t]
    <3>1. JobOf(t) = "done" /\ terminationStatus' = terminationStatus
      BY <1>1, <2>6 DEF JobOf
    <3>2. job' = job
      BY <2>1, <2>2, <3>1
    <3> QED
      BY <2>4, <3>1, <3>2 DEF Promise!vars
  <2> QED
    BY <2>5, <2>6
<1>2. ASSUME UNCHANGED <<isRunning, pid, terminationStatus, child, status>>
      PROVE  UNCHANGED Promise!vars
  BY <1>2 DEF Promise!vars, JobOf
<1>3. ASSUME NEW t \in Tasks, Launch(t) \/ WaitUntilExit(t) \/ LaunchedPrivilegedTask(t)
                              \/ Release(t)
      PROVE [Promise!Next]_(Promise!vars)
  BY <1>0, <1>2, <1>3 DEF Launch, WaitUntilExit, LaunchedPrivilegedTask, Release
<1>4. ASSUME NEW t \in Tasks, WaitReturns(t) PROVE [Promise!Next]_(Promise!vars)
  <2>1. pid[t] # NoChild
    BY <1>4 DEF WaitReturns, OwnChild
  <2> QED
    BY <1>1, <1>4, <2>1 DEF WaitReturns
<1>6. ASSUME NEW c \in Children, CheckTaskStatus(c) PROVE [Promise!Next]_(Promise!vars)
  <2>1. target[c] \in Tasks
    BY <1>6, PolledTask DEF CheckTaskStatus, IInv
  <2>2. pid[target[c]] # NoChild
    BY <1>6, <2>1 DEF IInv, Links
  <2> QED
    BY <1>1, <1>6, <2>1, <2>2 DEF CheckTaskStatus
<1>7. ASSUME NEW c \in Children, InvalidateTimer(c) PROVE [Promise!Next]_(Promise!vars)
  BY <1>2, <1>7 DEF InvalidateTimer
<1>8. ASSUME NEW c \in Children, ChildExits(c) PROVE [Promise!Next]_(Promise!vars)
  <2> USE DEF ChildExits, IInv, TypeOK, Links, OwnChild, FinishedMeansReaped
  <2>0. PICK t \in Tasks : t = target[c]
    BY <1>8
  <2>1. \A u \in Tasks : pid[u] = c => u = t
    BY <2>0
  <2>2. PICK s \in Statuses : status' = [status EXCEPT ![c] = s]
    BY <1>8
  <2>3. CASE pid[t] = c
    <3>1. isRunning[t] /\ JobOf(t) = "running" /\ JobOf(t)' = "exited"
      BY <1>8, <2>1, <2>3 DEF JobOf
    <3>2. \A u \in Tasks : u # t => JobOf(u)' = JobOf(u)
      BY <1>8, <2>1 DEF JobOf
    <3>3. job' = [job EXCEPT ![t] = "exited"]
      <4> HIDE DEF job
      <4>1. job'[t] = "exited" /\ \A u \in Tasks : u # t => job'[u] = job[u]
        BY <1>a, <2>1, <3>1, <3>2
      <4> QED
        BY <1>a, <2>1, <4>1, Update
    <3>4. result' = [result EXCEPT ![t] = s]
      <4> HIDE DEF result
      <4>1. result'[t] = s /\ \A u \in Tasks : u # t => result'[u] = result[u]
        BY <1>8, <1>b, <2>1, <2>2, <2>3
      <4> QED
        BY <1>b, <2>1, <4>1, Update
    <3>5. Promise!Exit(t)
      BY <1>8, <2>1, <3>1, <3>3, <3>4 DEF Promise!Exit
    <3> QED
      BY <2>1, <3>5 DEF Promise!Next
  <2>4. CASE pid[t] # c
    \* a child of an earlier launch
    BY <1>8, <2>1, <2>2, <2>4 DEF Promise!vars, JobOf
  <2> QED
    BY <2>3, <2>4
<1>9. CASE UNCHANGED vars
  BY <1>2, <1>9
<1> QED
  BY <1>3, <1>4, <1>6, <1>7, <1>8, <1>9 DEF Next

(* The object implements TaskPromise (but for its liveness) for clients    *)
(* that wait only on launched tasks and relaunch after the timers.         *)
THEOREM ImplementsPromise ==
  ASSUME ~RelaunchEarly, ~WaitUnlaunched
  PROVE  Spec => Promise!Init /\ [][Promise!Next]_(Promise!vars)
<1>1. Init => Promise!Init
  BY DEF Init, Promise!Init, JobOf
<1>2. Init => OwnChild
  BY DEF Init, OwnChild
<1>3. IInv /\ OwnChild /\ [Next]_vars => OwnChild'
  BY OwnChildStep
<1>4. IInv /\ IInv' /\ OwnChild /\ OwnChild' /\ [Next]_vars
        => [Promise!Next]_(Promise!vars)
  BY PromiseStep
<1> QED
  BY <1>1, <1>2, <1>3, <1>4, Invariance, PTL DEF Spec
-----------------------------------------------------------------------------
(* Liveness, for clients of both disciplines. ENABLED is beyond the prover,*)
(* so what fairness needs of it is the hypothesis []NothingBlocks, an      *)
(* invariant that TLC checks; everything else is proved from Spec.         *)

(* A timer that has stopped, or is about to, has posted.                   *)
Posted == \A c \in Children : timer[c] = "invalid" \/ handler = c => posts[c] > 0

Careful == IInv /\ OwnChild /\ OneTimer /\ Posted

(* Every step keeps Posted when clients relaunch only after the timers.    *)
LEMMA PostedStep == IInv /\ OneTimer /\ Posted /\ [Next]_vars => Posted'
<1> SUFFICES ASSUME IInv, OneTimer, Posted, [Next]_vars PROVE Posted'
  OBVIOUS
<1> USE TaskAssumption DEF Posted
<1>1. ASSUME NEW t \in Tasks, Fork(t), UNCHANGED handler PROVE Posted'
  BY <1>1 DEF Fork, IInv, TypeOK
<1>2. ASSUME NEW t \in Tasks,
             Launch(t) \/ LaunchedPrivilegedTask(t) \/ WaitUntilExit(t)
      PROVE  Posted'
  BY <1>1, <1>2 DEF Launch, LaunchedPrivilegedTask, WaitUntilExit, Fork
<1>3. ASSUME NEW t \in Tasks, WaitReturns(t) \/ Release(t) PROVE Posted'
  BY <1>3 DEF WaitReturns, Release
<1>4. ASSUME NEW c \in Children, CheckTaskStatus(c) PROVE Posted'
  <2>1. posts[c] \in Nat
    BY DEF IInv, TypeOK
  <2>2. (IF posts[c] < MaxPosts THEN posts[c] + 1 ELSE posts[c]) > 0
    BY <2>1
  <2>3. posts'[c] > 0 /\ \A d \in Children : d # c => posts'[d] = posts[d]
    BY <1>4, <2>2 DEF CheckTaskStatus, IInv, TypeOK
  <2>4. UNCHANGED timer /\ handler' = c
    BY <1>4 DEF CheckTaskStatus
  <2> QED
    BY <2>3, <2>4
<1>5. ASSUME NEW c \in Children, InvalidateTimer(c) PROVE Posted'
  <2>1. timer[c] = "valid" /\ pid[target[c]] = c
    BY <1>5 DEF InvalidateTimer, IInv, InHandler, OneTimer, NoOrphanTimer, checkStatusTimer
  <2> QED
    BY <1>5, <2>1 DEF InvalidateTimer, IInv, TypeOK, checkStatusTimer
<1>6. ASSUME NEW c \in Children, ChildExits(c) PROVE Posted'
  BY <1>6 DEF ChildExits
<1>7. CASE UNCHANGED vars
  BY <1>7
<1> QED
  BY <1>2, <1>3, <1>4, <1>5, <1>6, <1>7 DEF Next

LEMMA CarefulInvariance ==
  ASSUME ~RelaunchEarly, ~WaitUnlaunched PROVE Spec => []Careful
<1>1. Init => OwnChild /\ Posted
  BY TaskAssumption DEF Init, OwnChild, Posted
<1>2. IInv /\ OwnChild /\ [Next]_vars => OwnChild'
  BY OwnChildStep
<1>3. IInv /\ OneTimer /\ Posted /\ [Next]_vars => Posted'
  BY PostedStep
<1> QED
  BY <1>1, <1>2, <1>3, Invariance, OneTimerInvariance, PTL DEF Spec, Careful

(* What the rest of the section starts from.                               *)
Running == []Careful /\ [][Next]_vars /\ Fairness /\ []NothingBlocks

(* -waitUntilExit of t waits for c, which has ended or not.                *)
WaitsFor(t, c) == waiting = t /\ pid[t] = c

(* While a task waits, the thread does nothing else.                       *)
LEMMA WaitStep ==
  ASSUME NEW t \in Tasks, NEW c \in Children, Careful, WaitsFor(t, c), [Next]_vars
  PROVE  /\ (waiting = NoTask)' \/ WaitsFor(t, c)'
         /\ child[c] # "running" => child'[c] # "running"
         /\ ChildExits(c) => child'[c] # "running"
         /\ WaitReturns(t) => (waiting = NoTask)'
<1> USE TaskAssumption DEF Careful, IInv, TypeOK, WaitsFor
<1>0. waiting # NoTask /\ child[c] # "unused"
  BY DEF Links
<1>1. ASSUME NEW u \in Tasks, WaitReturns(u)
      PROVE  waiting' = NoTask /\ (child[c] # "running" => child'[c] # "running")
  BY <1>1 DEF WaitReturns, Waitpid, Reap, NoSuchChild
<1>2. ASSUME NEW d \in Children, ChildExits(d)
      PROVE  WaitsFor(t, c)' /\ (child[c] # "running" \/ d = c => child'[c] # "running")
  BY <1>2 DEF ChildExits
<1>3. ASSUME NEW u \in Tasks, Launch(u) \/ WaitUntilExit(u) \/ LaunchedPrivilegedTask(u)
                              \/ Release(u)
      PROVE  FALSE
  BY <1>0, <1>3 DEF Launch, WaitUntilExit, LaunchedPrivilegedTask, Release, ClientRuns
<1>4. ASSUME NEW d \in Children, CheckTaskStatus(d) \/ InvalidateTimer(d) PROVE FALSE
  BY <1>0, <1>4 DEF CheckTaskStatus, InvalidateTimer
<1>5. CASE UNCHANGED vars
  BY <1>0, <1>5 DEF ChildExits, WaitReturns
<1> QED
  BY <1>1, <1>2, <1>3, <1>4, <1>5 DEF Next

(* A wait for a task that was launched returns.                            *)
LEMMA WaitReturnsInTheEnd ==
  ASSUME NEW t \in Tasks, NEW c \in Children
  PROVE  Running => (WaitsFor(t, c) ~> waiting = NoTask)
<1> DEFINE Gone == WaitsFor(t, c) /\ child[c] # "running"
<1>1. Careful /\ WaitsFor(t, c) /\ [Next]_vars => (waiting = NoTask)' \/ WaitsFor(t, c)'
  BY WaitStep
<1>2. Careful /\ Gone /\ [Next]_vars => (waiting = NoTask)' \/ Gone'
  BY WaitStep
<1>3. Careful /\ WaitsFor(t, c) /\ <<ChildExits(c)>>_vars => (waiting = NoTask)' \/ Gone'
  BY WaitStep DEF Next
<1>4. Careful /\ Gone /\ <<WaitReturns(t)>>_vars => (waiting = NoTask)'
  BY DEF WaitReturns
<1>5. Careful /\ NothingBlocks /\ WaitsFor(t, c) =>
        Gone \/ ENABLED <<ChildExits(c)>>_vars
  BY DEF Careful, OneTimer, NoOrphanTimer, NothingBlocks, WaitsFor
<1>6. Careful /\ NothingBlocks /\ Gone => ENABLED <<WaitReturns(t)>>_vars
  BY TaskAssumption DEF Careful, OneTimer, NoOrphanTimer, NothingBlocks, WaitsFor
<1>7. Fairness => WaitFairness(t) /\ ChildFairness(c)
  BY DEF Fairness
<1> HIDE DEF Gone
<1> QED
  BY <1>1, <1>2, <1>3, <1>4, <1>5, <1>6, <1>7, PTL DEF Running, WaitFairness, ChildFairness

(* The thread comes back from every wait.                                  *)
LEMMA ThreadComesBack == Running => []<>(waiting = NoTask)
<1> DEFINE Back == waiting = NoTask
<1>1. ASSUME NEW t \in Tasks, NEW c \in Children
      PROVE  Running => [](WaitsFor(t, c) => <>Back)
  BY WaitReturnsInTheEnd, PTL
<1>2. Running => [](\A t \in Tasks, c \in Children : WaitsFor(t, c) => <>Back)
  <2>1. Running => \A t \in Tasks, c \in Children : [](WaitsFor(t, c) => <>Back)
    BY <1>1
  <2> QED
    BY <2>1
<1>3. (\A t \in Tasks, c \in Children : WaitsFor(t, c) => <>Back) =>
        ((\E t \in Tasks, c \in Children : WaitsFor(t, c)) => <>Back)
  OBVIOUS
<1>4. Careful => Back \/ \E t \in Tasks, c \in Children : WaitsFor(t, c)
  BY DEF Careful, IInv, TypeOK, OwnChild, WaitsFor
<1> HIDE DEF Back
<1>5. Running => []<>Back
  BY <1>2, <1>3, <1>4, PTL DEF Running
<1> QED
  BY <1>5 DEF Back

(* A handler is over only when its own timer was invalidated.              *)
LEMMA HandlerStep ==
  ASSUME NEW c \in Children, Careful, handler = c, [Next]_vars
  PROVE  /\ (handler = c)' \/ (Idle /\ timer[c] = "invalid")'
         /\ InvalidateTimer(c) => (Idle /\ timer[c] = "invalid")'
<1> USE TaskAssumption DEF Careful, OneTimer, NoOrphanTimer, IInv, TypeOK
<1>1. ASSUME NEW d \in Children, InvalidateTimer(d)
      PROVE  (Idle /\ timer[c] = "invalid")'
  <2>1. d = c /\ timer[c] = "valid" /\ checkStatusTimer(target[c]) = c
    BY <1>1 DEF InvalidateTimer, InHandler
  <2> QED
    BY <1>1, <2>1 DEF InvalidateTimer, Idle
<1>2. ASSUME NEW d \in Children, CheckTaskStatus(d) PROVE FALSE
  BY <1>2 DEF CheckTaskStatus
<1>3. ASSUME NEW d \in Children, ChildExits(d) PROVE (handler = c)'
  BY <1>3 DEF ChildExits
<1>4. ASSUME NEW t \in Tasks, Launch(t) \/ WaitUntilExit(t) \/ LaunchedPrivilegedTask(t)
                              \/ Release(t) \/ WaitReturns(t)
      PROVE  (handler = c)'
  BY <1>4 DEF Launch, WaitUntilExit, LaunchedPrivilegedTask, Release, WaitReturns, Fork
<1>5. CASE UNCHANGED vars
  BY <1>1, <1>5
<1> QED
  BY <1>1, <1>2, <1>3, <1>4, <1>5 DEF Next

(* Every handler ends, and leaves its timer invalid.                       *)
LEMMA HandlerEnds ==
  ASSUME NEW c \in Children
  PROVE  Running => (handler = c ~> Idle /\ timer[c] = "invalid")
<1> DEFINE In == handler = c
           Out == Idle /\ timer[c] = "invalid"
           Back == waiting = NoTask
<1>1. Careful /\ In /\ [Next]_vars => In' \/ Out'
  BY HandlerStep
<1>2. Careful /\ In /\ <<InvalidateTimer(c)>>_vars => Out'
  BY HandlerStep DEF Next
<1>3. Careful /\ NothingBlocks /\ In /\ Back => ENABLED <<InvalidateTimer(c)>>_vars
  BY DEF Careful, OneTimer, NoOrphanTimer, NothingBlocks
<1>4. Fairness => ChildFairness(c)
  BY DEF Fairness
<1>5. Running => []<>Back
  BY ThreadComesBack
<1> HIDE DEF In, Out, Back
<1>6. Running => (In ~> Out)
  BY <1>1, <1>2, <1>3, <1>4, <1>5, PTL DEF Running, ChildFairness
<1> QED
  BY <1>6 DEF In, Out

(* The run loop gets to its timers again and again.                        *)
LEMMA OftenIdle == Running => []<>Idle
<1> DEFINE Back == waiting = NoTask
<1>1. ASSUME NEW c \in Children PROVE Running => [](handler = c => <>Idle)
  BY HandlerEnds, PTL
<1>2. Running => [](\A c \in Children : handler = c => <>Idle)
  <2>1. Running => \A c \in Children : [](handler = c => <>Idle)
    BY <1>1
  <2> QED
    BY <2>1
<1>3. (\A c \in Children : handler = c => <>Idle) =>
        ((\E c \in Children : handler = c) => <>Idle)
  OBVIOUS
<1>4. Careful /\ Back => Idle \/ \E c \in Children : handler = c
  BY DEF Careful, IInv, TypeOK, OneTimer, NoOrphanTimer, Idle
<1>5. Running => []<>Back
  BY ThreadComesBack
<1> HIDE DEF Back
<1> QED
  BY <1>2, <1>3, <1>4, <1>5, PTL DEF Running

(* A timer whose child is gone polls once more, and is then invalidated.   *)
LEMMA PolledStep ==
  ASSUME NEW c \in Children, Careful, timer[c] = "valid", child[c] # "running",
         [Next]_vars
  PROVE  /\ child'[c] # "running"
         /\ (timer[c] = "valid")' \/ (timer[c] = "invalid")'
         /\ CheckTaskStatus(c) => (handler = c)'
         /\ \A t \in Tasks : CheckTaskStatus(c) /\ target[c] = t => (JobOf(t) = "done")'
<1> USE TaskAssumption DEF Careful, IInv, TypeOK
<1>0. child[c] # "unused"
  BY DEF Links
<1>1. ASSUME NEW t \in Tasks, Fork(t)
      PROVE  child'[c] # "running" /\ UNCHANGED handler /\ timer'[c] = timer[c]
  BY <1>0, <1>1 DEF Fork
<1>2. ASSUME NEW t \in Tasks, Waitpid(t) PROVE child'[c] # "running"
  BY <1>2 DEF Waitpid, Reap, NoSuchChild
<1>3. ASSUME NEW t \in Tasks, CheckTaskStatus(c), target[c] = t
      PROVE  (JobOf(t) = "done")'
  <2>1. pid[t] = c
    BY <1>3 DEF CheckTaskStatus, OneTimer, NoOrphanTimer, checkStatusTimer
  <2> QED
    BY <1>3, <2>1 DEF CheckTaskStatus, JobOf
<1>4. ASSUME NEW t \in Tasks, Launch(t) \/ LaunchedPrivilegedTask(t)
      PROVE  child'[c] # "running" /\ timer'[c] = "valid" /\ UNCHANGED handler
  BY <1>1, <1>4 DEF Launch, LaunchedPrivilegedTask
<1>5. ASSUME NEW t \in Tasks, WaitUntilExit(t) \/ Release(t) \/ WaitReturns(t)
      PROVE  child'[c] # "running" /\ timer'[c] = "valid" /\ UNCHANGED handler
  BY <1>2, <1>5 DEF WaitUntilExit, Release, WaitReturns
<1>6. ASSUME NEW d \in Children, CheckTaskStatus(d)
      PROVE  child'[c] # "running" /\ timer'[c] = "valid" /\ handler' = d
  <2>1. target[d] \in Tasks
    BY <1>6, PolledTask DEF CheckTaskStatus
  <2> QED
    BY <1>2, <1>6, <2>1 DEF CheckTaskStatus
<1>7. ASSUME NEW d \in Children, InvalidateTimer(d)
      PROVE  child'[c] # "running" /\ timer'[c] \in {"valid", "invalid"}
  BY <1>7 DEF InvalidateTimer
<1>8. ASSUME NEW d \in Children, ChildExits(d)
      PROVE  child'[c] # "running" /\ timer'[c] = "valid"
  BY <1>8 DEF ChildExits
<1>9. CASE UNCHANGED vars
  <2>1. ~CheckTaskStatus(c)
    BY <1>6, <1>9 DEF CheckTaskStatus
  <2> QED
    BY <1>9, <2>1
<1>10. CheckTaskStatus(c) => (handler = c)'
  BY DEF CheckTaskStatus
<1> QED
  BY <1>3, <1>4, <1>5, <1>6, <1>7, <1>8, <1>9, <1>10 DEF Next

(* No timer polls for ever.                                                *)
LEMMA TimerEnds ==
  ASSUME NEW c \in Children PROVE Running => (timer[c] = "valid" ~> timer[c] = "invalid")
<1> DEFINE Polls == timer[c] = "valid"
           Gone == Polls /\ child[c] # "running"
           In == handler = c
           Done == timer[c] = "invalid"
<1>1. Careful /\ Polls /\ [Next]_vars => Polls' \/ Done'
  <2> SUFFICES ASSUME Careful, Polls, [Next]_vars PROVE Polls' \/ Done'
    OBVIOUS
  <2> USE TaskAssumption DEF Careful, IInv, TypeOK
  <2>1. CASE child[c] # "running"
    BY <2>1, PolledStep
  <2>2. CASE child[c] = "running"
    <3>1. ASSUME NEW t \in Tasks, Fork(t) PROVE Polls' \/ Done'
      BY <2>2, <3>1 DEF Fork
    <3> QED
      BY <3>1 DEF Next, Launch, LaunchedPrivilegedTask, WaitUntilExit, WaitReturns, Release,
                  CheckTaskStatus, InvalidateTimer, ChildExits
  <2> QED
    BY <2>1, <2>2
<1>2. Careful /\ Gone /\ [Next]_vars => Gone' \/ Done'
  BY PolledStep
<1>3. Careful /\ Polls /\ <<ChildExits(c)>>_vars => Gone'
  BY DEF Careful, IInv, TypeOK, ChildExits
<1>4. Careful /\ Gone /\ <<CheckTaskStatus(c)>>_vars => In'
  BY DEF CheckTaskStatus
<1>5. Careful /\ NothingBlocks /\ Polls => Gone \/ ENABLED <<ChildExits(c)>>_vars
  BY DEF Careful, OneTimer, NoOrphanTimer, NothingBlocks
<1>6. Careful /\ NothingBlocks /\ Gone /\ Idle => ENABLED <<CheckTaskStatus(c)>>_vars
  BY DEF Careful, OneTimer, NoOrphanTimer, NothingBlocks, checkStatusTimer
<1>7. Fairness => ChildFairness(c)
  BY DEF Fairness
<1>8. Running => (In ~> Done)
  <2>1. Idle /\ timer[c] = "invalid" => Done
    OBVIOUS
  <2> QED
    BY <2>1, HandlerEnds, PTL
<1> HIDE DEF Polls, Gone, In, Done
<1>9. Running => (Polls ~> Done)
  BY <1>1, <1>2, <1>3, <1>4, <1>5, <1>6, <1>7, <1>8, OftenIdle, PTL
  DEF Running, ChildFairness
<1> QED
  BY <1>9 DEF Polls, Done

(* Spec gives all the section starts from but the enabledness.             *)
LEMMA SpecRuns ==
  ASSUME ~RelaunchEarly, ~WaitUnlaunched PROVE Spec /\ []NothingBlocks => Running
  BY CarefulInvariance, PTL DEF Spec, Running

(* No exit goes without its notification, for clients of both disciplines. *)
THEOREM EveryExitNotified ==
  ASSUME ~RelaunchEarly, ~WaitUnlaunched
  PROVE  Spec /\ []NothingBlocks => ExitNotified
<1>1. ASSUME NEW c \in Children
      PROVE  Running => (child[c] = "zombie" ~> posts[c] > 0)
  <2>1. Careful /\ child[c] = "zombie" => timer[c] = "valid" \/ timer[c] = "invalid"
    BY DEF Careful, IInv, TypeOK, Links
  <2>2. Careful /\ timer[c] = "invalid" => posts[c] > 0
    BY DEF Careful, Posted
  <2> QED
    BY <2>1, <2>2, TimerEnds, PTL DEF Running
<1>2. Running => \A c \in Children : (child[c] = "zombie" ~> posts[c] > 0)
  BY <1>1
<1> QED
  BY <1>2, SpecRuns, PTL DEF ExitNotified

(* A task that its client released is deallocated, for clients of both     *)
(* disciplines: the timer, which retains it, stops.                        *)
THEOREM ReleasedAreFreed ==
  ASSUME ~RelaunchEarly, ~WaitUnlaunched
  PROVE  Spec /\ []NothingBlocks => ReleasedIsFreed
<1> USE TaskAssumption
<1>1. ASSUME NEW t \in Tasks, NEW c \in Children
      PROVE  Running => [](~held[t] /\ pid[t] = c => <>Deallocated(t))
  <2> DEFINE LetGo == ~held[t] /\ pid[t] = c
  <2>1. Careful /\ LetGo /\ [Next]_vars => LetGo'
    <3> SUFFICES ASSUME Careful, LetGo, [Next]_vars PROVE LetGo'
      OBVIOUS
    <3> USE DEF Careful, IInv, TypeOK
    <3>1. ASSUME NEW u \in Tasks, ClientRuns(u), Fork(u) PROVE LetGo'
      BY <3>1 DEF ClientRuns, Fork
    <3>2. ASSUME NEW u \in Tasks,
                 WaitUntilExit(u) \/ WaitReturns(u) \/ Release(u) \/ Launch(u)
                 \/ LaunchedPrivilegedTask(u)
          PROVE  LetGo'
      BY <3>1, <3>2 DEF WaitUntilExit, WaitReturns, Release, Launch, LaunchedPrivilegedTask
    <3>3. ASSUME NEW d \in Children,
                 CheckTaskStatus(d) \/ InvalidateTimer(d) \/ ChildExits(d)
          PROVE  LetGo'
      BY <3>3 DEF CheckTaskStatus, InvalidateTimer, ChildExits
    <3> QED
      BY <3>2, <3>3 DEF Next
  <2>2. Careful /\ LetGo => timer[c] = "valid" \/ timer[c] = "invalid"
    BY DEF Careful, IInv, TypeOK, Links
  <2>3. Careful /\ LetGo /\ timer[c] = "invalid" => Deallocated(t)
    BY DEF Careful, OneTimer, NoOrphanTimer, checkStatusTimer, Deallocated, LiveTimers
  <2> HIDE DEF LetGo
  <2>4. Running => [](LetGo => <>Deallocated(t))
    BY <2>1, <2>2, <2>3, TimerEnds, PTL DEF Running
  <2> QED
    BY <2>4 DEF LetGo
<1>2. ASSUME NEW t \in Tasks PROVE Running => (~held[t] ~> Deallocated(t))
  <2>1. Running => [](\A c \in Children : ~held[t] /\ pid[t] = c => <>Deallocated(t))
    <3>1. Running => \A c \in Children : [](~held[t] /\ pid[t] = c => <>Deallocated(t))
      BY <1>1
    <3> QED
      BY <3>1
  <2>2. (\A c \in Children : ~held[t] /\ pid[t] = c => <>Deallocated(t)) =>
          (~held[t] /\ pid[t] \in Children => <>Deallocated(t))
    OBVIOUS
  <2>3. Careful /\ ~held[t] => Deallocated(t) \/ pid[t] \in Children
    BY DEF Careful, IInv, TypeOK, OneTimer, NoOrphanTimer, checkStatusTimer, Deallocated,
           LiveTimers
  <2> QED
    BY <2>1, <2>2, <2>3, PTL DEF Running
<1>3. Running => \A t \in Tasks : (~held[t] ~> Deallocated(t))
  BY <1>2
<1> QED
  BY <1>3, SpecRuns, PTL DEF ReleasedIsFreed

(* What has exited stays so until it is reported.                          *)
LEMMA ExitedStep ==
  ASSUME ~RelaunchEarly, NEW t \in Tasks, NEW c \in Children, Careful, [Next]_vars,
         JobOf(t) = "exited", pid[t] = c
  PROVE  (JobOf(t) = "exited" /\ pid[t] = c)' \/ (JobOf(t) = "done")'
<1> USE TaskAssumption DEF Careful, IInv, TypeOK, Links
<1> DEFINE Kept == (JobOf(t) = "exited" /\ pid[t] = c)'
           Reported == (JobOf(t) = "done")'
<1>0. isRunning[t] /\ child[c] # "running" /\ child[c] # "unused" /\ timer[c] = "valid"
  BY DEF JobOf, Monitored, LiveTimers, OneTimer, NoOrphanTimer, checkStatusTimer
<1>1. ASSUME NEW u \in Tasks, Launch(u) \/ LaunchedPrivilegedTask(u)
      PROVE  Kept
  <2>1. ASSUME Fork(u) PROVE u # t
    BY <1>0, <2>1 DEF Fork, LiveTimers
  <2> QED
    BY <1>0, <1>1, <2>1 DEF Launch, LaunchedPrivilegedTask, Fork, JobOf
<1>2. ASSUME NEW u \in Tasks, pid[u] # NoChild, Waitpid(u),
             isRunning' = [isRunning EXCEPT ![u] = FALSE], UNCHANGED pid
      PROVE  Kept \/ Reported
  BY <1>0, <1>2 DEF Waitpid, Reap, NoSuchChild, Awaited, JobOf
<1>3. ASSUME NEW u \in Tasks, WaitReturns(u)
      PROVE  Kept \/ Reported
  <2>1. pid[u] # NoChild
    BY <1>3 DEF WaitReturns, OwnChild
  <2> QED
    BY <1>2, <1>3, <2>1 DEF WaitReturns
<1>4. ASSUME NEW d \in Children, CheckTaskStatus(d)
      PROVE  Kept \/ Reported
  BY <1>2, <1>4, PolledTask DEF CheckTaskStatus
<1>5. ASSUME NEW d \in Children, InvalidateTimer(d) \/ ChildExits(d)
      PROVE  Kept
  BY <1>0, <1>5 DEF InvalidateTimer, ChildExits, JobOf
<1>6. ASSUME NEW u \in Tasks, WaitUntilExit(u) \/ Release(u)
      PROVE  Kept
  BY <1>6 DEF WaitUntilExit, Release, JobOf
<1>7. CASE UNCHANGED vars
  BY <1>7 DEF JobOf
<1> HIDE DEF Careful, IInv, TypeOK, Links
<1> QED
  BY <1>1, <1>3, <1>4, <1>5, <1>6, <1>7 DEF Next

(* The object implements TaskPromise, liveness included.                   *)
THEOREM ImplementsWholePromise ==
  ASSUME ~RelaunchEarly, ~WaitUnlaunched
  PROVE  Spec /\ []NothingBlocks => KeepsPromise
<1> USE TaskAssumption
<1>1. ASSUME NEW t \in Tasks, NEW c \in Children
      PROVE  Running => [](JobOf(t) = "exited" /\ pid[t] = c => <>(JobOf(t) = "done"))
  <2> DEFINE Exited == JobOf(t) = "exited" /\ pid[t] = c
             Done == JobOf(t) = "done"
  <2>0. Careful /\ Exited => /\ timer[c] = "valid" /\ child[c] # "running"
                             /\ target[c] = t /\ pid[target[c]] = c
    BY DEF Careful, IInv, TypeOK, Links, JobOf, Monitored, LiveTimers, OneTimer,
           NoOrphanTimer, checkStatusTimer
  <2>1. Careful /\ Exited /\ [Next]_vars => Exited' \/ Done'
    BY ExitedStep
  <2>2. Careful /\ Exited /\ <<CheckTaskStatus(c)>>_vars => Done'
    BY <2>0, PolledStep DEF Next
  <2>3. Careful /\ NothingBlocks /\ Exited /\ Idle => ENABLED <<CheckTaskStatus(c)>>_vars
    BY <2>0 DEF NothingBlocks
  <2>4. Fairness => ChildFairness(c)
    BY DEF Fairness
  <2> HIDE DEF Exited, Done
  <2>5. Running => [](Exited => <>Done)
    BY <2>1, <2>2, <2>3, <2>4, OftenIdle, PTL DEF Running, ChildFairness
  <2> QED
    BY <2>5 DEF Exited, Done
<1>2. ASSUME NEW t \in Tasks PROVE Running => Promise!Reported(t)
  <2> DEFINE Done == JobOf(t) = "done"
             Exited == JobOf(t) = "exited"
  <2>1. Running => [](\A c \in Children : Exited /\ pid[t] = c => <>Done)
    <3>1. Running => \A c \in Children : [](Exited /\ pid[t] = c => <>Done)
      BY <1>1
    <3> QED
      BY <3>1
  <2>2. (\A c \in Children : Exited /\ pid[t] = c => <>Done) =>
          (Exited /\ pid[t] \in Children => <>Done)
    OBVIOUS
  <2>3. Careful /\ Exited => pid[t] \in Children
    BY DEF Careful, IInv, TypeOK, OwnChild, JobOf
  <2>4. (Promise!Exited(t) <=> Exited) /\ (Promise!Done(t) <=> Done)
    BY DEF Promise!Exited, Promise!Done
  <2> HIDE DEF Done, Exited
  <2> QED
    BY <2>1, <2>2, <2>3, <2>4, PTL DEF Running, Promise!Reported
<1>3. Running => \A t \in Tasks : Promise!Reported(t)
  BY <1>2
<1> QED
  BY <1>3, SpecRuns, ImplementsPromise, PTL DEF KeepsPromise, Promise!Spec
=============================================================================
