-------------------------- MODULE TaskOutputProofs --------------------------
(* Theorems about TaskOutput, for any tasks, tools and sizes of pipe: the  *)
(* pipe hides nothing from PrivilegedTask, and is open as long as needed.  *)
EXTENDS TaskOutput, PrivilegedTaskProofs, FiniteSetTheorems

(* Every step with the pipes is a step without them, or none.              *)
LEMMA StepWithoutPipes == [ONext]_ovars => [Next]_vars
<1> SUFFICES ASSUME [ONext]_ovars PROVE [Next]_vars
  OBVIOUS
<1>1. ASSUME NEW t \in Tasks,
             \/ Launch(t) /\ PipeOpens
             \/ LaunchedPrivilegedTask(t) /\ PipeOpens
             \/ WaitUntilExit(t) /\ UNCHANGED pipes
             \/ OWaitReturns(t)
             \/ Release(t) /\ HandlesClose
      PROVE  Next
  BY <1>1 DEF OWaitReturns, Next
<1>2. ASSUME NEW c \in Children,
             OCheckTaskStatus(c) \/ OInvalidateTimer(c) \/ ToolExits(c)
      PROVE  Next
  BY <1>2 DEF OCheckTaskStatus, OInvalidateTimer, ToolExits, Next
<1>3. ASSUME (\E t \in Tasks : Read(t)) \/ (\E c \in Children : WriteOutput(c))
             \/ UNCHANGED ovars
      PROVE  UNCHANGED vars
  <2>1. ASSUME NEW t \in Tasks, Read(t) PROVE UNCHANGED vars
    BY <2>1, Zenon DEF Read
  <2>2. ASSUME NEW c \in Children, WriteOutput(c) PROVE UNCHANGED vars
    BY <2>2, Zenon DEF WriteOutput
  <2>3. ASSUME UNCHANGED ovars PROVE UNCHANGED vars
    BY <2>3 DEF ovars
  <2> QED
    BY <1>3, <2>1, <2>2, <2>3
<1> QED
  BY <1>1, <1>2, <1>3 DEF ONext

(* The tasks of TaskOutput are those of PrivilegedTask.                    *)
THEOREM ImplementsPrivilegedTask == OSpec => Init /\ [][Next]_vars
<1>1. OInit => Init
  BY DEF OInit
<1> QED
  BY <1>1, StepWithoutPipes, PTL DEF OSpec

LEMMA OInvariance == OSpec => []IInv
  BY ImplementsPrivilegedTask, InitIInv, NextIInv, PTL

(* So they keep what PrivilegedTask promises its clients: a full pipe may  *)
(* put a report off, but makes none early, twice or with another status.   *)
THEOREM OutputKeepsPromise ==
  ASSUME ~RelaunchEarly, ~WaitUnlaunched
  PROVE  OSpec => Promise!Init /\ [][Promise!Next]_(Promise!vars)
<1>1. Init => Promise!Init /\ OwnChild
  BY DEF Init, Promise!Init, JobOf, OwnChild
<1>2. IInv /\ OwnChild /\ [Next]_vars => OwnChild'
  BY OwnChildStep
<1>3. IInv /\ IInv' /\ OwnChild /\ OwnChild' /\ [Next]_vars
        => [Promise!Next]_(Promise!vars)
  BY PromiseStep
<1> QED
  BY <1>1, <1>2, <1>3, OInvariance, ImplementsPrivilegedTask, PTL

(* The types of the pipes, whatever the client reads.                      *)
THEOREM PipesTyped == OSpec => []PipesTypeOK
<1> USE OutputAssumption DEF PipesTypeOK, pipes
<1>1. OInit => PipesTypeOK
  BY DEF OInit
<1>2. PipesTypeOK /\ [ONext]_ovars => PipesTypeOK'
  <2> SUFFICES ASSUME PipesTypeOK, [ONext]_ovars PROVE PipesTypeOK'
    OBVIOUS
  <2>1. CASE UNCHANGED pipes
    BY <2>1
  <2>2. CASE PipeOpens
    BY <2>2 DEF PipeOpens
  <2>3. CASE HandlesClose
    BY <2>3 DEF HandlesClose
  <2>4. ASSUME NEW t \in Tasks, Read(t) PROVE PipesTypeOK'
    BY <2>4 DEF Read
  <2>5. ASSUME NEW c \in Children, WriteOutput(c) PROVE PipesTypeOK'
    BY <2>5 DEF WriteOutput
  <2> QED
    BY <2>1, <2>2, <2>3, <2>4, <2>5
    DEF ONext, OWaitReturns, OCheckTaskStatus, OInvalidateTimer, ToolExits, ovars
<1> QED
  BY <1>1, <1>2, PTL DEF OSpec

(* Everything keeps its type, with the pipes of the tools (line 204).       *)
THEOREM OTypeCorrect == OSpec => []OTypeOK
<1>1. IInv => TypeOK
  BY DEF IInv
<1> QED
  BY <1>1, OInvariance, PipesTyped, PTL DEF OTypeOK

(* A task of a running tool is not deallocated: it says it runs, so one of *)
(* its timers is live.                                                     *)
LEMMA OwnerAlive ==
  ASSUME IInv, NEW t \in Tasks, pid[t] # NoChild, child[pid[t]] = "running"
  PROVE  ~Deallocated(t)
  BY DEF IInv, FinishedMeansReaped, Monitored, Deallocated

(* Only a fork makes a process run.                                        *)
LEMMA RunsOn ==
  ASSUME TypeOK, [Next]_vars, NEW c \in Children, child'[c] = "running"
  PROVE  child[c] \in {"unused", "running"}
<1> USE TaskAssumption DEF TypeOK, vars, taskVars, kernelVars
<1>1. ASSUME NEW t \in Tasks, Fork(t) PROVE child[c] \in {"unused", "running"}
  BY <1>1 DEF Fork
<1>2. ASSUME NEW t \in Tasks, Waitpid(t) PROVE child[c] \in {"unused", "running"}
  BY <1>2 DEF Waitpid, Reap, NoSuchChild
<1>3. ASSUME NEW d \in Children, ChildExits(d) PROVE child[c] \in {"unused", "running"}
  BY <1>3 DEF ChildExits
<1>4. ASSUME NEW d \in Children, CheckTaskStatus(d) PROVE child[c] \in {"unused", "running"}
  BY <1>4 DEF CheckTaskStatus, Waitpid, Reap, NoSuchChild
<1>5. CASE UNCHANGED child
  BY <1>5
<1> QED
  BY <1>1, <1>2, <1>3, <1>4, <1>5
  DEF Next, Launch, WaitUntilExit, LaunchedPrivilegedTask, WaitReturns, Release,
      InvalidateTimer

LEMMA NoBrokenPipeStep ==
  ASSUME IInv, IInv', NoBrokenPipe, PipesTypeOK, [ONext]_ovars
  PROVE  NoBrokenPipe'
<1> SUFFICES ASSUME NEW c \in Children, child'[c] = "running"
             PROVE  readEnd'[c] = "open"
  BY DEF NoBrokenPipe
<1>t. TypeOK /\ child[c] \in {"unused", "running"}
  BY StepWithoutPipes, RunsOn DEF IInv
<1>1. CASE PipeOpens
  BY <1>1, <1>t DEF PipeOpens, Forked, NoBrokenPipe
<1>2. ASSUME UNCHANGED child PROVE child[c] = "running" /\ readEnd[c] = "open"
  BY <1>2 DEF NoBrokenPipe
<1>3. ASSUME HandlesClose, UNCHANGED <<child, pid>> PROVE readEnd'[c] = "open"
  <2>1. ASSUME NEW t \in Owners(c), Deallocated(t)' PROVE FALSE
    <3>1. t \in Tasks /\ pid'[t] = c /\ c # NoChild
      BY <1>3, TaskAssumption DEF Owners
    <3>2. isRunning'[t]
      BY <3>1 DEF IInv, FinishedMeansReaped
    <3>3. LiveTimers(t)' # {}
      BY <3>1, <3>2 DEF IInv, Monitored
    <3> QED
      BY <2>1, <3>3 DEF Deallocated
  <2> QED
    BY <1>2, <1>3, <2>1 DEF HandlesClose
<1>4. ASSUME NEW t \in Tasks, Release(t) /\ HandlesClose PROVE readEnd'[c] = "open"
  BY <1>3, <1>4 DEF Release, kernelVars
<1>5. ASSUME NEW d \in Children, OInvalidateTimer(d) PROVE readEnd'[c] = "open"
  BY <1>3, <1>5 DEF OInvalidateTimer, InvalidateTimer, kernelVars, taskVars
<1>6. ASSUME UNCHANGED readEnd, child[c] = "running" PROVE readEnd'[c] = "open"
  BY <1>6 DEF NoBrokenPipe
<1>7. ASSUME NEW t \in Tasks, Waitpid(t) PROVE child[c] = "running"
  BY <1>7, <1>t DEF Waitpid, Reap, NoSuchChild, TypeOK
<1>8. ASSUME NEW t \in Tasks,
             (WaitUntilExit(t) /\ UNCHANGED pipes) \/ OWaitReturns(t) \/ Read(t)
      PROVE  readEnd'[c] = "open"
  BY <1>2, <1>6, <1>7, <1>8
  DEF WaitUntilExit, OWaitReturns, WaitReturns, Read, pipes, vars, kernelVars
<1>9. ASSUME NEW d \in Children, OCheckTaskStatus(d) \/ WriteOutput(d)
      PROVE  readEnd'[c] = "open"
  <2>1. CASE OCheckTaskStatus(d)
    <3>1. child[c] = "running"
      BY <1>t, <2>1 DEF OCheckTaskStatus, CheckTaskStatus, Waitpid, Reap, NoSuchChild, TypeOK
    <3> QED
      BY <1>6, <2>1, <3>1 DEF OCheckTaskStatus, pipes
  <2>2. CASE WriteOutput(d)
    BY <1>2, <1>6, <2>2 DEF WriteOutput, vars, kernelVars
  <2> QED
    BY <1>9, <2>1, <2>2
<1>10. ASSUME NEW d \in Children, ToolExits(d) PROVE readEnd'[c] = "open"
  <2>1. child[c] = "running"
    BY <1>10, <1>t DEF ToolExits, ChildExits, TypeOK
  <2> QED
    BY <1>6, <1>10, <2>1 DEF ToolExits, pipes
<1>11. CASE UNCHANGED ovars
  BY <1>2, <1>11 DEF ovars, vars, kernelVars, pipes
<1> QED
  BY <1>1, <1>4, <1>5, <1>8, <1>9, <1>10, <1>11 DEF ONext

(* No client makes a task close the pipe its tool writes to.               *)
THEOREM PipesStayOpen == OSpec => []NoBrokenPipe
<1>1. OInit => NoBrokenPipe
  BY DEF OInit, Init, NoBrokenPipe
<1>2. IInv /\ IInv' /\ NoBrokenPipe /\ PipesTypeOK /\ [ONext]_ovars => NoBrokenPipe'
  BY NoBrokenPipeStep
<1> QED
  BY <1>1, <1>2, OInvariance, PipesTyped, PTL DEF OSpec
-----------------------------------------------------------------------------
LEMMA StuckStep ==
  ASSUME IInv, NoBrokenPipe, PipesTypeOK, [ONext]_ovars,
         NEW t \in Tasks, waiting = t, pid[t] # NoChild, Stuck(pid[t])
  PROVE  waiting' = t /\ Stuck(pid[t])'
<1> USE TaskAssumption, OutputAssumption
<1> DEFINE c == pid[t]
<1>1. /\ c \in Children /\ waiting # NoTask /\ TypeOK
      /\ child[c] = "running" /\ pending[c] > 0 /\ buffered[c] = PipeSize
      /\ readEnd[c] = "open"
  BY DEF IInv, TypeOK, Stuck, NoBrokenPipe
<1> SUFFICES ASSUME ~UNCHANGED ovars PROVE waiting' = t /\ Stuck(c)'
  BY DEF ovars, vars, taskVars, kernelVars, pipes, Stuck
<1>2. ASSUME NEW u \in Tasks PROVE ~ClientRuns(u)
  BY <1>1 DEF ClientRuns
<1>3. ASSUME NEW u \in Tasks, OWaitReturns(u) PROVE FALSE
  <2>1. u = t /\ Waitpid(t)
    BY <1>3 DEF OWaitReturns, WaitReturns
  <2>2. Awaited(t) = {c}
    BY <1>1 DEF Awaited
  <2> QED
    BY <1>1, <2>1, <2>2 DEF Waitpid, NoSuchChild, Reap
<1>4. ASSUME NEW d \in Children, OCheckTaskStatus(d) \/ OInvalidateTimer(d) PROVE FALSE
  BY <1>1, <1>4 DEF OCheckTaskStatus, CheckTaskStatus, OInvalidateTimer, InvalidateTimer
<1>5. PICK d \in Children : WriteOutput(d) \/ ToolExits(d)
  BY <1>2, <1>3, <1>4
  DEF ONext, Launch, LaunchedPrivilegedTask, WaitUntilExit, Release, Read
<1>6. CASE WriteOutput(d)
  <2>1. d # c
    BY <1>1, <1>6 DEF WriteOutput, PipesTypeOK
  <2>2. UNCHANGED <<waiting, child, pid>>
    BY <1>6 DEF WriteOutput, vars, taskVars, kernelVars
  <2> QED
    BY <1>1, <1>6, <2>1, <2>2 DEF WriteOutput, PipesTypeOK, Stuck
<1>7. CASE ToolExits(d)
  <2>1. d # c
    BY <1>1, <1>7 DEF ToolExits, PipesTypeOK
  <2>2. UNCHANGED <<waiting, pid, pending, buffered>>
    BY <1>7 DEF ToolExits, ChildExits, taskVars, pipes
  <2>3. child'[c] = "running"
    BY <1>1, <1>7, <2>1 DEF ToolExits, ChildExits, TypeOK
  <2> QED
    BY <1>1, <2>2, <2>3 DEF Stuck
<1> QED
  BY <1>5, <1>6, <1>7

(* A wait for a tool that filled its pipe never ends.                      *)
THEOREM StuckStays == OSpec => StuckForGood
<1>1. IInv /\ NoBrokenPipe /\ PipesTypeOK /\ [ONext]_ovars =>
        [\A t \in Tasks : waiting = t /\ pid[t] # NoChild /\ Stuck(pid[t])
           => waiting' = t /\ Stuck(pid[t])']_ovars
  BY StuckStep
<1> QED
  BY <1>1, OInvariance, PipesTyped, PipesStayOpen, PTL DEF OSpec, StuckForGood
-----------------------------------------------------------------------------
Reads(c) == target[c] # NoTask /\ pid[target[c]] = c

Closed(c) == Reads(c) /\ Deallocated(target[c])

DescriptorOf(c) ==
  IF target[c] = NoTask THEN "none" ELSE IF Closed(c) THEN "closed" ELSE "open"

LEMMA DescriptorsAre ==
  DescriptorsKnown <=> \A c \in Children : readEnd[c] = DescriptorOf(c)
  BY DEF DescriptorsKnown, DescriptorOf, Closed, Reads

(* The task that reads from the pipe of c, if one does.                    *)
LEMMA OwnerIsTarget ==
  ASSUME IInv, NEW c \in Children
  PROVE  Owners(c) = IF Reads(c) THEN {target[c]} ELSE {}
<1> USE TaskAssumption DEF IInv, TypeOK, Links
<1>1. ASSUME NEW t \in Tasks, pid[t] = c PROVE t = target[c]
  BY <1>1
<1>2. target[c] # NoTask => target[c] \in Tasks
  OBVIOUS
<1> QED
  BY <1>1, <1>2 DEF Owners, Reads

(* Steps that neither launch nor let go.                                   *)
LEMMA DescriptorsStay ==
  ASSUME DescriptorsKnown, UNCHANGED <<target, pid, held, timer, readEnd>>
  PROVE  DescriptorsKnown'
  BY DEF DescriptorsKnown, Deallocated, LiveTimers

(* A launch: its task is held, so that none of its descriptors is closed.  *)
LEMMA DescriptorOpens ==
  ASSUME IInv, DescriptorsKnown, NEW t \in Tasks, held[t], Fork(t), PipeOpens
  PROVE  DescriptorsKnown'
<1> USE TaskAssumption DEF IInv, TypeOK, Links
<1>1. PICK d \in Children :
        /\ child[d] = "unused" /\ child' = [child EXCEPT ![d] = "running"]
        /\ target' = [target EXCEPT ![d] = t]
        /\ timer' = [timer EXCEPT ![d] = "valid"]
        /\ pid' = [pid EXCEPT ![t] = d]
        /\ UNCHANGED held
  BY DEF Fork
<1>2. Forked = {d}
  BY <1>1 DEF Forked
<1>3. /\ readEnd'[d] = "open"
      /\ \A c \in Children \ {d} : readEnd'[c] = readEnd[c]
  BY <1>2 DEF PipeOpens
<1>4. target[d] = NoTask
  BY <1>1
<1>5. ASSUME NEW u \in Tasks, u # t PROVE LiveTimers(u)' = LiveTimers(u)
  BY <1>1, <1>4, <1>5 DEF LiveTimers
<1>6. ~Deallocated(t) /\ ~Deallocated(t)'
  BY <1>1 DEF Deallocated
<1>7. DescriptorOf(d)' = "open"
  <2>1. target'[d] = t /\ t # NoTask
    BY <1>1
  <2> QED
    BY <1>6, <2>1 DEF DescriptorOf, Closed, Deallocated, LiveTimers
<1>8. ASSUME NEW c \in Children, c # d PROVE DescriptorOf(c)' = DescriptorOf(c)
  <2>1. target'[c] = target[c]
    BY <1>1, <1>8
  <2>2. CASE target[c] = NoTask
    BY <2>1, <2>2 DEF DescriptorOf
  <2>3. CASE target[c] = t
    BY <1>6, <2>1, <2>3 DEF DescriptorOf, Closed, Deallocated, LiveTimers
  <2>4. CASE target[c] \notin {t, NoTask}
    <3>1. target[c] \in Tasks /\ pid'[target[c]] = pid[target[c]]
      BY <1>1, <2>4
    <3>2. Deallocated(target[c])' <=> Deallocated(target[c])
      <4>1. held'[target[c]] = held[target[c]]
        BY <1>1
      <4>2. {e \in Children : target'[e] = target[c] /\ timer'[e] = "valid"}
              = LiveTimers(target[c])
        BY <1>1, <1>4, <2>4, <3>1 DEF LiveTimers
      <4> QED
        BY <2>1, <4>1, <4>2 DEF Deallocated, LiveTimers
    <3> QED
      BY <2>1, <3>1, <3>2 DEF DescriptorOf, Closed, Reads
  <2> QED
    BY <2>2, <2>3, <2>4
<1> QED
  BY <1>3, <1>7, <1>8, DescriptorsAre DEF DescriptorsKnown, DescriptorOf, Closed, Reads

(* Letting go: what a task reads from is closed with it.                   *)
LEMMA DescriptorCloses ==
  ASSUME IInv, DescriptorsKnown, HandlesClose, UNCHANGED <<target, pid>>,
         \A t \in Tasks : Deallocated(t) => Deallocated(t)'
  PROVE  DescriptorsKnown'
<1> SUFFICES ASSUME NEW c \in Children PROVE readEnd'[c] = DescriptorOf(c)'
  BY DEF DescriptorsKnown, DescriptorOf, Closed, Reads
<1>1. readEnd[c] = DescriptorOf(c)
  BY DescriptorsAre
<1>2. readEnd'[c] = IF \E t \in Owners(c) : Deallocated(t)' THEN "closed" ELSE readEnd[c]
  BY DEF HandlesClose
<1>3. target[c] \in Tasks \cup {NoTask}
  BY DEF IInv, TypeOK
<1>4. CASE Reads(c)
  <2>1. target[c] \in Tasks /\ target[c] # NoTask /\ Owners(c) = {target[c]}
    BY <1>3, <1>4, OwnerIsTarget DEF Reads
  <2>2. Closed(c)' <=> \E t \in Owners(c) : Deallocated(t)'
    BY <1>4, <2>1 DEF Closed, Reads, Deallocated, LiveTimers
  <2>3. Closed(c) => Closed(c)'
    BY <2>1, <2>2 DEF Closed
  <2> QED
    BY <1>1, <1>2, <2>1, <2>2, <2>3 DEF DescriptorOf
<1>5. CASE ~Reads(c)
  <2>1. Owners(c) = {} /\ ~Closed(c) /\ ~Closed(c)'
    BY <1>5, OwnerIsTarget DEF Closed, Reads
  <2> QED
    BY <1>1, <1>2, <2>1 DEF DescriptorOf
<1> QED
  BY <1>4, <1>5

LEMMA DescriptorsKnownStep ==
  ASSUME IInv, DescriptorsKnown, [ONext]_ovars
  PROVE  DescriptorsKnown'
<1> USE TaskAssumption DEF pipes, vars, taskVars, kernelVars
<1>1. ASSUME NEW t \in Tasks,
             (Launch(t) \/ LaunchedPrivilegedTask(t)) /\ PipeOpens
      PROVE  DescriptorsKnown'
  <2>1. held[t]
    BY <1>1 DEF Launch, LaunchedPrivilegedTask, ClientRuns
  <2>2. CASE Fork(t)
    BY <1>1, <2>1, <2>2, DescriptorOpens
  <2>3. CASE ~Fork(t)
    <3>1. UNCHANGED <<target, pid, held, timer, child>>
      BY <1>1, <2>3 DEF Launch, LaunchedPrivilegedTask
    <3>2. Forked = {}
      BY <3>1 DEF Forked
    <3>3. \A c \in Children : readEnd'[c] = readEnd[c]
      BY <1>1, <3>2 DEF PipeOpens
    <3> QED
      BY <3>1, <3>3 DEF DescriptorsKnown, Deallocated, LiveTimers
  <2> QED
    BY <2>2, <2>3
<1>2. ASSUME NEW t \in Tasks,
             (WaitUntilExit(t) /\ UNCHANGED pipes) \/ OWaitReturns(t) \/ Read(t)
      PROVE  DescriptorsKnown'
  BY <1>2, DescriptorsStay DEF WaitUntilExit, OWaitReturns, WaitReturns, Read
<1>3. ASSUME NEW t \in Tasks, Release(t) /\ HandlesClose PROVE DescriptorsKnown'
  <2>1. UNCHANGED <<target, pid, timer>> /\ held' = [held EXCEPT ![t] = FALSE]
    BY <1>3 DEF Release
  <2>2. \A u \in Tasks : Deallocated(u) => Deallocated(u)'
    BY <2>1 DEF Deallocated, LiveTimers, IInv, TypeOK
  <2> QED
    BY <1>3, <2>1, <2>2, DescriptorCloses
<1>4. ASSUME NEW c \in Children, OInvalidateTimer(c) PROVE DescriptorsKnown'
  <2>1. UNCHANGED <<target, pid, held>> /\ HandlesClose
        /\ \A d \in Children : timer'[d] = "valid" => timer[d] = "valid"
    BY <1>4 DEF OInvalidateTimer, InvalidateTimer, IInv, TypeOK
  <2>2. \A u \in Tasks : Deallocated(u) => Deallocated(u)'
    BY <2>1 DEF Deallocated, LiveTimers
  <2> QED
    BY <2>1, <2>2, DescriptorCloses
<1>5. ASSUME NEW c \in Children, OCheckTaskStatus(c) \/ WriteOutput(c) \/ ToolExits(c)
      PROVE  DescriptorsKnown'
  BY <1>5, DescriptorsStay
  DEF OCheckTaskStatus, CheckTaskStatus, WriteOutput, ToolExits, ChildExits
<1>6. CASE UNCHANGED ovars
  BY <1>6, DescriptorsStay DEF ovars
<1> QED
  BY <1>1, <1>2, <1>3, <1>4, <1>5, <1>6 DEF ONext

(* What becomes of every descriptor: none is closed under a task that can  *)
(* still read, each is closed with its task, and one whose handle a later  *)
(* launch overwrote never is (lines 49-59, 223).                           *)
THEOREM DescriptorsAccounted == OSpec => []DescriptorsKnown
<1>1. OInit => DescriptorsKnown
  BY DEF OInit, Init, DescriptorsKnown
<1>2. IInv /\ DescriptorsKnown /\ [ONext]_ovars => DescriptorsKnown'
  BY DescriptorsKnownStep
<1> QED
  BY <1>1, <1>2, OInvariance, PTL DEF OSpec
(* However many processes there could be, only so many have been launched. *)
LaunchedTools == {c \in Children : target[c] # NoTask}

LEMMA LaunchedFinite == OSpec => []IsFiniteSet(LaunchedTools)
<1> USE TaskAssumption DEF LaunchedTools
<1>1. OInit => IsFiniteSet(LaunchedTools)
  <2> SUFFICES ASSUME OInit PROVE IsFiniteSet(LaunchedTools)
    OBVIOUS
  <2>1. LaunchedTools = {}
    BY DEF OInit, Init
  <2> QED
    BY <2>1, FS_EmptySet
<1>2. IInv /\ IsFiniteSet(LaunchedTools) /\ [Next]_vars => IsFiniteSet(LaunchedTools)'
  <2> SUFFICES ASSUME IInv, IsFiniteSet(LaunchedTools), [Next]_vars
               PROVE  IsFiniteSet(LaunchedTools')
    OBVIOUS
  <2>1. ASSUME NEW t \in Tasks, Fork(t) PROVE IsFiniteSet(LaunchedTools')
    <3>1. PICK d \in Children : target' = [target EXCEPT ![d] = t]
      BY <2>1 DEF Fork
    <3>2. LaunchedTools' = LaunchedTools \cup {d}
      BY <3>1 DEF IInv, TypeOK
    <3> HIDE DEF LaunchedTools
    <3> QED
      BY <3>2, FS_AddElement
  <2>2. CASE UNCHANGED target
    BY <2>2
  <2> QED
    BY <2>1, <2>2
    DEF Next, Launch, WaitUntilExit, LaunchedPrivilegedTask, WaitReturns, Release,
        CheckTaskStatus, InvalidateTimer, ChildExits, vars, taskVars, kernelVars
<1>3. OSpec => [][Next]_vars
  BY ImplementsPrivilegedTask, PTL
<1> QED
  BY <1>1, <1>2, <1>3, OInvariance, PTL DEF OSpec

(* The tools of a task that launched once are one tool at most.            *)
LEMMA OneTool ==
  ASSUME IsFiniteSet(LaunchedTools), NEW t \in Tasks, LaunchedOnce(t),
         NEW c \in Children, NEW d \in Children, target[c] = t, target[d] = t
  PROVE  c = d
<1> DEFINE S == {e \in Children : target[e] = t}
<1>1. S \in SUBSET LaunchedTools
  BY TaskAssumption DEF LaunchedTools
<1>2. IsFiniteSet(S) /\ Cardinality(S) <= 1 /\ {c, d} \in SUBSET S
  BY <1>1, FS_Subset DEF LaunchedOnce
<1> HIDE DEF S
<1>3. Cardinality({c, d}) <= Cardinality(S) /\ Cardinality(S) \in Nat
  BY <1>2, FS_Subset, FS_CardinalityType
<1>4. IsFiniteSet({c}) /\ Cardinality({c}) = 1 /\ {c, d} = {c} \cup {d}
  BY FS_Singleton
<1>5. Cardinality({c} \cup {d}) = IF d \in {c} THEN Cardinality({c}) ELSE Cardinality({c}) + 1
  BY <1>4, FS_AddElement, Zenon
<1>6. c # d => Cardinality({c, d}) = 2
  BY <1>4, <1>5
<1> QED
  BY <1>2, <1>3, <1>6

(* A deallocated task that was launched once has given every descriptor    *)
(* back: what DescriptorsReturned adds is that it is deallocated in time   *)
(* (lines 49-59).                                                          *)
THEOREM FreedTaskReturnsAll ==
  OSpec => [](\A t \in Tasks : Deallocated(t) /\ LaunchedOnce(t) =>
                \A c \in Children : target[c] = t => readEnd[c] = "closed")
<1>1. ASSUME IInv, DescriptorsKnown, IsFiniteSet(LaunchedTools), NEW t \in Tasks,
             Deallocated(t), LaunchedOnce(t), NEW c \in Children, target[c] = t
      PROVE  readEnd[c] = "closed"
  <2>1. pid[t] \in Children /\ target[pid[t]] = t
    BY <1>1, TaskAssumption DEF IInv, TypeOK, Links
  <2>2. pid[t] = c
    BY <1>1, <2>1, OneTool
  <2> QED
    BY <1>1, <2>2, TaskAssumption DEF DescriptorsKnown
<1>2. IInv /\ DescriptorsKnown /\ IsFiniteSet(LaunchedTools) =>
        \A t \in Tasks : Deallocated(t) /\ LaunchedOnce(t) =>
          \A c \in Children : target[c] = t => readEnd[c] = "closed"
  BY <1>1
<1> QED
  BY <1>2, OInvariance, DescriptorsAccounted, LaunchedFinite, PTL
-----------------------------------------------------------------------------
(* No tool is started, read or given more to write.                        *)
ToolsRunDown ==
  \A c \in Children :
    /\ child'[c] = "running" => child[c] = "running"
    /\ pending'[c] <= pending[c] /\ buffered'[c] >= buffered[c]

(* A tool has come nearer to its end.                                      *)
ToolNearer ==
  \E c \in Children :
    child[c] = "running" /\ (child'[c] = "zombie" \/ pending'[c] < pending[c])

LEMMA WaitStepsDown ==
  ASSUME TypeOK, PipesTypeOK, ONext, waiting # NoTask
  PROVE  ToolsRunDown /\ (waiting' = waiting => ToolNearer)
<1> USE DEF pipes, vars, taskVars, kernelVars
<1>t. /\ child \in [Children -> {"unused", "running", "zombie", "reaped"}]
      /\ \A c \in Children : pending[c] \in Nat /\ buffered[c] \in Nat
  BY OutputAssumption DEF TypeOK, PipesTypeOK
<1>1. ASSUME NEW t \in Tasks PROVE ~ClientRuns(t)
  BY DEF ClientRuns
<1>2. ASSUME NEW t \in Tasks, OWaitReturns(t)
      PROVE  ToolsRunDown /\ waiting' # waiting
  <2>1. \A c \in Children : child'[c] = "running" => child[c] = "running"
    BY <1>t, <1>2 DEF OWaitReturns, WaitReturns, Waitpid, Reap, NoSuchChild
  <2>2. UNCHANGED <<pending, buffered>> /\ waiting' = NoTask
    BY <1>2 DEF OWaitReturns, WaitReturns
  <2> QED
    BY <1>t, <2>1, <2>2 DEF ToolsRunDown
<1>3. ASSUME NEW c \in Children PROVE ~OCheckTaskStatus(c) /\ ~OInvalidateTimer(c)
  BY DEF OCheckTaskStatus, CheckTaskStatus, OInvalidateTimer, InvalidateTimer
<1>4. ASSUME NEW c \in Children, WriteOutput(c) PROVE ToolsRunDown /\ ToolNearer
  <2>1. /\ child[c] = "running" /\ UNCHANGED child
        /\ pending' = [pending EXCEPT ![c] = @ - 1]
        /\ buffered' = [buffered EXCEPT ![c] = @ + 1]
    BY <1>4 DEF WriteOutput
  <2>2. /\ pending'[c] = pending[c] - 1 /\ buffered'[c] = buffered[c] + 1
        /\ \A d \in Children \ {c} : pending'[d] = pending[d] /\ buffered'[d] = buffered[d]
    BY <2>1 DEF PipesTypeOK
  <2> QED
    BY <1>t, <2>1, <2>2 DEF ToolsRunDown, ToolNearer
<1>5. ASSUME NEW c \in Children, ToolExits(c) PROVE ToolsRunDown /\ ToolNearer
  <2>1. /\ child[c] = "running" /\ child' = [child EXCEPT ![c] = "zombie"]
        /\ UNCHANGED <<pending, buffered>>
    BY <1>5 DEF ToolExits, ChildExits
  <2> QED
    BY <1>t, <2>1 DEF ToolsRunDown, ToolNearer
<1> QED
  BY <1>1, <1>2, <1>3, <1>4, <1>5
  DEF ONext, Launch, LaunchedPrivilegedTask, WaitUntilExit, Release, Read

(* While -waitUntilExit holds the thread no tool is started or read, and   *)
(* every step but the return brings some tool nearer to its end, by what   *)
(* it writes or by its exit: a wait is as long as its tools have to write  *)
(* at most, or is for one that filled its pipe (line 244).                 *)
THEOREM WaitRunsDown ==
  OSpec => [][waiting # NoTask =>
                ToolsRunDown /\ (waiting' = waiting => ToolNearer)]_ovars
<1>1. IInv /\ PipesTypeOK /\ [ONext]_ovars =>
        [waiting # NoTask => ToolsRunDown /\ (waiting' = waiting => ToolNearer)]_ovars
  BY WaitStepsDown DEF IInv
<1> QED
  BY <1>1, OInvariance, PipesTyped, PTL DEF OSpec
=============================================================================
