----------------------------- MODULE TaskOutput -----------------------------
(***************************************************************************)
(* PrivilegedTask with the pipe of AuthorizationExecuteWithPrivileges: what*)
(* a tool writes has to fit in the pipe until the client reads it through  *)
(* -outputFileHandle, a tool that finds the pipe full waits, and the read  *)
(* end is closed when the task that owns the file handle is deallocated.   *)
(***************************************************************************)
EXTENDS PrivilegedTask

CONSTANTS
  PipeSize,   \* bound: how much the pipe of a tool holds
  MaxOutput   \* bound: how much a tool writes before it ends

ASSUME OutputAssumption ==
  /\ PipeSize \in Nat \ {0}
  /\ MaxOutput \in Nat

VARIABLES
  pending,    \* what each tool has yet to write
  buffered,   \* what it wrote and nobody has read
  readEnd     \* the descriptor of the program's end of its pipe

pipes == <<pending, buffered, readEnd>>
ovars == <<vars, pipes>>

PipesTypeOK ==
  /\ pending \in [Children -> 0..MaxOutput]
  /\ buffered \in [Children -> 0..PipeSize]
  /\ readEnd \in [Children -> {"none", "open", "closed"}]

OTypeOK == TypeOK /\ PipesTypeOK

OInit ==
  /\ Init
  /\ pending = [c \in Children |-> 0]
  /\ buffered = [c \in Children |-> 0]
  /\ readEnd = [c \in Children |-> "none"]
-----------------------------------------------------------------------------
(* The tool a launch has just forked, if it forked one.                    *)
Forked == {c \in Children : child[c] = "unused" /\ child'[c] = "running"}

(* outputFileHandle is replaced by a handle on the new pipe; nothing is    *)
(* released, so the descriptor of an earlier launch stays open for good.   *)
PipeOpens ==
  /\ \E n \in 0..MaxOutput :
       pending' = [c \in Children |-> IF c \in Forked THEN n ELSE pending[c]]
  /\ readEnd' = [c \in Children |-> IF c \in Forked THEN "open" ELSE readEnd[c]]
  /\ UNCHANGED buffered

(* The task whose outputFileHandle reads from the pipe of c.               *)
Owners(c) == {t \in Tasks : pid[t] = c}

(* Slips: the handle goes with the client's reference; closeOnDealloc: NO. *)
HandlesCloseOnRelease ==
  /\ readEnd' = [c \in Children |->
                   IF \E t \in Owners(c) : ~held'[t] THEN "closed" ELSE readEnd[c]]
  /\ UNCHANGED <<pending, buffered>>

HandlesStay == UNCHANGED pipes

(* A step that may take the last reference of a task: -dealloc releases the*)
(* file handle, which closes its descriptor.                               *)
HandlesClose ==
  /\ readEnd' = [c \in Children |->
                   IF \E t \in Owners(c) : Deallocated(t)' THEN "closed" ELSE readEnd[c]]
  /\ UNCHANGED <<pending, buffered>>

(* The client takes from -outputFileHandle what there is.                  *)
Read(t) ==
  /\ ClientRuns(t)
  /\ \E c \in Children :
       /\ pid[t] = c
       /\ buffered[c] > 0
       /\ buffered' = [buffered EXCEPT ![c] = 0]
  /\ UNCHANGED <<vars, pending, readEnd>>

(* The tool writes, as far as its pipe has room.                           *)
WriteOutput(c) ==
  /\ child[c] = "running" /\ ~crashed
  /\ pending[c] > 0
  /\ buffered[c] < PipeSize
  /\ pending' = [pending EXCEPT ![c] = @ - 1]
  /\ buffered' = [buffered EXCEPT ![c] = @ + 1]
  /\ UNCHANGED <<vars, readEnd>>

(* The tool ends when it has written everything, or on SIGPIPE.            *)
ToolExits(c) ==
  /\ pending[c] = 0 \/ readEnd[c] = "closed"
  /\ ChildExits(c)
  /\ UNCHANGED pipes

OWaitReturns(t) == WaitReturns(t) /\ UNCHANGED pipes
OCheckTaskStatus(c) == CheckTaskStatus(c) /\ UNCHANGED pipes
OInvalidateTimer(c) == InvalidateTimer(c) /\ HandlesClose
-----------------------------------------------------------------------------
ONext ==
  \/ \E t \in Tasks : \/ Launch(t) /\ PipeOpens
                      \/ LaunchedPrivilegedTask(t) /\ PipeOpens
                      \/ WaitUntilExit(t) /\ UNCHANGED pipes
                      \/ OWaitReturns(t)
                      \/ Release(t) /\ HandlesClose
                      \/ Read(t)
  \/ \E c \in Children : \/ OCheckTaskStatus(c)
                         \/ OInvalidateTimer(c)
                         \/ WriteOutput(c)
                         \/ ToolExits(c)

(* As in PrivilegedTask, but a tool ends only when it can: it writes on    *)
(* while there is room. No client has to read.                             *)
OFairness ==
  /\ \A t \in Tasks : WF_ovars(OWaitReturns(t))
  /\ \A c \in Children : /\ SF_ovars(OCheckTaskStatus(c))
                         /\ SF_ovars(OInvalidateTimer(c))
                         /\ WF_ovars(WriteOutput(c))
                         /\ WF_ovars(ToolExits(c))

OSpec == OInit /\ [][ONext]_ovars /\ OFairness
-----------------------------------------------------------------------------
(* A tool that cannot go on before somebody reads what it wrote.           *)
Stuck(c) == child[c] = "running" /\ pending[c] > 0 /\ buffered[c] = PipeSize

SomeStuck == \E c \in Children : Stuck(c)

(* The end of the pipe a running tool writes to is open, whoever let go of *)
(* the task and however often it was launched: no tool is killed by        *)
(* SIGPIPE (lines 55, 223, 227: the timer retains a running task).         *)
NoBrokenPipe == \A c \in Children : child[c] = "running" => readEnd[c] = "open"

(* A descriptor is closed when the task that reads from it is deallocated, *)
(* and only then: the one of a launch that another followed, whose handle  *)
(* was overwritten, stays open for good (lines 49-59, 223).                *)
DescriptorsKnown ==
  \A c \in Children :
    readEnd[c] = IF target[c] = NoTask THEN "none"
                 ELSE IF pid[target[c]] = c /\ Deallocated(target[c]) THEN "closed"
                 ELSE "open"

(* The one thing that keeps -waitUntilExit for ever is a tool that filled  *)
(* its pipe: nobody can read while waitpid blocks the thread (line 244).   *)
WaitEnds == \A t \in Tasks : waiting = t ~> waiting # t \/ SomeStuck

(* ... and that is for good: no step of the program, of the run loop or of *)
(* another tool ends such a wait, as the full pipe stays open (244, 254).  *)
StuckForGood ==
  [][\A t \in Tasks : waiting = t /\ pid[t] # NoChild /\ Stuck(pid[t])
       => waiting' = t /\ Stuck(pid[t])']_ovars

(* A task launched once gives its descriptor back when its client has let  *)
(* go of it; a second launch leaks the first one (lines 55, 223).          *)
LaunchedOnce(t) == Cardinality({c \in Children : target[c] = t}) <= 1

DescriptorsReturned ==
  \A t \in Tasks :
    ~held[t] ~> \/ \A c \in Children : target[c] = t => readEnd[c] = "closed"
                \/ ~LaunchedOnce(t) \/ SomeStuck \/ crashed
=============================================================================
