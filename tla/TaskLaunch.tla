----------------------------- MODULE TaskLaunch -----------------------------
(***************************************************************************)
(* The inside of -launch of STPrivilegedTask, which PrivilegedTask takes   *)
(* for one step: the authorization, the argument strings, the change of    *)
(* the process's working directory around the execution, and what is given *)
(* back on the way out. Directories may go away between any two steps.     *)
(***************************************************************************)
EXTENDS Integers, Sequences

CONSTANTS
  Strings,        \* arguments: UTF-16 units, and bytes of the file system's form
  MaxArguments,   \* bound: arguments of a task
  ShortMax,       \* SHRT_MAX, the largest value of the loops' short i
  Directories,
  HostDirectory,  \* the working directory the host application has chosen
  NoPath,         \* the null pointer
  MaxLaunches     \* bound: calls of -launch

ASSUME LaunchAssumption ==
  /\ Strings \subseteq [units : Nat, bytes : Nat]
  /\ \A s \in Strings : s.units <= s.bytes
  /\ MaxArguments \in Nat
  /\ ShortMax \in Nat
  /\ HostDirectory \in Directories
  /\ NoPath \notin Directories
  /\ MaxLaunches \in Nat

VARIABLES
  pc,          \* where -launch is
  launches,    \* calls of -launch so far
  authRefs,    \* authorization references created and not freed
  denials,     \* history: refusals of AuthorizationCopyRights
  paths,       \* buffers that getcwd has allocated; nobody frees one
  streams,     \* FILEs that came with the tools; nobody closes one
  arguments,   \* ivar of that name
  cwd,         \* ivar of that name
  i,           \* the loop variable
  args,        \* bytes of each C string of the argument array, -1 when unset
  allocated,   \* the strings that malloc returned and nobody freed
  reachable,   \* the directories that can be entered
  directory,   \* the working directory of the process
  prevCwd,     \* what getcwd returned
  unnamed,     \* history: getcwd has failed
  failed,      \* err is not errAuthorizationSuccess after the execution
  tools,       \* tools executed, numbered from 1
  isRunning, outputFileHandle, pid, checkStatusTimer  \* the ivars, by tool

local == <<i, args, allocated, prevCwd, failed>>
leaks == <<authRefs, denials, paths, streams>>
world == <<reachable, directory, unnamed>>
ivars == <<isRunning, outputFileHandle, pid, checkStatusTimer>>
vars == <<pc, launches, leaks, arguments, cwd, local, world, tools, ivars>>

Slots == 0..(MaxArguments - 1)

TypeOK ==
  /\ pc \in {"idle", "copyRights", "build", "getcwd", "chdir", "execute", "restore",
             "free", "finish"}
  /\ launches \in 0..MaxLaunches
  /\ authRefs \in 0..MaxLaunches
  /\ denials \in 0..MaxLaunches
  /\ paths \in 0..MaxLaunches
  /\ streams \in 0..MaxLaunches
  /\ arguments \in Seq(Strings) /\ Len(arguments) <= MaxArguments
  /\ cwd \in Directories
  /\ i \in (-ShortMax - 1)..ShortMax
  /\ args \in [Slots -> Nat \cup {-1}]
  /\ allocated \subseteq Slots
  /\ reachable \subseteq Directories
  /\ directory \in Directories
  /\ prevCwd \in Directories \cup {NoPath}
  /\ unnamed \in BOOLEAN
  /\ failed \in BOOLEAN
  /\ tools \in 0..MaxLaunches
  /\ isRunning \in BOOLEAN
  /\ {outputFileHandle, pid, checkStatusTimer} \subseteq 0..MaxLaunches

(* -init, in the directory the host application is in.                     *)
Init ==
  /\ pc = "idle"
  /\ launches = 0
  /\ authRefs = 0
  /\ denials = 0
  /\ paths = 0
  /\ streams = 0
  /\ arguments = <<>>
  /\ cwd = HostDirectory
  /\ i = 0
  /\ args = [k \in Slots |-> -1]
  /\ allocated = {}
  /\ reachable = Directories
  /\ directory = HostDirectory
  /\ prevCwd = NoPath
  /\ unnamed = FALSE
  /\ failed = FALSE
  /\ tools = 0
  /\ isRunning = FALSE
  /\ outputFileHandle = 0
  /\ pid = 0
  /\ checkStatusTimer = 0
-----------------------------------------------------------------------------
SetArguments ==
  /\ pc = "idle"
  /\ arguments' \in UNION {[1..n -> Strings] : n \in 0..MaxArguments}
  /\ UNCHANGED <<pc, launches, leaks, cwd, local, world, tools, ivars>>

SetCurrentDirectoryPath(d) ==
  /\ pc = "idle"
  /\ cwd' = d
  /\ UNCHANGED <<pc, launches, leaks, arguments, local, world, tools, ivars>>

(* -launch as far as AuthorizationCreate, which may fail: it returns then. *)
Launch ==
  /\ pc = "idle"
  /\ launches < MaxLaunches
  /\ launches' = launches + 1
  /\ \/ pc' = "copyRights" /\ authRefs' = authRefs + 1
     \/ UNCHANGED <<pc, authRefs>>
  /\ i' = 0
  /\ args' = [k \in Slots |-> -1]
  /\ UNCHANGED <<denials, paths, streams, arguments, cwd, allocated, prevCwd, failed, world,
                 tools, ivars>>

(* The user grants the right, or refuses: -launch returns without a free.  *)
CopyRights ==
  /\ pc = "copyRights"
  /\ \/ pc' = "build" /\ UNCHANGED denials
     \/ pc' = "idle" /\ denials' = denials + 1
  /\ UNCHANGED <<launches, authRefs, paths, streams, arguments, cwd, local, world, tools,
                 ivars>>

(* The condition of the loops. It compares as unsigned numbers: a negative *)
(* i is larger than any count.                                             *)
InLoop(n) == 0 <= n /\ n < Len(arguments)

(* i++ of a short.                                                         *)
Incremented(n) == IF n = ShortMax THEN -ShortMax - 1 ELSE n + 1

(* Slip: the buffer is too short for the terminating zero.                 *)
WrittenUnterminated(s) == IF s.units = 0 THEN 0 ELSE s.units - 1

(* What snprintf writes of a string into a buffer of length + 1 bytes.     *)
Written(s) == IF s.bytes <= s.units THEN s.bytes ELSE s.units

BuildArgument ==
  /\ pc = "build"
  /\ InLoop(i)
  /\ args' = [args EXCEPT ![i] = Written(arguments[i + 1])]
  /\ allocated' = allocated \cup {i}
  /\ i' = Incremented(i)
  /\ UNCHANGED <<pc, launches, leaks, arguments, cwd, prevCwd, failed, world, tools, ivars>>

(* Slip: the condition of the loop is i != argumentsCount.                 *)
BuildEndsAtCount ==
  /\ pc = "build"
  /\ i = Len(arguments)
  /\ pc' = "getcwd"
  /\ UNCHANGED <<launches, leaks, arguments, cwd, local, world, tools, ivars>>

BuildEnds ==
  /\ pc = "build"
  /\ ~InLoop(i)
  /\ pc' = "getcwd"
  /\ UNCHANGED <<launches, leaks, arguments, cwd, local, world, tools, ivars>>

(* getcwd(nil, 0) answers in a buffer of its own; NULL for a directory that*)
(* is gone, and perhaps for another one (a parent that cannot be read).    *)
GetCwd ==
  /\ pc = "getcwd"
  /\ pc' = "chdir"
  /\ prevCwd' \in {NoPath} \cup ({directory} \cap reachable)
  /\ unnamed' = (unnamed \/ prevCwd' = NoPath)
  /\ paths' = IF prevCwd' = NoPath THEN paths ELSE paths + 1
  /\ UNCHANGED <<launches, authRefs, denials, streams, arguments, cwd, i, args, allocated,
                 failed, reachable, directory, tools, ivars>>

(* chdir, whose result nobody looks at; chdir(NULL) fails.                 *)
ChDir(path) == directory' = IF path \in reachable THEN path ELSE directory

ChangeDirectory ==
  /\ pc = "chdir"
  /\ pc' = "execute"
  /\ ChDir(cwd)
  /\ UNCHANGED <<launches, leaks, arguments, cwd, local, reachable, unnamed, tools, ivars>>

(* Slip: an execution that fails returns at once.                          *)
ExecuteReturning ==
  /\ pc = "execute"
  /\ \/ tools' = tools + 1 /\ streams' = streams + 1 /\ failed' = FALSE /\ pc' = "restore"
     \/ failed' = TRUE /\ pc' = "idle" /\ UNCHANGED <<tools, streams>>
  /\ UNCHANGED <<launches, authRefs, denials, paths, arguments, cwd, i, args, allocated,
                 prevCwd, world, ivars>>

(* AuthorizationExecuteWithPrivileges forks the tool and opens a FILE on   *)
(* its pipe, of which only the descriptor is ever closed; or it fails.     *)
Execute ==
  /\ pc = "execute"
  /\ pc' = "restore"
  /\ \/ tools' = tools + 1 /\ streams' = streams + 1 /\ failed' = FALSE
     \/ failed' = TRUE /\ UNCHANGED <<tools, streams>>
  /\ UNCHANGED <<launches, authRefs, denials, paths, arguments, cwd, i, args, allocated,
                 prevCwd, world, ivars>>

Restore ==
  /\ pc = "restore"
  /\ pc' = "free"
  /\ ChDir(prevCwd)
  /\ UNCHANGED <<launches, leaks, arguments, cwd, local, reachable, unnamed, tools, ivars>>

(* Slip: the second loop ends too early.                                   *)
LoopedButLast == {k \in Slots : k < Len(arguments) - 1 /\ k <= ShortMax}

(* The second loop runs over the same numbers as the first.                *)
Looped == {k \in Slots : k < Len(arguments) /\ k <= ShortMax}

Free ==
  /\ pc = "free"
  /\ pc' = "finish"
  /\ allocated' = allocated \ Looped
  /\ authRefs' = authRefs - 1
  /\ UNCHANGED <<launches, denials, paths, streams, arguments, cwd, i, args, prevCwd, failed,
                 world, tools, ivars>>

(* Slip: the timer of a later launch is not kept.                          *)
FinishKeepingTimer ==
  /\ pc = "finish"
  /\ pc' = "idle"
  /\ IF failed
     THEN UNCHANGED ivars
     ELSE /\ isRunning' = TRUE
          /\ outputFileHandle' = tools
          /\ pid' = tools
          /\ checkStatusTimer' = IF isRunning THEN checkStatusTimer ELSE tools
  /\ UNCHANGED <<launches, leaks, arguments, cwd, local, world, tools>>

(* -launch returns the error, or tells what it launched.                   *)
Finish ==
  /\ pc = "finish"
  /\ pc' = "idle"
  /\ IF failed
     THEN UNCHANGED ivars
     ELSE /\ isRunning' = TRUE
          /\ outputFileHandle' = tools
          /\ pid' = tools
          /\ checkStatusTimer' = tools
  /\ UNCHANGED <<launches, leaks, arguments, cwd, local, world, tools>>

(* Some process removes a directory, or bars it.                           *)
DirectoryGoes(d) ==
  /\ reachable' = reachable \ {d}
  /\ UNCHANGED <<pc, launches, leaks, arguments, cwd, local, directory, unnamed, tools, ivars>>
-----------------------------------------------------------------------------
(* What the thread does once the user has answered.                        *)
RunsOn == \/ BuildArgument \/ BuildEnds \/ GetCwd \/ ChangeDirectory
          \/ Execute \/ Restore \/ Free \/ Finish

Next ==
  \/ SetArguments
  \/ Launch
  \/ CopyRights
  \/ BuildArgument \/ BuildEnds
  \/ GetCwd \/ ChangeDirectory \/ Execute \/ Restore
  \/ Free \/ Finish
  \/ \E d \in Directories : SetCurrentDirectoryPath(d) \/ DirectoryGoes(d)

(* The user may leave the authorization dialog open for ever.              *)
Spec == Init /\ [][Next]_vars /\ WF_vars(RunsOn)
-----------------------------------------------------------------------------
(* The process is in another directory than the host's only around the     *)
(* execution, unless the host's was gone or had no name: then line 207     *)
(* leaves it in the task's for good (lines 200-207).                       *)
DirectoryBorrowed ==
  directory # HostDirectory =>
    pc \in {"execute", "restore"} \/ unnamed \/ HostDirectory \notin reachable

(* Every tool is started in the directory of its task, unless that is gone *)
(* (lines 201, 204).                                                       *)
StartedInItsDirectory ==
  [][tools' # tools => directory = cwd \/ cwd \notin reachable]_vars

(* A tool gets its arguments whole when they are ASCII and no more than a  *)
(* short can count, and cut but never past its buffer otherwise (189-196). *)
ArgumentsArrive ==
  [][tools' # tools /\ Len(arguments) <= ShortMax + 1 =>
       \A k \in 1..Len(arguments) :
         LET s == arguments[k] IN
         /\ s.bytes = s.units => args[k - 1] = s.bytes
         /\ args[k - 1] \in 0..s.units]_vars

StartedAsAsked == StartedInItsDirectory /\ ArgumentsArrive

(* What calls of -launch leave behind, whichever way they end: no string,  *)
(* a reference for each refusal of the user, the buffer of getcwd at most  *)
(* once for each call that was not refused, and the FILE of each tool the  *)
(* ivars have named (lines 183, 200, 204, 210-214, 223).                   *)
LeaksAreKnown ==
  pc = "idle" =>
    /\ allocated = {}
    /\ authRefs = denials
    /\ denials + paths <= launches
    /\ streams = pid

(* When -launch has returned the ivars speak of the last tool there is:    *)
(* none is forked and forgotten, none is invented (lines 217-227).         *)
IvarsNameLastTool ==
  pc = "idle" =>
    /\ pid = tools /\ outputFileHandle = tools /\ checkStatusTimer = tools
    /\ isRunning <=> tools > 0

(* The task of PrivilegedTask, whose tools run on and whose timers poll on *)
(* as long as nothing but -launch is called.                               *)
Launched(c) == c <= pid

Task == INSTANCE PrivilegedTask WITH
  Tasks <- {"task"}, NoTask <- "none",
  Children <- 1..MaxLaunches, NoChild <- 0,
  Statuses <- {0}, MaxPosts <- 2,
  WaitUnlaunched <- FALSE, RelaunchEarly <- TRUE,
  isRunning <- [t \in {"task"} |-> isRunning],
  pid <- [t \in {"task"} |-> pid],
  terminationStatus <- [t \in {"task"} |-> 0],
  held <- [t \in {"task"} |-> TRUE],
  child <- [c \in 1..MaxLaunches |-> IF Launched(c) THEN "running" ELSE "unused"],
  status <- [c \in 1..MaxLaunches |-> 0],
  target <- [c \in 1..MaxLaunches |-> IF Launched(c) THEN "task" ELSE "none"],
  timer <- [c \in 1..MaxLaunches |-> IF c <= checkStatusTimer THEN "valid" ELSE "none"],
  posts <- [c \in 1..MaxLaunches |-> 0],
  handler <- 0, waiting <- "none", crashed <- FALSE

(* Everything -launch does comes to the one step that PrivilegedTask takes *)
(* for it, or to none when anything fails: one fork for one set of ivars,  *)
(* however often it is called (lines 156-230).                             *)
LaunchIsOneStep == Task!Init /\ [][Task!Next]_(Task!vars)

(* Once the user has answered, -launch returns, however many arguments     *)
(* there are for a short to count (lines 189-211).                         *)
LaunchReturns == pc = "build" ~> pc = "idle"
=============================================================================
