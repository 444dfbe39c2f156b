---------------------------- MODULE WWANConnect ----------------------------
(***************************************************************************)
(* Forcing the cellular connection: -forceWWAN and -shutdownWWAN of        *)
(* UIDevice-Reachability.m over StartWWAN and StopWWAN of wwanconnect.c.   *)
(*                                                                         *)
(* StartWWAN opens a socket stream and then runs the thread's run loop     *)
(* itself (CFRunLoopRun) until the stream's callback stops it. The callback*)
(* stops the innermost activation of the run loop, whose ever that is, and *)
(* inside it the application goes on: its handlers may call -forceWWAN or  *)
(* -shutdownWWAN again.                                                    *)
(***************************************************************************)
EXTENDS Naturals, Sequences

CONSTANTS
  Infos,          \* the addresses malloc has for MyStreamInfo blocks
  NoInfo,         \* the null pointer
  MaxNested       \* bound: calls of StartWWAN inside one another

ASSUME WWANAssumption == NoInfo \notin Infos /\ MaxNested \in Nat

VARIABLES
  memory,         \* the allocator's view of each block
  isConnected,    \* field of each block
  errorOccurred,  \* field of each block
  isClientSet,    \* field of each block: the callback is registered
  stream,         \* state of the socket stream behind each block
  value,          \* the local of -forceWWAN exists that each block's refCon points to
  frames,         \* the CFRunLoopRun calls in progress, innermost last
  myInfoPtr,      \* the global of UIDevice-Reachability.m
  outerStopped,   \* the application's own run loop was stopped
  deadRefCon,     \* the client callback read a variable of a finished call
  listLeft,       \* TestGetIFAddrs has left a list of getifaddrs allocated
  crashed,        \* CFRelease(NULL), a null address, or a block used after free
  shut,           \* history: the global was shut down after its last assignment
  shutTwice,      \* history: the client has shut down a global that was shut
  misled,         \* history: -forceWWAN said YES without a connection
  careless        \* history: the client has called from inside a call, forced a
                  \* connection while it held one, or shut one down twice

fields == <<memory, isConnected, errorOccurred, isClientSet, stream, value>>
loops == <<frames, outerStopped>>
past == <<shut, shutTwice, misled>>
vars == <<fields, loops, myInfoPtr, deadRefCon, listLeft, crashed, past, careless>>

Frame == [info : Infos, stopped : BOOLEAN]

TypeOK ==
  /\ memory \in [Infos -> {"free", "live"}]
  /\ isConnected \in [Infos -> BOOLEAN]
  /\ errorOccurred \in [Infos -> BOOLEAN]
  /\ isClientSet \in [Infos -> BOOLEAN]
  /\ stream \in [Infos -> {"none", "opening", "open", "ended", "closed"}]
  /\ value \in [Infos -> BOOLEAN]
  /\ frames \in Seq(Frame)
  /\ myInfoPtr \in Infos \cup {NoInfo}
  /\ outerStopped \in BOOLEAN
  /\ deadRefCon \in BOOLEAN
  /\ listLeft \in BOOLEAN
  /\ crashed \in BOOLEAN
  /\ shut \in BOOLEAN
  /\ shutTwice \in BOOLEAN
  /\ misled \in BOOLEAN
  /\ careless \in BOOLEAN

Init ==
  /\ memory = [i \in Infos |-> "free"]
  /\ isConnected = [i \in Infos |-> FALSE]
  /\ errorOccurred = [i \in Infos |-> FALSE]
  /\ isClientSet = [i \in Infos |-> FALSE]
  /\ stream = [i \in Infos |-> "none"]
  /\ value = [i \in Infos |-> FALSE]
  /\ frames = <<>>
  /\ myInfoPtr = NoInfo
  /\ outerStopped = FALSE
  /\ deadRefCon = FALSE
  /\ listLeft = FALSE
  /\ crashed = FALSE
  /\ shut = FALSE
  /\ shutTwice = FALSE
  /\ misled = FALSE
  /\ careless = FALSE
-----------------------------------------------------------------------------
Last == frames[Len(frames)]

(* The blocks whose StartWWAN has not returned.                            *)
InProgress == {frames[k].info : k \in DOMAIN frames}

(* What the client may take for a connection of its own.                  *)
Held == myInfoPtr # NoInfo /\ ~shut

(* The client forces a connection, or shuts one down, carefully or not.    *)
Forces == ~crashed /\ careless' = (careless \/ frames # <<>> \/ Held)
ShutsDown == ~crashed /\ careless' = (careless \/ frames # <<>> \/ ~Held)

(* Slip: the callback stays registered.                                    *)
ClosingStillSet(i) ==
  /\ isConnected' = [isConnected EXCEPT ![i] = FALSE]
  /\ stream' = [stream EXCEPT ![i] = "closed"]
  /\ UNCHANGED isClientSet

(* CleanupAfterWAAN: the callback is unregistered, if it was registered,   *)
(* and CloseStreams: both streams are closed and their references nulled.  *)
Closing(i) ==
  /\ isConnected' = [isConnected EXCEPT ![i] = FALSE]
  /\ isClientSet' = [isClientSet EXCEPT ![i] = FALSE]
  /\ stream' = [stream EXCEPT ![i] = "closed"]

(* malloc may return any free block, one the global still names included;  *)
(* memset clears it, and refCon is set to the caller's local.              *)
Allocate(i) ==
  /\ memory[i] = "free"
  /\ memory' = [memory EXCEPT ![i] = "live"]
  /\ isConnected' = [isConnected EXCEPT ![i] = FALSE]
  /\ errorOccurred' = [errorOccurred EXCEPT ![i] = FALSE]
  /\ value' = [value EXCEPT ![i] = TRUE]

(* Slips: the call publishes its own block before it waits; it does not    *)
(* wait.                                                                   *)
ForceWWANPublishing(i) ==
  /\ Forces
  /\ Len(frames) < MaxNested
  /\ Allocate(i)
  /\ isClientSet' = [isClientSet EXCEPT ![i] = TRUE]
  /\ stream' = [stream EXCEPT ![i] = "opening"]
  /\ frames' = Append(frames, [info |-> i, stopped |-> FALSE])
  /\ myInfoPtr' = i
  /\ shut' = FALSE
  /\ UNCHANGED <<outerStopped, deadRefCon, listLeft, crashed, shutTwice, misled>>

ForceWWANUnwaited(i) ==
  /\ Forces
  /\ Len(frames) < MaxNested
  /\ Allocate(i)
  /\ isClientSet' = [isClientSet EXCEPT ![i] = TRUE]
  /\ stream' = [stream EXCEPT ![i] = "opening"]
  /\ frames' = Append(frames, [info |-> i, stopped |-> TRUE])
  /\ UNCHANGED <<myInfoPtr, outerStopped, deadRefCon, listLeft, crashed, past>>

(* -forceWWAN, StartWWAN as far as CFRunLoopRun.                           *)
ForceWWAN(i) ==
  /\ Forces
  /\ Len(frames) < MaxNested
  /\ Allocate(i)
  /\ isClientSet' = [isClientSet EXCEPT ![i] = TRUE]
  /\ stream' = [stream EXCEPT ![i] = "opening"]
  /\ frames' = Append(frames, [info |-> i, stopped |-> FALSE])
  /\ UNCHANGED <<myInfoPtr, outerStopped, deadRefCon, listLeft, crashed, past>>

(* malloc fails: StartWWAN returns NULL. It overwrites the global, and with*)
(* it the connection that may be held.                                     *)
ForceOutOfMemory ==
  /\ Forces
  /\ myInfoPtr' = NoInfo
  /\ shut' = FALSE
  /\ UNCHANGED <<fields, loops, deadRefCon, listLeft, crashed, shutTwice, misled>>

(* CFWriteStreamSetClient or CFWriteStreamOpen fails, or the stream        *)
(* reported an error: the streams are closed and their references nulled,  *)
(* and then CFRelease is called on the null references.                    *)
ForceFailsAtOnce(i) ==
  /\ Forces
  /\ Allocate(i)
  /\ stream' = [stream EXCEPT ![i] = "closed"]
  /\ crashed' = TRUE
  /\ UNCHANGED <<isClientSet, loops, myInfoPtr, deadRefCon, listLeft, past>>

(* CFRunLoopStop(CFRunLoopGetCurrent()): the innermost activation ends     *)
(* after this pass, be it the application's own.                           *)
StopInnermostLoop ==
  IF frames = <<>>
  THEN outerStopped' = TRUE /\ UNCHANGED frames
  ELSE /\ frames' = [frames EXCEPT ![Len(frames)].stopped = TRUE]
       /\ UNCHANGED outerStopped

(* TestGetIFAddrs: the walk over the interfaces, which may meet one without*)
(* an address, or a list that getifaddrs never set, and which returns from *)
(* inside the loop, past freeifaddrs, when it finds an IPv4 address.       *)
WalkCrashes == crashed' = TRUE /\ UNCHANGED listLeft
WalkReturns == listLeft' \in {listLeft, TRUE} /\ UNCHANGED crashed

(* Slip: the loop is not stopped.                                          *)
OpenCompletedRunningOn(i) ==
  /\ ~crashed
  /\ isClientSet[i] /\ stream[i] = "opening"
  /\ stream' = [stream EXCEPT ![i] = "open"]
  /\ isConnected' = [isConnected EXCEPT ![i] = TRUE]
  /\ \/ WalkCrashes /\ UNCHANGED deadRefCon
     \/ WalkReturns /\ deadRefCon' = (deadRefCon \/ ~value[i])
  /\ UNCHANGED <<memory, errorOccurred, isClientSet, value, loops, myInfoPtr, past, careless>>

(* MyCFWriteStreamClientCallBack with kCFStreamEventOpenCompleted. It calls*)
(* TestGetIFAddrs, and myClientCallback, which reads a local variable of   *)
(* the -forceWWAN that allocated the block, and stops the loop.            *)
OpenCompleted(i) ==
  /\ ~crashed
  /\ isClientSet[i] /\ stream[i] = "opening"
  /\ stream' = [stream EXCEPT ![i] = "open"]
  /\ isConnected' = [isConnected EXCEPT ![i] = TRUE]
  /\ \/ WalkCrashes /\ UNCHANGED <<deadRefCon, loops>>
     \/ WalkReturns /\ deadRefCon' = (deadRefCon \/ ~value[i]) /\ StopInnermostLoop
  /\ UNCHANGED <<memory, errorOccurred, isClientSet, value, myInfoPtr, past, careless>>

(* ... with kCFStreamEventErrorOccurred, before the connection or after.   *)
ErrorOccurred(i) ==
  /\ ~crashed
  /\ isClientSet[i] /\ stream[i] \in {"opening", "open"}
  /\ stream' = [stream EXCEPT ![i] = "ended"]
  /\ errorOccurred' = [errorOccurred EXCEPT ![i] = TRUE]
  /\ StopInnermostLoop
  /\ UNCHANGED <<memory, isConnected, isClientSet, value, myInfoPtr, deadRefCon, listLeft,
                 crashed, past, careless>>

(* ... with kCFStreamEventEndEncountered: the peer closed.                 *)
EndEncountered(i) ==
  /\ ~crashed
  /\ isClientSet[i] /\ stream[i] = "open"
  /\ stream' = [stream EXCEPT ![i] = "ended"]
  /\ StopInnermostLoop
  /\ UNCHANGED <<memory, isConnected, errorOccurred, isClientSet, value, myInfoPtr,
                 deadRefCon, listLeft, crashed, past, careless>>

(* Past CFRunLoopRun, StartWWAN returns, and -forceWWAN, whose local is    *)
(* gone then; or it finds an error and crashes as in ForceFailsAtOnce.     *)
Return(i) ==
  /\ frames' = SubSeq(frames, 1, Len(frames) - 1)
  /\ value' = [value EXCEPT ![i] = FALSE]
  /\ shut' = FALSE
  /\ UNCHANGED <<memory, isConnected, errorOccurred, isClientSet, stream, crashed, shutTwice>>

ReturnBlock(i) == Return(i) /\ myInfoPtr' = i /\ misled' = (misled \/ ~isConnected[i])
ReturnNull(i) == Return(i) /\ myInfoPtr' = NoInfo /\ UNCHANGED misled

CrashClosing(i) ==
  /\ crashed' = TRUE
  /\ Closing(i)
  /\ UNCHANGED <<memory, errorOccurred, value, frames, myInfoPtr, past>>

(* CFRunLoopRun returns. A block that was freed meanwhile may say anything:*)
(* of an error, with its streams to close again or without, or of none.    *)
StartReturns ==
  /\ ~crashed
  /\ frames # <<>> /\ Last.stopped
  /\ LET i == Last.info IN
     \/ memory[i] = "live" /\ ~errorOccurred[i] /\ ReturnBlock(i)
     \/ memory[i] = "live" /\ errorOccurred[i] /\ CrashClosing(i)
     \/ memory[i] = "free" /\ (ReturnBlock(i) \/ ReturnNull(i) \/ CrashClosing(i))
  /\ UNCHANGED <<outerStopped, deadRefCon, listLeft, careless>>

(* -shutdownWWAN, StopWWAN. The global keeps its value: a second call uses *)
(* a freed block, and crashes or happens to do nothing, or whatever block  *)
(* malloc has meanwhile returned at that address.                          *)
ShutdownWWAN ==
  /\ ShutsDown
  /\ myInfoPtr # NoInfo
  /\ \/ /\ memory[myInfoPtr] = "live"
        /\ Closing(myInfoPtr)
        /\ memory' = [memory EXCEPT ![myInfoPtr] = "free"]
        /\ UNCHANGED <<errorOccurred, value, crashed>>
     \/ memory[myInfoPtr] = "free" /\ crashed' \in BOOLEAN /\ UNCHANGED fields
  /\ shut' = TRUE
  /\ shutTwice' = (shutTwice \/ shut)
  /\ UNCHANGED <<loops, myInfoPtr, deadRefCon, listLeft, misled>>
-----------------------------------------------------------------------------
Next ==
  \/ \E i \in Infos : \/ ForceWWAN(i)
                      \/ ForceFailsAtOnce(i)
                      \/ OpenCompleted(i)
                      \/ ErrorOccurred(i)
                      \/ EndEncountered(i)
  \/ ForceOutOfMemory
  \/ StartReturns
  \/ ShutdownWWAN

(* An open succeeds or fails in the end (TCP gives up), and a stopped run  *)
(* loop returns. The client and the peer promise nothing.                  *)
OpenEnds(i) == OpenCompleted(i) \/ (stream[i] = "opening" /\ ErrorOccurred(i))

OpenFairness(i) == WF_vars(OpenEnds(i))
ReturnFairness == WF_vars(StartReturns)

Fairness == ReturnFairness /\ \A i \in Infos : OpenFairness(i)

Spec == Init /\ [][Next]_vars /\ Fairness
-----------------------------------------------------------------------------
(* A registered callback always points to a block that is not freed,       *)
(* whatever the client calls in whichever order: StopWWAN unregisters      *)
(* before it frees (wwanconnect.c lines 216-252).                          *)
CallbacksAreLive == \A i \in Infos : isClientSet[i] => memory[i] = "live"

(* No -shutdownWWAN frees the block of a StartWWAN that is still running   *)
(* its loop, not even one called from inside that loop, and no block works *)
(* for two calls: what the global names is of a finished call, or already  *)
(* shut down. It takes a client that shuts down twice to break this: malloc*)
(* may have handed the block out again that the global still names         *)
(* (UIDevice-Reachability.m lines 316-327, wwanconnect.c line 120).        *)
StartKeepsBlock ==
  ~shutTwice =>
    /\ \A i \in InProgress : memory[i] = "live"
    /\ \A j, k \in DOMAIN frames : frames[j].info = frames[k].info => j = k

(* The field may be stale, but it is never TRUE of a stream that did not   *)
(* open or that StopWWAN closed (wwanconnect.c lines 87, 199-202, 248).    *)
ConnectedWasOpened == \A i \in Infos : isConnected[i] => stream[i] \in {"open", "ended"}

(* A careful client -- one connection at a time, no call from inside a     *)
(* call -- is told the truth: "if the WWAN connection is successful, a     *)
(* MyInfoRef value is returned" (wwanconnect.h).                           *)
ResultMeansConnected == ~careless => ~misled

(* For a careful client no connection is lost: every live block is in      *)
(* progress or named by the global (UIDevice-Reachability.m line 319).     *)
NothingLost ==
  ~careless /\ ~crashed =>
    \A i \in Infos : memory[i] = "live" => i \in InProgress \/ i = myInfoPtr

(* For a careful client the callback never reads a finished stack frame    *)
(* (UIDevice-Reachability.m lines 310-321).                                *)
RefConInScope == ~careless => ~deadRefCon

(* For a careful client the open of a stream stops the loop that waits for *)
(* it, and the application's own loop is stopped only by the end or the    *)
(* error of a connection already made (wwanconnect.c line 107).            *)
OuterLoopSafe ==
  [][outerStopped' # outerStopped /\ ~careless =>
       \E i \in Infos : stream[i] = "open" /\ stream'[i] = "ended"]_vars

(* While -forceWWAN holds a careful client, either the open it waits for   *)
(* can still end, or the loop was stopped and it can return: no stop goes  *)
(* astray, and no end of an open is lost (wwanconnect.c lines 107, 192).   *)
ForcingGoesOn ==
  ~careless /\ ~crashed /\ frames # <<>> =>
    \/ Last.stopped /\ ENABLED <<StartReturns>>_vars
    \/ ~Last.stopped /\ \A i \in Infos : i = Last.info => ENABLED <<OpenEnds(i)>>_vars

(* "A NULL result indicates that the connection was unsuccessful"          *)
(* (wwanconnect.h): an unsuccessful StartWWAN comes back at all. The crash *)
(* that a completed open may meet in TestGetIFAddrs is not its.            *)
UnsuccessfulReturns == ~careless /\ crashed => \E i \in Infos : isConnected[i]
-----------------------------------------------------------------------------
(* The one connection of a careful client; "lost" is what the promise      *)
(* does not know: an unconnected result, or a block nobody names.          *)
Connection ==
  IF frames # <<>> THEN "forcing"
  ELSE IF \A i \in Infos : memory[i] # "live" THEN "idle"
  ELSE IF Held /\ isConnected[myInfoPtr] THEN "held"
  ELSE "lost"

Promise == INSTANCE WWANPromise WITH
  connection <- Connection,
  void <- careless \/ crashed

(* -forceWWAN and -shutdownWWAN keep the promise of wwanconnect.h to a     *)
(* careful client, until the program crashes.                              *)
KeepsConnection == Promise!Spec
=============================================================================
