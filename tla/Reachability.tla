---------------------------- MODULE Reachability ----------------------------
(***************************************************************************)
(* The reachability half of UIDevice-Reachability.m: one lazily created    *)
(* SCNetworkReachability object in the global "reachability", the flags    *)
(* last retrieved from it, and the watchers that are told of changes.      *)
(*                                                                         *)
(* The object can have one callback, with a watcher it does not retain,    *)
(* but any number of watchers may ask for it, and each of them may stop    *)
(* the watch of all. While it is scheduled the run loop retains the object *)
(* too; retains counts the references of this file only.                   *)
(***************************************************************************)
EXTENDS Naturals, FiniteSets

CONSTANTS
  Refs,         \* the SCNetworkReachability objects created in a run (a bound)
  Watchers,     \* the objects that conform to ReachabilityWatcher
  NoRef, NoWatcher,
  MaxScheduled  \* bound: an object is scheduled up to so many times

ASSUME ReachabilityAssumption ==
  /\ NoRef \notin Refs
  /\ NoWatcher \notin Watchers
  /\ MaxScheduled \in Nat \ {0}

VARIABLES
  network,          \* the flags the system would answer
  connectionFlags,  \* the global of that name
  reachability,     \* the global of that name
  retains,          \* references this file holds to each object
  unused,           \* objects not yet created
  callback,         \* the watcher in the context of each object's callback
  scheduled,        \* how often each object is scheduled with the run loop
  due,              \* objects whose run loop source is signalled
  alive,            \* watchers that are not deallocated
  watching,         \* watchers that were answered YES and have not stopped
  owed,             \* watchers not yet told of a change of the network
  crashed,          \* CFRelease(NULL), or a message to a deallocated watcher
  overlapped,       \* history: a watcher has started while another one watched
  wasAvailable      \* history: the network has been available

object == <<reachability, retains, unused>>
history == <<overlapped, wasAvailable>>
vars == <<network, connectionFlags, object, callback, scheduled, due, alive, watching,
          owed, crashed, history>>

Flags == {"Reachable", "ConnectionRequired", "IsWWAN"}

(* What -networkAvailable makes of the flags.                              *)
Available(flags) == "Reachable" \in flags /\ "ConnectionRequired" \notin flags

TypeOK ==
  /\ network \subseteq Flags
  /\ connectionFlags \subseteq Flags
  /\ reachability \in Refs \cup {NoRef}
  /\ retains \in [Refs -> 0..2]
  /\ unused \subseteq Refs
  /\ callback \in [Refs -> Watchers \cup {NoWatcher}]
  /\ scheduled \in [Refs -> 0..MaxScheduled]
  /\ due \subseteq Refs
  /\ alive \subseteq Watchers
  /\ watching \subseteq Watchers
  /\ owed \subseteq Watchers
  /\ crashed \in BOOLEAN
  /\ overlapped \in BOOLEAN
  /\ wasAvailable \in BOOLEAN

Init ==
  /\ network \in SUBSET Flags
  /\ connectionFlags = {}
  /\ reachability = NoRef
  /\ retains = [r \in Refs |-> 0]
  /\ unused = Refs
  /\ callback = [r \in Refs |-> NoWatcher]
  /\ scheduled = [r \in Refs |-> 0]
  /\ due = {}
  /\ alive = Watchers
  /\ watching = {}
  /\ owed = {}
  /\ crashed = FALSE
  /\ overlapped = FALSE
  /\ wasAvailable = Available(network)
-----------------------------------------------------------------------------
(* Slip: the flags are retrieved into a local nobody initialised.          *)
PingIntoLocal ==
  /\ IF reachability = NoRef
     THEN \E r \in unused : /\ reachability' = r
                            /\ retains' = [retains EXCEPT ![r] = 2]
                            /\ unused' = unused \ {r}
     ELSE UNCHANGED object
  /\ connectionFlags' \in {network} \cup SUBSET Flags

(* -pingReachabilityInternal: the object is created when there is none,    *)
(* with one reference from Create and one from CFRetain. When the flags    *)
(* cannot be retrieved the old ones stay, and callers go on with them.     *)
Ping ==
  /\ IF reachability = NoRef
     THEN \E r \in unused : /\ reachability' = r
                            /\ retains' = [retains EXCEPT ![r] = 2]
                            /\ unused' = unused \ {r}
     ELSE UNCHANGED object
  /\ connectionFlags' \in {network, connectionFlags}

(* -networkAvailable, and with it -activeWWAN and -performWiFiCheck.       *)
NetworkAvailable ==
  /\ ~crashed
  /\ Ping
  /\ UNCHANGED <<network, callback, scheduled, due, alive, watching, owed, crashed, history>>

(* SCNetworkReachabilityCreateWithAddress fails: CFRetain(NULL).           *)
CreateFails ==
  /\ ~crashed
  /\ reachability = NoRef
  /\ crashed' = TRUE
  /\ UNCHANGED <<network, connectionFlags, object, callback, scheduled, due, alive,
                 watching, owed, history>>

(* A watcher asks once; asking while another one watches is an overlap.    *)
MayWatch(w) ==
  /\ ~crashed
  /\ w \in alive \ watching
  /\ overlapped' = (overlapped \/ watching # {})
  /\ UNCHANGED wasAvailable

(* Slip: the answer is NO.                                                 *)
ScheduleAnsweringNo(w) ==
  /\ MayWatch(w)
  /\ Ping
  /\ scheduled[reachability'] < MaxScheduled
  /\ callback' = [callback EXCEPT ![reachability'] = w]
  /\ scheduled' = [scheduled EXCEPT ![reachability'] = @ + 1]
  /\ UNCHANGED <<network, due, alive, watching, owed, crashed>>

(* -scheduleReachabilityWatcher answers YES. The callback replaces the one *)
(* that may be there.                                                      *)
Schedule(w) ==
  /\ MayWatch(w)
  /\ Ping
  /\ scheduled[reachability'] < MaxScheduled
  /\ callback' = [callback EXCEPT ![reachability'] = w]
  /\ scheduled' = [scheduled EXCEPT ![reachability'] = @ + 1]
  /\ watching' = watching \cup {w}
  /\ UNCHANGED <<network, due, alive, owed, crashed>>

(* Slip: the first return NO is missing.                                   *)
ScheduleFailsAnsweringYes(w) ==
  /\ MayWatch(w)
  /\ Ping
  /\ callback' = [callback EXCEPT ![reachability'] = NoWatcher]
  /\ watching' = watching \cup {w}
  /\ UNCHANGED <<network, scheduled, due, alive, owed, crashed>>

(* ... answers NO: it could not set the callback, or it could not schedule *)
(* the object and takes away the callback, whosever it was.                *)
ScheduleFails(w) ==
  /\ MayWatch(w)
  /\ Ping
  /\ \/ UNCHANGED callback
     \/ callback' = [callback EXCEPT ![reachability'] = NoWatcher]
  /\ UNCHANGED <<network, scheduled, due, alive, watching, owed, crashed>>

(* Slip: the callback stays.                                               *)
UnscheduleLeavingCallback(w) ==
  /\ ~crashed
  /\ w \in watching
  /\ IF reachability = NoRef
     THEN crashed' = TRUE /\ UNCHANGED <<object, callback, scheduled, due>>
     ELSE /\ scheduled' = [scheduled EXCEPT ![reachability] = IF @ > 0 THEN @ - 1 ELSE 0]
          /\ due' = IF scheduled'[reachability] = 0 THEN due \ {reachability} ELSE due
          /\ retains' = [retains EXCEPT ![reachability] = @ - 1]
          /\ reachability' = NoRef
          /\ UNCHANGED <<callback, unused, crashed>>
  /\ watching' = watching \ {w}
  /\ owed' = owed \ {w}
  /\ UNCHANGED <<network, connectionFlags, alive, history>>

(* -unscheduleReachabilityWatcher, called by w: it takes away the callback *)
(* and one scheduling, releases one of the two references and forgets the  *)
(* object. Without an object, CFRelease(NULL) crashes.                     *)
Unschedule(w) ==
  /\ ~crashed
  /\ w \in watching
  /\ IF reachability = NoRef
     THEN crashed' = TRUE /\ UNCHANGED <<object, callback, scheduled, due>>
     ELSE /\ callback' = [callback EXCEPT ![reachability] = NoWatcher]
          /\ scheduled' = [scheduled EXCEPT ![reachability] = IF @ > 0 THEN @ - 1 ELSE 0]
          /\ due' = IF scheduled'[reachability] = 0 THEN due \ {reachability} ELSE due
          /\ retains' = [retains EXCEPT ![reachability] = @ - 1]
          /\ reachability' = NoRef
          /\ UNCHANGED <<unused, crashed>>
  /\ watching' = watching \ {w}
  /\ owed' = owed \ {w}
  /\ UNCHANGED <<network, connectionFlags, alive, history>>

(* The owner of a watcher lets it go once it has stopped watching.         *)
Dealloc(w) ==
  /\ ~crashed
  /\ w \in alive \ watching
  /\ alive' = alive \ {w}
  /\ UNCHANGED <<network, connectionFlags, object, callback, scheduled, due, watching,
                 owed, crashed, history>>

(* The configuration daemon signals the objects that are scheduled.        *)
NetworkChanges ==
  /\ ~crashed
  /\ \E flags \in SUBSET Flags \ {network} : network' = flags
  /\ due' = {r \in Refs : scheduled[r] > 0}
  /\ owed' = owed \cup watching
  /\ wasAvailable' = (wasAvailable \/ Available(network'))
  /\ UNCHANGED <<connectionFlags, object, callback, scheduled, alive, watching, crashed,
                 overlapped>>

(* ReachabilityCallback: the watcher is sent -reachabilityChanged.         *)
Callback(r) ==
  LET w == callback[r] IN
  /\ ~crashed
  /\ r \in due
  /\ due' = due \ {r}
  /\ owed' = owed \ {w}
  /\ crashed' = (w # NoWatcher /\ w \notin alive)
  /\ UNCHANGED <<network, connectionFlags, object, callback, scheduled, alive, watching,
                 history>>
-----------------------------------------------------------------------------
Next ==
  \/ NetworkAvailable
  \/ CreateFails
  \/ \E w \in Watchers : \/ Schedule(w)
                         \/ ScheduleFails(w)
                         \/ Unschedule(w)
                         \/ Dealloc(w)
  \/ NetworkChanges
  \/ \E r \in Refs : Callback(r)

(* The run loop serves a signalled source.                                 *)
CallbackFairness(r) == WF_vars(Callback(r))

Fairness == \A r \in Refs : CallbackFairness(r)

Spec == Init /\ [][Next]_vars /\ Fairness
-----------------------------------------------------------------------------
(* However many watchers there are, no callback is left on an object that  *)
(* the file has forgotten (lines 345-376).                                 *)
CallbackOnCurrent == \A r \in Refs : callback[r] # NoWatcher => r = reachability

(* The global never names an object this file holds no reference to, who   *)
(* ever stops the watch of whom in between (lines 256, 374, 375).          *)
CurrentIsRetained == \A r \in Refs : r = reachability => retains[r] > 0

(* An answer YES of -networkAvailable is never made up, however often the  *)
(* flags could not be retrieved: the network has been available, though it *)
(* need not be any more (lines 22, 261, 268-270).                          *)
AvailableWasTrue == Available(connectionFlags) => wasAvailable

(* As long as watchers take turns, none gets a message after it is         *)
(* deallocated, and each stops a watch that is there: it takes a creation  *)
(* that failed to crash (lines 330-376).                                   *)
TurnsAreSafe ==
  [][crashed' # crashed /\ ~overlapped => reachability = NoRef /\ watching = {}]_vars

(* As long as watchers take turns, news that is owed to one is on its way: *)
(* the object of the watch is signalled and its callback can run, whatever *)
(* was scheduled, refused or stopped before (lines 332-376).               *)
NewsIsDue ==
  ~overlapped /\ ~crashed /\ owed # {} =>
    /\ reachability # NoRef
    /\ \A r \in Refs : r = reachability => ENABLED <<Callback(r)>>_vars
-----------------------------------------------------------------------------
(* What the category promises a watcher, until watchers overlap or the     *)
(* program crashes.                                                        *)
TheWatcher == IF watching = {} THEN NoWatcher ELSE CHOOSE w \in Watchers : w \in watching

Promise == INSTANCE WatchPromise WITH
  watcher <- TheWatcher,
  news <- owed # {},
  void <- overlapped \/ crashed

(* Scheduling, stopping and the callback keep the promise: a watch is of   *)
(* one watcher, what changes in it is told to that watcher and to nobody   *)
(* after it stopped, and the telling is not put off for ever (330-376).    *)
KeepsWatch == Promise!Spec
=============================================================================
