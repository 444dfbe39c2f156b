------------------------- MODULE ReachabilityProofs -------------------------
(***************************************************************************)
(* The reachability object for any number of objects and watchers: what    *)
(* holds for all clients, and what needs watchers that take turns.         *)
(***************************************************************************)
EXTENDS Reachability, TLAPS

(* Every object is unused, current, or forgotten with one reference left.  *)
References ==
  /\ reachability \notin unused
  /\ \A r \in Refs : retains[r] = IF r \in unused THEN 0
                                  ELSE IF r = reachability THEN 2 ELSE 1

IInv == TypeOK /\ References /\ CallbackOnCurrent

LEMMA InitIInv == Init => IInv
<1> SUFFICES ASSUME Init PROVE IInv
  OBVIOUS
<1>1. /\ retains \in [Refs -> 0..2]
      /\ scheduled \in [Refs -> 0..MaxScheduled]
      /\ callback \in [Refs -> Watchers \cup {NoWatcher}]
  BY ReachabilityAssumption DEF Init
<1>2. TypeOK
  BY <1>1 DEF Init, TypeOK, Available
<1>3. References /\ CallbackOnCurrent
  BY ReachabilityAssumption DEF Init, References, CallbackOnCurrent
<1> QED
  BY <1>2, <1>3 DEF IInv

(* What pinging leaves: a current object, the old one if there was one.    *)
LEMMA PingLeaves ==
  ASSUME IInv, Ping
  PROVE  /\ reachability' \in Refs /\ retains' \in [Refs -> 0..2] /\ unused' \subseteq Refs
         /\ connectionFlags' \subseteq Flags
         /\ References'
         /\ reachability # NoRef => reachability' = reachability
  BY ReachabilityAssumption DEF IInv, TypeOK, References, Ping, object

LEMMA NextIInv == IInv /\ [Next]_vars => IInv'
<1> SUFFICES ASSUME IInv, [Next]_vars PROVE IInv'
  OBVIOUS
<1> USE ReachabilityAssumption
<1>1. CASE NetworkAvailable
  BY <1>1, PingLeaves DEF NetworkAvailable, history, IInv, TypeOK, CallbackOnCurrent
<1>2. CASE CreateFails
  BY <1>2 DEF CreateFails, object, history, IInv, TypeOK, References, CallbackOnCurrent
<1>3. ASSUME NEW w \in Watchers, Schedule(w) PROVE IInv'
  <2>1. Ping
    BY <1>3 DEF Schedule
  <2>2. scheduled' \in [Refs -> 0..MaxScheduled]
    BY <1>3, <2>1, PingLeaves DEF Schedule, IInv, TypeOK
  <2>3. TypeOK'
    BY <1>3, <2>1, <2>2, PingLeaves DEF Schedule, MayWatch, IInv, TypeOK
  <2>4. CallbackOnCurrent'
    BY <1>3, <2>1, PingLeaves DEF Schedule, IInv, TypeOK, CallbackOnCurrent
  <2> QED
    BY <2>1, <2>3, <2>4, PingLeaves DEF IInv
<1>4. ASSUME NEW w \in Watchers, ScheduleFails(w) PROVE IInv'
  <2>1. Ping
    BY <1>4 DEF ScheduleFails
  <2>2. callback' \in [Refs -> Watchers \cup {NoWatcher}] /\ CallbackOnCurrent'
    BY <1>4, <2>1, PingLeaves DEF ScheduleFails, IInv, TypeOK, CallbackOnCurrent
  <2> QED
    BY <1>4, <2>1, <2>2, PingLeaves DEF ScheduleFails, MayWatch, IInv, TypeOK
<1>5. ASSUME NEW w \in Watchers, Unschedule(w) PROVE IInv'
  <2>1. CASE reachability = NoRef
    BY <1>5, <2>1 DEF Unschedule, object, history, IInv, TypeOK, References, CallbackOnCurrent
  <2>2. CASE reachability # NoRef
    <3>1. reachability \in Refs /\ reachability' = NoRef /\ UNCHANGED <<unused, crashed>>
      BY <1>5, <2>2 DEF Unschedule, IInv, TypeOK
    <3>2. scheduled' \in [Refs -> 0..MaxScheduled] /\ due' \subseteq Refs
      BY <1>5, <2>2, <3>1 DEF Unschedule, IInv, TypeOK
    <3>3. retains' \in [Refs -> 0..2] /\ References'
      BY <1>5, <2>2, <3>1 DEF Unschedule, IInv, TypeOK, References
    <3>4. callback' \in [Refs -> Watchers \cup {NoWatcher}] /\ CallbackOnCurrent'
      BY <1>5, <2>2, <3>1 DEF Unschedule, IInv, TypeOK, CallbackOnCurrent
    <3> QED
      BY <1>5, <3>1, <3>2, <3>3, <3>4 DEF Unschedule, history, IInv, TypeOK
  <2> QED
    BY <2>1, <2>2
<1>6. ASSUME NEW w \in Watchers, Dealloc(w) PROVE IInv'
  BY <1>6 DEF Dealloc, object, history, IInv, TypeOK, References, CallbackOnCurrent
<1>7. CASE NetworkChanges
  BY <1>7 DEF NetworkChanges, Available, object, history, IInv, TypeOK, References, CallbackOnCurrent
<1>8. ASSUME NEW r \in Refs, Callback(r) PROVE IInv'
  BY <1>8 DEF Callback, object, history, IInv, TypeOK, References, CallbackOnCurrent
<1>9. CASE UNCHANGED vars
  BY <1>9 DEF vars, object, history, IInv, TypeOK, References, CallbackOnCurrent
<1> QED
  BY <1>1, <1>2, <1>3, <1>4, <1>5, <1>6, <1>7, <1>8, <1>9 DEF Next

LEMMA Invariance == Spec => []IInv
  BY InitIInv, NextIInv, PTL DEF Spec

(* All state has its type; in particular retains stays within 0..2.        *)
THEOREM TypeCorrect == Spec => []TypeOK
  BY Invariance, PTL DEF IInv

(* No callback is left on an object that was forgotten, whoever starts and *)
(* stops watching in whichever order.                                      *)
THEOREM NoForgottenCallback == Spec => []CallbackOnCurrent
  BY Invariance, PTL DEF IInv

(* The global never dangles.                                               *)
THEOREM CurrentRetained == Spec => []CurrentIsRetained
<1>1. IInv => CurrentIsRetained
  BY DEF IInv, References, CurrentIsRetained
<1> QED
  BY <1>1, Invariance, PTL
-----------------------------------------------------------------------------
(* Whatever flags the file holds, the network has had them or they are {}. *)
Seen == (Available(network) => wasAvailable) /\ AvailableWasTrue

LEMMA NextSeen == Seen /\ [Next]_vars => Seen'
<1> SUFFICES ASSUME Seen, [Next]_vars PROVE Seen'
  OBVIOUS
<1> USE DEF Seen, AvailableWasTrue
<1>1. CASE NetworkChanges
  BY <1>1 DEF NetworkChanges
<1>2. ASSUME Ping, UNCHANGED <<network, wasAvailable>> PROVE Seen'
  <2>1. connectionFlags' = network \/ connectionFlags' = connectionFlags
    BY <1>2 DEF Ping
  <2> QED
    BY <1>2, <2>1
<1>3. CASE NetworkAvailable
  BY <1>2, <1>3 DEF NetworkAvailable, history
<1>4. ASSUME NEW w \in Watchers, Schedule(w) \/ ScheduleFails(w) PROVE Seen'
  BY <1>2, <1>4 DEF Schedule, ScheduleFails, MayWatch
<1> QED
  BY <1>1, <1>3, <1>4
  DEF Next, CreateFails, Unschedule, Dealloc, Callback, vars, history

(* -networkAvailable never invents a network.                              *)
THEOREM NoInventedNetwork == Spec => []AvailableWasTrue
<1>1. Init => Seen
  BY DEF Init, Seen, AvailableWasTrue, Available
<1>2. Seen => AvailableWasTrue
  BY DEF Seen
<1> QED
  BY <1>1, <1>2, NextSeen, PTL DEF Spec
-----------------------------------------------------------------------------
(* Watchers that take turns: one at a time, alive, and the callback is his.*)
Turns ==
  /\ \A w, x \in watching : w = x
  /\ watching \subseteq alive
  /\ owed \subseteq watching
  /\ watching # {} => reachability # NoRef
  /\ \A r \in Refs : callback[r] # NoWatcher => callback[r] \in watching

TurnsInv == ~overlapped => Turns

LEMMA InitTurns == Init => TurnsInv
  BY DEF Init, Turns, TurnsInv

LEMMA NextTurns ==
  ASSUME IInv, TurnsInv, [Next]_vars
  PROVE  TurnsInv'
<1> SUFFICES ASSUME ~overlapped' PROVE Turns'
  BY DEF TurnsInv
<1> USE ReachabilityAssumption
<1>0. ~overlapped /\ Turns
  <2>1. overlapped => overlapped'
    BY DEF Next, NetworkAvailable, CreateFails, Schedule, ScheduleFails, MayWatch,
           Unschedule, Dealloc, NetworkChanges, Callback, vars, history
  <2> QED
    BY <2>1 DEF TurnsInv
<1>1. CASE NetworkAvailable
  BY <1>0, <1>1, PingLeaves DEF NetworkAvailable, Turns
<1>2. ASSUME NEW w \in Watchers, Schedule(w) PROVE Turns'
  <2>1. Ping /\ watching = {} /\ w \in alive
    BY <1>2 DEF Schedule, MayWatch
  <2>2. /\ \A r \in Refs : callback[r] = NoWatcher
        /\ owed = {}
    BY <1>0, <2>1 DEF Turns
  <2>3. watching' = {w} /\ UNCHANGED <<alive, owed>>
    BY <1>2, <2>1 DEF Schedule
  <2>4. \A r \in Refs : callback'[r] # NoWatcher => callback'[r] = w
    BY <1>2, <2>1, <2>2, PingLeaves DEF Schedule, IInv, TypeOK
  <2> QED
    BY <2>1, <2>2, <2>3, <2>4, PingLeaves DEF Turns
<1>3. ASSUME NEW w \in Watchers, ScheduleFails(w) PROVE Turns'
  <2>1. Ping /\ watching = {}
    BY <1>3 DEF ScheduleFails, MayWatch
  <2>2. \A r \in Refs : callback[r] = NoWatcher
    BY <1>0, <2>1 DEF Turns
  <2> QED
    BY <1>0, <1>3, <2>1, <2>2, PingLeaves DEF ScheduleFails, Turns, IInv, TypeOK
<1>4. ASSUME NEW w \in Watchers, Unschedule(w) PROVE Turns'
  <2>1. reachability # NoRef /\ watching = {w}
    BY <1>0, <1>4 DEF Unschedule, Turns
  <2>2. watching' = {} /\ owed' = {} /\ UNCHANGED alive
    BY <1>0, <1>4, <2>1 DEF Unschedule, Turns
  <2>3. \A r \in Refs : callback'[r] = NoWatcher
    BY <1>4, <2>1 DEF Unschedule, IInv, TypeOK, CallbackOnCurrent
  <2> QED
    BY <2>2, <2>3 DEF Turns
<1>5. CASE \/ CreateFails
           \/ \E w \in Watchers : Dealloc(w)
           \/ NetworkChanges
           \/ \E r \in Refs : Callback(r)
           \/ UNCHANGED vars
  BY <1>0, <1>5
  DEF CreateFails, Dealloc, NetworkChanges, Callback, vars, object, Turns
<1> QED
  BY <1>1, <1>2, <1>3, <1>4, <1>5 DEF Next

LEMMA TurnsInvariance == Spec => []TurnsInv
<1>1. IInv /\ TurnsInv /\ [Next]_vars => TurnsInv'
  BY NextTurns
<1> QED
  BY <1>1, InitTurns, Invariance, PTL DEF Spec

LEMMA StepTurns ==
  ASSUME IInv, TurnsInv, [Next]_vars
  PROVE  [crashed' # crashed /\ ~overlapped => reachability = NoRef /\ watching = {}]_vars
<1> SUFFICES ASSUME ~overlapped, crashed' # crashed
             PROVE  reachability = NoRef /\ watching = {}
  OBVIOUS
<1>0. Turns
  BY DEF TurnsInv
<1>1. CASE CreateFails
  BY <1>0, <1>1 DEF CreateFails, Turns
<1>2. ASSUME NEW w \in Watchers, Unschedule(w) PROVE crashed' = crashed
  BY <1>0, <1>2 DEF Unschedule, Turns
<1>3. ASSUME NEW r \in Refs, Callback(r) PROVE crashed' = crashed
  BY <1>0, <1>3 DEF Callback, Turns, IInv, TypeOK
<1> QED
  BY <1>1, <1>2, <1>3
  DEF Next, NetworkAvailable, Schedule, ScheduleFails, Dealloc, NetworkChanges, vars

(* Watchers that take turns are safe: the one crash left is that of a      *)
(* creation that fails, while nobody watches.                              *)
THEOREM TurnsSafe == Spec => TurnsAreSafe
<1>1. IInv /\ TurnsInv /\ [Next]_vars =>
        [crashed' # crashed /\ ~overlapped => reachability = NoRef /\ watching = {}]_vars
  BY StepTurns
<1> QED
  BY <1>1, TurnsInvariance, Invariance, PTL DEF Spec, TurnsAreSafe
-----------------------------------------------------------------------------
(* The refinement: whose watch it is, and that it is in the promise.       *)
LEMMA WhoWatches ==
  ASSUME TypeOK
  PROVE  /\ TheWatcher \in Watchers \cup {NoWatcher}
         /\ watching = {} => TheWatcher = NoWatcher
         /\ watching # {} => TheWatcher \in watching
<1>1. watching # {} => \E w \in Watchers : w \in watching
  BY DEF TypeOK
<1> QED
  BY <1>1 DEF TheWatcher, TypeOK

LEMMA PromiseStep ==
  ASSUME IInv, IInv', TurnsInv, TurnsInv', [Next]_vars
  PROVE  [Promise!Next]_(Promise!vars)
<1> USE ReachabilityAssumption
<1>t. TypeOK /\ TypeOK'
  BY DEF IInv
<1>w. /\ TheWatcher' \in Watchers \cup {NoWatcher}
      /\ watching' = {} => TheWatcher' = NoWatcher
      /\ watching' # {} => TheWatcher' \in watching'
  <2>1. watching' # {} => \E w \in Watchers : w \in watching'
    BY <1>t DEF TypeOK
  <2> QED
    BY <1>t, <2>1 DEF TheWatcher, TypeOK
<1>1. CASE (overlapped \/ crashed)'
  <2>1. Promise!Void
    BY <1>1, <1>w DEF Promise!Void
  <2> QED
    BY <2>1 DEF Promise!Next
<1>2. CASE ~(overlapped \/ crashed)'
  <2>1. ~overlapped /\ Turns /\ Turns'
    <3>1. overlapped => overlapped'
      BY DEF Next, NetworkAvailable, CreateFails, Schedule, ScheduleFails, MayWatch,
             Unschedule, Dealloc, NetworkChanges, Callback, vars, history
    <3> QED
      BY <1>2, <3>1 DEF TurnsInv
  <2>2. ~crashed
    BY <1>2 DEF Next, NetworkAvailable, CreateFails, Schedule, ScheduleFails, MayWatch,
                Unschedule, Dealloc, NetworkChanges, Callback, vars
  <2>3. UNCHANGED (overlapped \/ crashed)
    BY <1>2, <2>1, <2>2
  <2>4. CASE UNCHANGED <<watching, owed>>
    BY <2>3, <2>4 DEF Promise!vars, TheWatcher
  <2>5. ASSUME NEW w \in Watchers, Schedule(w) PROVE Promise!Start
    <3>1. watching = {} /\ watching' = {w} /\ UNCHANGED owed
      BY <1>2, <2>5 DEF Schedule, MayWatch
    <3>2. TheWatcher = NoWatcher /\ TheWatcher' = w
      BY <1>t, <1>w, <3>1, WhoWatches
    <3> QED
      BY <2>3, <3>1, <3>2 DEF Promise!Start
  <2>6. ASSUME NEW w \in Watchers, Unschedule(w) PROVE Promise!Stop
    <3>1. watching = {w} /\ watching' = {} /\ owed' = {}
      BY <2>1, <2>6 DEF Unschedule, Turns
    <3>2. TheWatcher # NoWatcher /\ TheWatcher' = NoWatcher
      BY <1>t, <1>w, <3>1, WhoWatches
    <3> QED
      BY <2>3, <3>1, <3>2 DEF Promise!Stop
  <2>7. CASE NetworkChanges
    <3>1. UNCHANGED watching /\ owed' = watching
      BY <2>1, <2>7 DEF NetworkChanges, Turns
    <3>2. UNCHANGED TheWatcher
      BY <3>1 DEF TheWatcher
    <3>3. CASE watching = {}
      BY <2>1, <2>3, <3>1, <3>2, <3>3 DEF Turns, Promise!vars
    <3>4. CASE watching # {}
      <4>1. TheWatcher # NoWatcher
        BY <1>t, <3>4, WhoWatches DEF TypeOK
      <4> QED
        BY <2>3, <3>1, <3>2, <3>4, <4>1 DEF Promise!Change, Promise!Next
    <3> QED
      BY <3>3, <3>4
  <2>8. ASSUME NEW r \in Refs, Callback(r) PROVE [Promise!Next]_(Promise!vars)
    <3>1. UNCHANGED watching /\ owed' = owed \ {callback[r]}
      BY <2>8 DEF Callback
    <3>2. UNCHANGED TheWatcher
      BY <3>1 DEF TheWatcher
    <3>3. CASE owed # {} /\ owed' = {}
      <4>1. (owed # {}) = TRUE /\ (owed # {})' = FALSE /\ ~(overlapped \/ crashed)
        BY <2>1, <2>2, <3>3
      <4> QED
        BY <2>3, <3>2, <4>1 DEF Promise!Tell, Promise!Next
    <3>4. CASE owed = {} \/ owed' # {}
      <4>1. UNCHANGED (owed # {})
        BY <3>1, <3>4
      <4> QED
        BY <2>3, <3>2, <4>1 DEF Promise!vars
    <3> QED
      BY <3>3, <3>4
  <2>9. CASE \/ NetworkAvailable
             \/ CreateFails
             \/ \E w \in Watchers : ScheduleFails(w) \/ Dealloc(w)
             \/ UNCHANGED vars
    BY <2>4, <2>9 DEF NetworkAvailable, CreateFails, ScheduleFails, Dealloc, vars
  <2> QED
    BY <2>5, <2>6, <2>7, <2>8, <2>9 DEF Next, Promise!Next
<1> QED
  BY <1>1, <1>2

(* The category keeps its promise to watchers that take turns, for any     *)
(* number of watchers and objects.                                         *)
THEOREM KeepsWatchSafely == Spec => Promise!Init /\ [][Promise!Next]_(Promise!vars)
<1>1. Init => Promise!Init
  BY DEF Init, Promise!Init, TheWatcher
<1>2. IInv /\ IInv' /\ TurnsInv /\ TurnsInv' /\ [Next]_vars => [Promise!Next]_(Promise!vars)
  BY PromiseStep
<1> QED
  BY <1>1, <1>2, Invariance, TurnsInvariance, PTL DEF Spec
-----------------------------------------------------------------------------
(* The other half: the watcher is told in the end. Its watch is on the     *)
(* current object, which is scheduled and, while news is owed, signalled.  *)
Watched ==
  \A w \in watching :
    /\ callback[reachability] = w
    /\ scheduled[reachability] > 0
    /\ w \in owed => reachability \in due

WatchedInv == ~overlapped => Watched

LEMMA NextWatched ==
  ASSUME IInv, IInv', TurnsInv, WatchedInv, [Next]_vars
  PROVE  WatchedInv'
<1> SUFFICES ASSUME ~overlapped' PROVE Watched'
  BY DEF WatchedInv
<1> USE ReachabilityAssumption
<1>0. ~overlapped /\ Turns /\ Watched
  <2>1. overlapped => overlapped'
    BY DEF Next, NetworkAvailable, CreateFails, Schedule, ScheduleFails, MayWatch,
           Unschedule, Dealloc, NetworkChanges, Callback, vars, history
  <2> QED
    BY <2>1 DEF TurnsInv, WatchedInv
<1>c. watching # {} => reachability \in Refs
  BY <1>0 DEF Turns, IInv, TypeOK
<1>1. CASE NetworkAvailable
  BY <1>0, <1>1, PingLeaves DEF NetworkAvailable, Turns, Watched
<1>2. ASSUME NEW w \in Watchers, Schedule(w) PROVE Watched'
  <2>1. Ping /\ watching' = {w} /\ owed = {} /\ owed' = {}
    BY <1>0, <1>2 DEF Schedule, MayWatch, Turns
  <2>2. callback'[reachability'] = w /\ scheduled'[reachability'] > 0
    BY <1>2, <2>1, PingLeaves DEF Schedule, IInv, TypeOK
  <2> QED
    BY <2>1, <2>2 DEF Watched
<1>3. ASSUME NEW w \in Watchers, ScheduleFails(w) PROVE Watched'
  BY <1>3 DEF ScheduleFails, MayWatch, Watched
<1>4. ASSUME NEW w \in Watchers, Unschedule(w) PROVE Watched'
  <2>1. watching' = {}
    BY <1>0, <1>4 DEF Unschedule, Turns
  <2> QED
    BY <2>1 DEF Watched
<1>5. CASE NetworkChanges
  BY <1>0, <1>c, <1>5 DEF NetworkChanges, Watched, object, IInv, TypeOK
<1>6. ASSUME NEW r \in Refs, Callback(r) PROVE Watched'
  <2>1. UNCHANGED <<watching, reachability, callback, scheduled>>
        /\ due' = due \ {r} /\ owed' = owed \ {callback[r]}
    BY <1>6 DEF Callback, object
  <2> QED
    BY <1>0, <2>1 DEF Watched
<1>7. CASE CreateFails \/ (\E w \in Watchers : Dealloc(w)) \/ UNCHANGED vars
  BY <1>0, <1>7 DEF CreateFails, Dealloc, vars, object, Watched
<1> QED
  BY <1>1, <1>2, <1>3, <1>4, <1>5, <1>6, <1>7 DEF Next

LEMMA WatchedInvariance == Spec => []WatchedInv
<1>1. Init => WatchedInv
  BY DEF Init, WatchedInv, Watched
<1>2. IInv /\ IInv' /\ TurnsInv /\ WatchedInv /\ [Next]_vars => WatchedInv'
  BY NextWatched
<1> QED
  BY <1>1, <1>2, Invariance, TurnsInvariance, PTL DEF Spec

(* News is owed only while the object that carries it to the one watcher   *)
(* is signalled. It is what NewsIsDue says but the ENABLED.                *)
NewsSignalled ==
  ~overlapped => \A w \in owed : /\ w \in watching
                                 /\ reachability \in due
                                 /\ callback[reachability] = w

(* Nothing that watchers do in turns loses a change of the network         *)
(* (UIDevice-Reachability.m lines 332-376).                                *)
THEOREM NoNewsLost == Spec => []NewsSignalled
<1>1. TurnsInv /\ WatchedInv => NewsSignalled
  BY DEF TurnsInv, WatchedInv, Turns, Watched, NewsSignalled
<1> QED
  BY <1>1, TurnsInvariance, WatchedInvariance, PTL

Owes(r) == Promise!News /\ reachability = r

(* What is owed stays so, through the same object, until it is told.       *)
LEMMA OwesStep ==
  ASSUME IInv, IInv', TurnsInv, TurnsInv', WatchedInv, [Next]_vars, NEW r \in Refs, Owes(r)
  PROVE  /\ Owes(r)' \/ Promise!Told'
         /\ Callback(r) => Promise!Told'
<1>1. owed # {} /\ ~overlapped /\ ~crashed /\ Turns /\ Watched /\ reachability = r
  BY DEF Owes, Promise!News, TurnsInv, WatchedInv
<1>2. Promise!News' \/ Promise!Told'
  BY DEF Promise!News, Promise!Told
<1>3. PICK w \in Watchers : watching = {w} /\ owed = {w}
  BY <1>1 DEF Turns, IInv, TypeOK
<1>4. Callback(r) => Promise!Told'
  <2>1. callback[r] = w
    BY <1>1, <1>3 DEF Watched
  <2>2. Callback(r) => owed' = {}
    BY <1>3, <2>1 DEF Callback
  <2>3. Callback(r) => ~(owed # {})'
    BY <2>2
  <2> QED
    BY <2>3 DEF Promise!Told
<1>5. reachability' # r => owed' = {}
  <2> SUFFICES ASSUME reachability' # r PROVE owed' = {}
    OBVIOUS
  <2>1. ~Ping
    BY <1>1, PingLeaves, ReachabilityAssumption
  <2>2. PICK x \in Watchers : Unschedule(x)
    BY <1>1, <2>1 DEF Next, NetworkAvailable, CreateFails, Schedule, ScheduleFails, Dealloc,
                      NetworkChanges, Callback, vars, object
  <2> QED
    BY <1>3, <2>2 DEF Unschedule
<1>6. reachability' # r => Promise!Told'
  <2>1. owed' = {} => ~(owed # {})'
    OBVIOUS
  <2> QED
    BY <1>5, <2>1 DEF Promise!Told
<1> QED
  BY <1>2, <1>4, <1>6 DEF Owes

Running ==
  /\ [][Next]_vars
  /\ Fairness
  /\ []IInv
  /\ []TurnsInv
  /\ []WatchedInv
  /\ []NewsIsDue

LEMMA OwedIsTold ==
  ASSUME NEW r \in Refs
  PROVE  Running => [](Owes(r) => <>Promise!Told)
<1>1. /\ IInv /\ IInv' /\ TurnsInv /\ TurnsInv' /\ WatchedInv /\ Owes(r) /\ [Next]_vars
      => Owes(r)' \/ Promise!Told'
  BY OwesStep
<1>2. /\ IInv /\ IInv' /\ TurnsInv /\ TurnsInv' /\ WatchedInv /\ Owes(r) /\ <<Callback(r)>>_vars
      => Promise!Told'
  BY OwesStep DEF Next
<1>3. NewsIsDue /\ Owes(r) => ENABLED <<Callback(r)>>_vars
  BY DEF NewsIsDue, Owes, Promise!News
<1>4. Fairness => CallbackFairness(r)
  BY DEF Fairness
<1> QED
  BY <1>1, <1>2, <1>3, <1>4, PTL DEF Running, CallbackFairness

LEMMA NewsIsTold == Running => (Promise!News ~> Promise!Told)
<1>1. Running => [](\A r \in Refs : Owes(r) => <>Promise!Told)
  <2>1. Running => \A r \in Refs : [](Owes(r) => <>Promise!Told)
    BY OwedIsTold
  <2> QED
    BY <2>1
<1>2. (\A r \in Refs : Owes(r) => <>Promise!Told) => ((\E r \in Refs : Owes(r)) => <>Promise!Told)
  OBVIOUS
<1>3. IInv /\ NewsIsDue /\ Promise!News => \E r \in Refs : Owes(r)
  BY DEF IInv, TypeOK, NewsIsDue, Owes, Promise!News
<1> QED
  BY <1>1, <1>2, <1>3, PTL DEF Running

(* The category implements WatchPromise, liveness included, if a callback  *)
(* that is due can run.                                                    *)
THEOREM KeepsWatchAlways == Spec /\ []NewsIsDue => KeepsWatch
<1>1. Spec /\ []NewsIsDue => Running
  BY Invariance, TurnsInvariance, WatchedInvariance, PTL DEF Spec, Running
<1> QED
  BY <1>1, NewsIsTold, KeepsWatchSafely, PTL DEF KeepsWatch, Promise!Spec
=============================================================================
