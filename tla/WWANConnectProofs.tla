------------------------- MODULE WWANConnectProofs --------------------------
(***************************************************************************)
(* What no client of -forceWWAN and -shutdownWWAN can break, in whichever  *)
(* order and from however deep a nest of run loops it calls them, and what *)
(* holds until a client is careless.                                       *)
(***************************************************************************)
EXTENDS WWANConnect, SequenceTheorems, TLAPS

(* StartKeepsBlock, over indices alone, and what keeps it: until the client*)
(* shuts down twice, what it holds is live and of no call in progress.     *)
FramesKept ==
  ~shutTwice =>
    /\ \A k \in 1..Len(frames) : memory[frames[k].info] = "live" /\ value[frames[k].info]
    /\ \A j, k \in 1..Len(frames) : frames[j].info = frames[k].info => j = k

HeldKept ==
  ~shutTwice /\ Held =>
    memory[myInfoPtr] = "live" /\ \A k \in 1..Len(frames) : frames[k].info # myInfoPtr

IInv ==
  /\ TypeOK
  /\ CallbacksAreLive
  /\ FramesKept
  /\ HeldKept
  /\ shutTwice => careless
-----------------------------------------------------------------------------
(* CFRunLoopStop changes no frame's block.                                 *)
LEMMA StopKeeps ==
  ASSUME frames \in Seq(Frame), outerStopped \in BOOLEAN, StopInnermostLoop
  PROVE  /\ frames' \in Seq(Frame)
         /\ outerStopped' \in BOOLEAN
         /\ Len(frames') = Len(frames)
         /\ \A k \in 1..Len(frames) : frames'[k].info = frames[k].info
<1>1. CASE frames = <<>>
  BY <1>1 DEF StopInnermostLoop
<1>2. CASE frames # <<>>
  <2> DEFINE n == Len(frames)
             top == [frames[n] EXCEPT !.stopped = TRUE]
  <2>1. n \in 1..Len(frames)
    BY <1>2, EmptySeq, LenProperties
  <2>2. frames[n] \in Frame
    BY <2>1, ElementOfSeq
  <2>3. top \in Frame /\ top.info = frames[n].info
    BY <2>2 DEF Frame
  <2>4. frames' = [frames EXCEPT ![n] = top] /\ outerStopped' = outerStopped
    BY <1>2 DEF StopInnermostLoop
  <2> QED
    BY <2>1, <2>3, <2>4, ExceptSeq
<1> QED
  BY <1>1, <1>2

(* A step that keeps the blocks of all frames, frees none of them and      *)
(* leaves the global alone keeps both.                                     *)
LEMMA FramesKeptSame ==
  ASSUME FramesKept, HeldKept, Len(frames') = Len(frames),
         \A k \in 1..Len(frames) : frames'[k].info = frames[k].info,
         UNCHANGED <<memory, value, myInfoPtr, shut, shutTwice>>
  PROVE  FramesKept' /\ HeldKept'
  BY DEF FramesKept, HeldKept, Held

LEMMA InitIInv == Init => IInv
<1> SUFFICES ASSUME Init PROVE IInv
  OBVIOUS
<1>1. frames \in Seq(Frame) /\ Len(frames) = 0
  BY DEF Init
<1>2. TypeOK
  BY <1>1 DEF Init, TypeOK
<1> QED
  BY <1>1, <1>2 DEF Init, IInv, CallbacksAreLive, FramesKept, HeldKept, Held

LEMMA NextIInv == IInv /\ [Next]_vars => IInv'
<1> SUFFICES ASSUME IInv, [Next]_vars PROVE IInv'
  OBVIOUS
<1> USE WWANAssumption DEF IInv, past, loops
<1>0. frames \in Seq(Frame) /\ Len(frames) \in Nat
  BY LenProperties DEF TypeOK
<1>a. \A k \in 1..Len(frames) : frames[k].info \in Infos
  <2> TAKE k \in 1..Len(frames)
  <2>1. frames[k] \in Frame
    BY <1>0, ElementOfSeq
  <2> QED
    BY <2>1 DEF Frame
<1>b. ASSUME NEW i \in Infos, Allocate(i)
      PROVE  /\ memory' \in [Infos -> {"free", "live"}] /\ value' \in [Infos -> BOOLEAN]
             /\ isConnected' \in [Infos -> BOOLEAN] /\ errorOccurred' \in [Infos -> BOOLEAN]
             /\ memory'[i] = "live" /\ value'[i]
             /\ \A j \in Infos : memory[j] = "live" =>
                  j # i /\ memory'[j] = "live" /\ value'[j] = value[j]
  BY <1>b DEF Allocate, TypeOK
<1>1. ASSUME NEW i \in Infos, ForceWWAN(i) PROVE IInv'
  <2> DEFINE new == [info |-> i, stopped |-> FALSE]
  <2>1. /\ frames' \in Seq(Frame)
        /\ Len(frames') = Len(frames) + 1
        /\ \A k \in 1..Len(frames) : frames'[k] = frames[k]
        /\ frames'[Len(frames) + 1] = new
    BY <1>0, <1>1, AppendProperties DEF ForceWWAN, Frame
  <2>2. /\ Allocate(i) /\ isClientSet' = [isClientSet EXCEPT ![i] = TRUE]
        /\ UNCHANGED <<myInfoPtr, shut, shutTwice>> /\ (careless => careless')
    BY <1>1 DEF ForceWWAN, Forces
  <2>3. TypeOK'
    <3>1. stream' \in [Infos -> {"none", "opening", "open", "ended", "closed"}]
      BY <1>1 DEF TypeOK, ForceWWAN
    <3> QED
      BY <1>1, <1>b, <2>1, <2>2, <3>1 DEF TypeOK, ForceWWAN, Forces
  <2>4. CallbacksAreLive'
    BY <1>b, <2>2 DEF TypeOK, CallbacksAreLive
  <2>5. ASSUME ~shutTwice'
        PROVE  /\ \A k \in 1..Len(frames) : frames[k].info # i
               /\ \A k \in 1..Len(frames') :
                    memory'[frames'[k].info] = "live" /\ value'[frames'[k].info]
    <3>1. \A k \in 1..Len(frames) :
            /\ memory[frames[k].info] = "live" /\ value[frames[k].info]
            /\ frames[k].info \in Infos
      BY <1>a, <2>2, <2>5 DEF FramesKept
    <3>2. \A k \in 1..Len(frames) :
            /\ frames[k].info # i
            /\ memory'[frames[k].info] = "live" /\ value'[frames[k].info]
      BY <1>b, <2>2, <3>1
    <3> QED
      BY <1>0, <1>b, <2>1, <2>2, <3>2
  <2>6. FramesKept'
    <3> SUFFICES ASSUME ~shutTwice'
                 PROVE  \A j, k \in 1..Len(frames') : frames'[j].info = frames'[k].info => j = k
      BY <2>5 DEF FramesKept
    <3> QED
      BY <1>0, <2>1, <2>2, <2>5 DEF FramesKept
  <2>7. HeldKept'
    <3> SUFFICES ASSUME ~shutTwice', Held'
                 PROVE  /\ memory'[myInfoPtr'] = "live"
                        /\ \A k \in 1..Len(frames') : frames'[k].info # myInfoPtr'
      BY DEF HeldKept
    <3>1. /\ memory[myInfoPtr] = "live" /\ myInfoPtr \in Infos
          /\ \A k \in 1..Len(frames) : frames[k].info # myInfoPtr
      BY <2>2 DEF HeldKept, Held, TypeOK
    <3>2. myInfoPtr # i /\ memory'[myInfoPtr] = "live"
      BY <1>b, <2>2, <3>1
    <3> QED
      BY <1>0, <2>1, <2>2, <3>1, <3>2
  <2> QED
    BY <2>2, <2>3, <2>4, <2>6, <2>7
<1>2. ASSUME NEW i \in Infos, ForceFailsAtOnce(i) PROVE IInv'
  <2>1. /\ Allocate(i) /\ (careless => careless')
        /\ UNCHANGED <<isClientSet, frames, outerStopped, myInfoPtr, shut, shutTwice>>
    BY <1>2 DEF ForceFailsAtOnce, Forces
  <2>2. TypeOK'
    <3>1. stream' \in [Infos -> {"none", "opening", "open", "ended", "closed"}]
      BY <1>2 DEF TypeOK, ForceFailsAtOnce
    <3> QED
      BY <1>2, <1>b, <2>1, <3>1 DEF TypeOK, ForceFailsAtOnce, Forces
  <2>3. CallbacksAreLive'
    BY <1>b, <2>1 DEF TypeOK, CallbacksAreLive
  <2>4. FramesKept' /\ HeldKept'
    BY <1>a, <1>b, <2>1 DEF FramesKept, HeldKept, Held, TypeOK
  <2> QED
    BY <2>1, <2>2, <2>3, <2>4
<1>3. CASE ForceOutOfMemory
  <2>1. UNCHANGED <<fields, frames, outerStopped, shutTwice>> /\ myInfoPtr' = NoInfo
    BY <1>3 DEF ForceOutOfMemory
  <2>2. TypeOK'
    BY <1>3, <2>1 DEF TypeOK, ForceOutOfMemory, Forces, fields
  <2>3. CallbacksAreLive' /\ FramesKept'
    BY <2>1 DEF CallbacksAreLive, FramesKept, fields
  <2>4. HeldKept'
    BY <2>1 DEF HeldKept, Held
  <2>5. careless => careless'
    BY <1>3 DEF ForceOutOfMemory, Forces
  <2> QED
    BY <2>1, <2>2, <2>3, <2>4, <2>5
<1>4. ASSUME NEW i \in Infos, OpenCompleted(i) \/ ErrorOccurred(i) \/ EndEncountered(i)
      PROVE IInv'
  <2>1. /\ StopInnermostLoop \/ UNCHANGED <<frames, outerStopped>>
        /\ UNCHANGED <<memory, isClientSet, value, myInfoPtr, shut, shutTwice, misled, careless>>
    BY <1>4 DEF OpenCompleted, ErrorOccurred, EndEncountered
  <2>2. /\ frames' \in Seq(Frame)
        /\ outerStopped' \in BOOLEAN
        /\ Len(frames') = Len(frames)
        /\ \A k \in 1..Len(frames) : frames'[k].info = frames[k].info
    BY <1>0, <2>1, StopKeeps DEF TypeOK
  <2>3. /\ isConnected' \in [Infos -> BOOLEAN]
        /\ errorOccurred' \in [Infos -> BOOLEAN]
        /\ stream' \in [Infos -> {"none", "opening", "open", "ended", "closed"}]
    BY <1>4 DEF TypeOK, OpenCompleted, ErrorOccurred, EndEncountered
  <2>4. deadRefCon' \in BOOLEAN /\ listLeft' \in BOOLEAN /\ crashed' \in BOOLEAN
    BY <1>4 DEF TypeOK, OpenCompleted, ErrorOccurred, EndEncountered, WalkCrashes, WalkReturns
  <2>5. TypeOK'
    BY <2>1, <2>2, <2>3, <2>4 DEF TypeOK
  <2>6. FramesKept' /\ HeldKept'
    BY <2>1, <2>2, FramesKeptSame
  <2> QED
    BY <2>1, <2>5, <2>6 DEF CallbacksAreLive
<1>5. CASE StartReturns
  <2> DEFINE n == Len(frames)
             i == frames[n].info
  <2>1. n \in 1..Len(frames) /\ i \in Infos
    <3>1. Len(frames) # 0
      BY <1>0, <1>5, EmptySeq DEF StartReturns
    <3>2. n \in 1..Len(frames)
      BY <1>0, <3>1
    <3> QED
      BY <1>a, <3>2
  <2>2. /\ CrashClosing(i) \/ ReturnBlock(i) \/ ReturnNull(i)
        /\ memory[i] = "live" => CrashClosing(i) \/ ReturnBlock(i)
        /\ UNCHANGED <<outerStopped, deadRefCon, listLeft, careless>>
    BY <1>5 DEF StartReturns, Last
  <2>3. CASE CrashClosing(i)
    <3>1. /\ Closing(i) /\ crashed'
          /\ UNCHANGED <<memory, errorOccurred, value, frames, myInfoPtr, shut, shutTwice, misled,
                         outerStopped, deadRefCon, listLeft, careless>>
      BY <2>2, <2>3 DEF CrashClosing
    <3> HIDE DEF i, n
    <3>2. TypeOK'
      BY <1>5, <2>1, <2>2, <2>3, <3>1 DEF Closing, TypeOK, CrashClosing
    <3>3. CallbacksAreLive'
      BY <2>1, <3>1 DEF Closing, TypeOK, CallbacksAreLive
    <3> QED
      BY <3>1, <3>2, <3>3 DEF FramesKept, HeldKept, Held
  <2>4. CASE ReturnBlock(i) \/ ReturnNull(i)
    <3>1. /\ frames' = SubSeq(frames, 1, n - 1)
          /\ value' = [value EXCEPT ![i] = FALSE]
          /\ shut' = FALSE
          /\ myInfoPtr' \in {i, NoInfo} /\ misled' \in BOOLEAN
          /\ UNCHANGED <<memory, isConnected, errorOccurred, isClientSet, stream, shutTwice,
                         outerStopped, deadRefCon, listLeft, crashed, careless>>
      BY <2>1, <2>2, <2>4 DEF ReturnBlock, ReturnNull, Return, TypeOK
    <3>2. /\ frames' \in Seq(Frame)
          /\ Len(frames') = n - 1
          /\ \A k \in 1..(n - 1) : frames'[k] = frames[k]
      <4>1. \A k \in 1..(n - 1) : frames[k] \in Frame
        BY <1>0, ElementOfSeq
      <4>2. 1 \in Int /\ n - 1 \in Int
        BY <1>0
      <4> HIDE DEF n
      <4>3. /\ SubSeq(frames, 1, n - 1) \in Seq(Frame)
            /\ Len(SubSeq(frames, 1, n - 1)) = IF 1 <= n - 1 THEN (n - 1) - 1 + 1 ELSE 0
            /\ \A k \in 1..((n - 1) - 1 + 1) :
                 SubSeq(frames, 1, n - 1)[k] = frames[1 + k - 1]
        BY <4>1, <4>2, SubSeqProperties
      <4> QED
        BY <1>0, <2>1, <3>1, <4>2, <4>3
    <3>3. TypeOK'
      BY <2>1, <3>1, <3>2 DEF TypeOK
    <3>4. \A k \in 1..Len(frames') : k \in 1..(n - 1) /\ k \in 1..Len(frames)
      BY <1>0, <3>2
    <3>5. ~shutTwice => \A k \in 1..(n - 1) :
            /\ frames[k].info # i /\ frames[k].info \in Infos
            /\ memory[frames[k].info] = "live" /\ value[frames[k].info]
      BY <1>0, <1>a, <2>1 DEF FramesKept
    <3>6. FramesKept'
      <4> SUFFICES ASSUME ~shutTwice'
                   PROVE  /\ \A k \in 1..Len(frames') :
                               memory'[frames'[k].info] = "live" /\ value'[frames'[k].info]
                          /\ \A j, k \in 1..Len(frames') :
                               frames'[j].info = frames'[k].info => j = k
        BY DEF FramesKept
      <4>1. \A k \in 1..(n - 1) : memory'[frames[k].info] = "live" /\ value'[frames[k].info]
        BY <3>1, <3>5 DEF TypeOK
      <4>2. \A j, k \in 1..Len(frames') : frames'[j].info = frames'[k].info => j = k
        BY <3>1, <3>2, <3>4 DEF FramesKept
      <4> QED
        BY <3>2, <3>4, <4>1, <4>2
    <3>7. HeldKept'
      <4> SUFFICES ASSUME ~shutTwice', Held'
                   PROVE  /\ memory'[myInfoPtr'] = "live"
                          /\ \A k \in 1..Len(frames') : frames'[k].info # myInfoPtr'
        BY DEF HeldKept
      <4>1. myInfoPtr' = i /\ memory[i] = "live"
        BY <2>1, <3>1 DEF Held, FramesKept
      <4> QED
        BY <3>1, <3>2, <3>4, <3>5, <4>1
    <3> QED
      BY <3>1, <3>3, <3>6, <3>7 DEF CallbacksAreLive
  <2> QED
    BY <2>2, <2>3, <2>4
<1>6. CASE ShutdownWWAN
  <2>1. /\ myInfoPtr \in Infos
        /\ shut' = TRUE /\ shutTwice' = (shutTwice \/ shut)
        /\ UNCHANGED <<frames, outerStopped, myInfoPtr, deadRefCon, listLeft, misled>>
        /\ careless' = (careless \/ frames # <<>> \/ ~Held)
    BY <1>6 DEF ShutdownWWAN, ShutsDown, TypeOK
  <2>2. HeldKept' /\ (shutTwice' => careless')
    BY <2>1 DEF HeldKept, Held
  <2>3. CASE /\ memory[myInfoPtr] = "live"
             /\ Closing(myInfoPtr)
             /\ memory' = [memory EXCEPT ![myInfoPtr] = "free"]
             /\ UNCHANGED <<errorOccurred, value, crashed>>
    <3>1. TypeOK'
      BY <2>1, <2>3 DEF Closing, TypeOK
    <3>2. CallbacksAreLive'
      BY <2>1, <2>3 DEF Closing, TypeOK, CallbacksAreLive
    <3>3. FramesKept'
      <4> SUFFICES ASSUME ~shutTwice'
                   PROVE  \A k \in 1..Len(frames) : memory'[frames[k].info] = "live"
        BY <2>1, <2>3 DEF FramesKept
      <4>1. \A k \in 1..Len(frames) : frames[k].info # myInfoPtr /\ memory[frames[k].info] = "live"
        BY <2>1 DEF FramesKept, HeldKept, Held
      <4> QED
        BY <1>a, <2>3, <4>1 DEF TypeOK
    <3> QED
      BY <2>2, <3>1, <3>2, <3>3
  <2>4. CASE memory[myInfoPtr] = "free" /\ crashed' \in BOOLEAN /\ UNCHANGED fields
    <3>1. TypeOK'
      BY <2>1, <2>4 DEF fields, TypeOK
    <3> QED
      BY <2>1, <2>2, <2>4, <3>1 DEF fields, CallbacksAreLive, FramesKept
  <2> QED
    BY <1>6, <2>3, <2>4 DEF ShutdownWWAN
<1>7. CASE UNCHANGED vars
  <2>1. TypeOK' /\ CallbacksAreLive'
    BY <1>7 DEF vars, fields, TypeOK, CallbacksAreLive
  <2> QED
    BY <1>7, <2>1 DEF vars, fields, FramesKept, HeldKept, Held
<1> QED
  BY <1>1, <1>2, <1>3, <1>4, <1>5, <1>6, <1>7 DEF Next

LEMMA Invariance == Spec => []IInv
  BY InitIInv, NextIInv, PTL DEF Spec
-----------------------------------------------------------------------------
(* Every field keeps its type, and every frame works for a block.          *)
THEOREM TypeCorrect == Spec => []TypeOK
  BY Invariance, PTL DEF IInv

(* CFStream never calls back with a freed block: StopWWAN unregisters the  *)
(* callback before it frees (wwanconnect.c lines 216-252), and no other    *)
(* path of the two files frees and goes on.                                *)
THEOREM CallbacksLive == Spec => []CallbacksAreLive
  BY Invariance, PTL DEF IInv

(* Until the client shuts one connection down twice, no -shutdownWWAN frees*)
(* the block of a StartWWAN that is still running its loop, though malloc  *)
(* may return the very block the global names (UIDevice-Reachability.m     *)
(* lines 316-327, wwanconnect.c line 120).                                 *)
THEOREM BlocksKept == Spec => []StartKeepsBlock
<1>1. IInv => StartKeepsBlock
  <2> SUFFICES ASSUME IInv PROVE StartKeepsBlock
    OBVIOUS
  <2>1. DOMAIN frames = 1..Len(frames)
    BY LenProperties DEF IInv, TypeOK
  <2> QED
    BY <2>1 DEF IInv, FramesKept, StartKeepsBlock, InProgress
<1> QED
  BY <1>1, Invariance, PTL
-----------------------------------------------------------------------------
LEMMA NextOpened ==
  ASSUME IInv, ConnectedWasOpened, [Next]_vars
  PROVE  ConnectedWasOpened'
<1> USE DEF IInv, TypeOK, ConnectedWasOpened
<1>1. ASSUME NEW i \in Infos, ForceWWAN(i) \/ ForceFailsAtOnce(i)
      PROVE ConnectedWasOpened'
  BY <1>1 DEF ForceWWAN, ForceFailsAtOnce, Allocate
<1>2. ASSUME NEW i \in Infos, OpenCompleted(i) \/ ErrorOccurred(i) \/ EndEncountered(i)
      PROVE ConnectedWasOpened'
  BY <1>2 DEF OpenCompleted, ErrorOccurred, EndEncountered
<1>3. CASE StartReturns
  <2>1. UNCHANGED <<isConnected, stream>> \/ Closing(Last.info)
    BY <1>3 DEF StartReturns, ReturnBlock, ReturnNull, Return, CrashClosing
  <2> QED
    BY <2>1 DEF Closing
<1>4. CASE ShutdownWWAN
  BY <1>4 DEF ShutdownWWAN, Closing, fields
<1> QED
  BY <1>1, <1>2, <1>3, <1>4 DEF Next, ForceOutOfMemory, vars, fields

(* What a block says of its connection was true once, for any client.      *)
THEOREM ConnectedOpened == Spec => []ConnectedWasOpened
<1>1. Init => ConnectedWasOpened
  BY DEF Init, ConnectedWasOpened
<1>2. IInv /\ ConnectedWasOpened /\ [Next]_vars => ConnectedWasOpened'
  BY NextOpened
<1> QED
  BY <1>1, <1>2, Invariance, PTL DEF Spec
-----------------------------------------------------------------------------
(* What a careful client cannot see in the types: it waits for at most one *)
(* block, and every other live block is held and connected.                *)
OneConnection ==
  /\ Len(frames) \in {0, 1}
  /\ Len(frames) = 1 => ~Held
  /\ Len(frames) = 1 => \A i \in Infos : memory[i] = "live" => i = frames[1].info
  /\ Len(frames) = 0 => \A i \in Infos :
       memory[i] = "live" => Held /\ i = myInfoPtr /\ isConnected[i]
  /\ \A i \in Infos : isClientSet[i] /\ stream[i] = "opening" =>
       Len(frames) = 1 /\ frames[1].info = i /\ ~frames[1].stopped
  /\ Len(frames) = 1 /\ frames[1].stopped =>
       isConnected[frames[1].info] \/ errorOccurred[frames[1].info]
  /\ \A i \in Infos : isClientSet[i] /\ stream[i] = "open" => isConnected[i]

CarefulInv ==
  ~careless => /\ ~misled
               /\ ~deadRefCon
               /\ ~crashed => OneConnection

LEMMA InitCareful == Init => CarefulInv
<1> SUFFICES ASSUME Init PROVE CarefulInv
  OBVIOUS
<1>1. Len(frames) = 0
  BY DEF Init
<1> QED
  BY <1>1 DEF Init, CarefulInv, OneConnection, Held

LEMMA NextCareful ==
  ASSUME IInv, IInv', CarefulInv, [Next]_vars
  PROVE  CarefulInv'
<1> SUFFICES ASSUME ~careless'
             PROVE  /\ ~misled'
                    /\ ~deadRefCon'
                    /\ ~crashed' => OneConnection'
  BY DEF CarefulInv
<1> USE WWANAssumption DEF past, loops
<1>0. /\ frames \in Seq(Frame) /\ Len(frames) \in Nat
      /\ frames' \in Seq(Frame) /\ Len(frames') \in Nat
  BY LenProperties DEF IInv, TypeOK
<1>e. frames = <<>> <=> Len(frames) = 0
  BY <1>0, EmptySeq
<1>f. Len(frames) = 1 => frames[1].info \in Infos /\ frames[1].stopped \in BOOLEAN
  <2>1. Len(frames) = 1 => 1 \in 1..Len(frames)
    OBVIOUS
  <2>2. Len(frames) = 1 => frames[1] \in Frame
    BY <1>0, <2>1, ElementOfSeq
  <2> QED
    BY <2>2 DEF Frame
<1>c. ~careless
  BY DEF Next, ForceWWAN, ForceFailsAtOnce, ForceOutOfMemory, Forces, OpenCompleted,
         ErrorOccurred, EndEncountered, StartReturns, ShutdownWWAN, ShutsDown, vars
<1>k. /\ ~misled
      /\ ~deadRefCon
      /\ ~crashed => OneConnection
  BY <1>c DEF CarefulInv
<1>t. ~shutTwice
  BY <1>c DEF IInv
<1>l. Len(frames) = 1 => memory[frames[1].info] = "live" /\ value[frames[1].info]
  BY <1>t DEF IInv, FramesKept
<1>1. ASSUME NEW i \in Infos, ForceWWAN(i)
      PROVE  UNCHANGED <<misled, deadRefCon, crashed>> /\ OneConnection'
  <2>1. frames = <<>> /\ ~Held /\ ~crashed
    BY <1>1 DEF ForceWWAN, Forces
  <2>2. /\ Len(frames') = 1
        /\ frames'[1].info = i /\ frames'[1].stopped = FALSE
    BY <1>0, <1>1, <1>e, <2>1, AppendProperties DEF ForceWWAN, Frame
  <2>3. \A j \in Infos : memory[j] # "live"
    BY <1>e, <1>k, <2>1 DEF OneConnection
  <2>4. ~Held'
    BY <1>1, <2>1 DEF ForceWWAN, Held
  <2>5. \A j \in Infos : /\ memory'[j] = "live" => j = i
                         /\ isClientSet'[j] => j = i
    BY <1>1, <2>3 DEF ForceWWAN, Allocate, IInv, TypeOK, CallbacksAreLive
  <2> QED
    <3>1. stream'[i] = "opening" /\ UNCHANGED <<misled, deadRefCon, crashed>>
      BY <1>1 DEF ForceWWAN, IInv, TypeOK
    <3> QED
      BY <2>2, <2>4, <2>5, <3>1 DEF OneConnection
<1>2. ASSUME NEW i \in Infos, ForceFailsAtOnce(i)
      PROVE  UNCHANGED <<misled, deadRefCon>> /\ crashed'
  BY <1>2 DEF ForceFailsAtOnce
<1>3. CASE ForceOutOfMemory
  <2>1. frames = <<>> /\ ~Held /\ ~crashed
    BY <1>3 DEF ForceOutOfMemory, Forces
  <2>2. \A j \in Infos : memory[j] # "live"
    BY <1>e, <1>k, <2>1 DEF OneConnection
  <2>3. UNCHANGED <<memory, isConnected, errorOccurred, isClientSet, stream, frames,
                    misled, deadRefCon, crashed>> /\ myInfoPtr' = NoInfo
    BY <1>3 DEF ForceOutOfMemory, fields
  <2>4. OneConnection'
    BY <1>e, <1>k, <2>1, <2>2, <2>3 DEF OneConnection, Held
  <2> QED
    BY <1>k, <2>3, <2>4
<1>4. ASSUME NEW i \in Infos, OpenCompleted(i) \/ ErrorOccurred(i) \/ EndEncountered(i)
      PROVE  /\ UNCHANGED misled
             /\ ~deadRefCon'
             /\ ~crashed' => OneConnection'
  <2>1. /\ ~crashed
        /\ UNCHANGED <<memory, isClientSet, value, misled, myInfoPtr, shut>>
        /\ isClientSet[i]
        /\ stream'[i] \in {"open", "ended"}
    BY <1>4 DEF OpenCompleted, ErrorOccurred, EndEncountered, IInv, TypeOK
  <2>2. OneConnection
    BY <1>k, <2>1
  <2>9. ~deadRefCon'
    <3>1. CASE OpenCompleted(i)
      <4>1. Len(frames) = 1 /\ frames[1].info = i
        BY <2>1, <2>2, <3>1 DEF OpenCompleted, OneConnection
      <4> QED
        BY <1>k, <1>l, <3>1, <4>1 DEF OpenCompleted
    <3>2. CASE ErrorOccurred(i) \/ EndEncountered(i)
      BY <1>k, <3>2 DEF ErrorOccurred, EndEncountered
    <3> QED
      BY <1>4, <3>1, <3>2
  <2> SUFFICES ASSUME ~crashed' PROVE OneConnection'
    BY <2>1, <2>9
  <2>s. StopInnermostLoop
    BY <1>4 DEF OpenCompleted, ErrorOccurred, EndEncountered, WalkCrashes
  <2>3. /\ Len(frames') = Len(frames)
        /\ Len(frames) = 1 => frames'[1].info = frames[1].info
    BY <1>0, <2>s, StopKeeps DEF IInv, TypeOK
  <2>4. Len(frames) = 1 => i = frames[1].info
    BY <2>1, <2>2 DEF OneConnection, IInv, CallbacksAreLive
  <2>5. isConnected'[i] \/ errorOccurred'[i]
    BY <1>4, <2>1, <2>2 DEF OpenCompleted, ErrorOccurred, EndEncountered, IInv, TypeOK,
                            OneConnection
  <2>6. \A j \in Infos : isConnected[j] => isConnected'[j]
    BY <1>4 DEF OpenCompleted, ErrorOccurred, EndEncountered, IInv, TypeOK
  <2>7. \A j \in Infos : j # i => stream'[j] = stream[j] /\ isConnected'[j] = isConnected[j]
    BY <1>4 DEF OpenCompleted, ErrorOccurred, EndEncountered, IInv, TypeOK
  <2>8. stream'[i] = "open" => isConnected'[i]
    BY <1>4, <2>2 DEF OpenCompleted, ErrorOccurred, EndEncountered, IInv, TypeOK
  <2>10. Held' = Held
    BY <2>1 DEF Held
  <2> QED
    BY <1>f, <2>1, <2>2, <2>3, <2>4, <2>5, <2>6, <2>7, <2>8, <2>10
    DEF OneConnection, IInv, CallbacksAreLive
<1>5. CASE StartReturns
  <2> DEFINE i == frames[1].info
  <2>1. ~crashed /\ Len(frames) = 1 /\ OneConnection /\ Last = frames[1] /\ frames[1].stopped
    BY <1>5, <1>e, <1>k DEF StartReturns, OneConnection, Last
  <2>2. memory[i] = "live"
    BY <1>l, <2>1
  <2>3. CASE CrashClosing(i)
    BY <1>5, <1>k, <2>3 DEF StartReturns, CrashClosing
  <2>4. CASE ~errorOccurred[i] /\ ReturnBlock(i)
    <3>1. /\ frames' = SubSeq(frames, 1, 0)
          /\ myInfoPtr' = i /\ shut' = FALSE
          /\ isConnected[i] /\ UNCHANGED misled
          /\ UNCHANGED <<memory, isConnected, errorOccurred, isClientSet, stream,
                         deadRefCon, crashed>>
      BY <1>5, <1>k, <2>1, <2>4 DEF StartReturns, OneConnection, ReturnBlock, Return, IInv, TypeOK
    <3>2. frames' = <<>> /\ Len(frames') = 0
      BY <3>1
    <3>3. Held'
      BY <1>f, <2>1, <3>1 DEF Held
    <3>4. OneConnection'
      BY <1>f, <2>1, <3>1, <3>2, <3>3 DEF OneConnection
    <3> QED
      BY <1>k, <3>1, <3>4
  <2> QED
    BY <1>5, <2>1, <2>2, <2>3, <2>4 DEF StartReturns
<1>6. CASE ShutdownWWAN
  <2>1. /\ ~crashed /\ OneConnection /\ Held /\ Len(frames) = 0
        /\ myInfoPtr \in Infos
    BY <1>6, <1>e, <1>k DEF ShutdownWWAN, ShutsDown, IInv, TypeOK
  <2>2. memory[myInfoPtr] = "live"
    BY <1>t, <2>1 DEF IInv, HeldKept
  <2>3. /\ Closing(myInfoPtr)
        /\ memory' = [memory EXCEPT ![myInfoPtr] = "free"]
        /\ UNCHANGED <<errorOccurred, crashed, misled, frames, myInfoPtr, deadRefCon>>
    BY <1>6, <2>2 DEF ShutdownWWAN
  <2>4. \A j \in Infos : memory'[j] # "live"
    BY <2>1, <2>3 DEF OneConnection, IInv, TypeOK
  <2>5. \A j \in Infos : ~isClientSet'[j]
    BY <2>4 DEF IInv, CallbacksAreLive
  <2>6. OneConnection'
    BY <2>1, <2>3, <2>4, <2>5 DEF OneConnection
  <2> QED
    BY <1>k, <2>3, <2>6
<1>7. CASE UNCHANGED vars
  BY <1>7, <1>k DEF vars, fields, OneConnection, Held
<1> QED
  BY <1>1, <1>2, <1>3, <1>4, <1>5, <1>6, <1>7, <1>k DEF Next

LEMMA CarefulInvariance == Spec => []CarefulInv
<1>1. IInv /\ IInv' /\ CarefulInv /\ [Next]_vars => CarefulInv'
  BY NextCareful
<1> QED
  BY <1>1, InitCareful, Invariance, PTL DEF Spec

(* An answer YES means the connection was made, for a careful client.      *)
THEOREM ResultTrue == Spec => []ResultMeansConnected
<1>1. CarefulInv => ResultMeansConnected
  BY DEF CarefulInv, ResultMeansConnected
<1> QED
  BY <1>1, CarefulInvariance, PTL

(* The client callback reads no finished stack frame of a careful client.  *)
THEOREM RefConAlive == Spec => []RefConInScope
<1>1. CarefulInv => RefConInScope
  BY DEF CarefulInv, RefConInScope
<1> QED
  BY <1>1, CarefulInvariance, PTL

(* A careful client can shut down every connection it made.                *)
THEOREM NoConnectionLost == Spec => []NothingLost
<1>1. IInv /\ CarefulInv => NothingLost
  <2> SUFFICES ASSUME IInv, CarefulInv, ~careless, ~crashed,
                      NEW i \in Infos, memory[i] = "live"
               PROVE  i \in InProgress \/ i = myInfoPtr
    BY DEF NothingLost
  <2>1. OneConnection
    BY DEF CarefulInv
  <2>2. CASE Len(frames) = 1
    <3>1. i = frames[1].info /\ 1 \in DOMAIN frames
      BY <2>1, <2>2, LenProperties DEF OneConnection, IInv, TypeOK
    <3> QED
      BY <3>1 DEF InProgress
  <2>3. CASE Len(frames) = 0
    BY <2>1, <2>3 DEF OneConnection
  <2> QED
    BY <2>1, <2>2, <2>3 DEF OneConnection
<1> QED
  BY <1>1, Invariance, CarefulInvariance, PTL
-----------------------------------------------------------------------------
LEMMA StepOuterLoop ==
  ASSUME IInv, CarefulInv, [Next]_vars, outerStopped' # outerStopped, ~careless
  PROVE  \E i \in Infos : stream[i] = "open" /\ stream'[i] = "ended"
<1>1. PICK i \in Infos : OpenCompleted(i) \/ ErrorOccurred(i) \/ EndEncountered(i)
  BY DEF Next, ForceWWAN, ForceFailsAtOnce, ForceOutOfMemory, StartReturns, ShutdownWWAN, vars,
         loops
<1>2. OneConnection /\ isClientSet[i]
  BY <1>1 DEF CarefulInv, OpenCompleted, ErrorOccurred, EndEncountered
<1>3. StopInnermostLoop
  BY <1>1 DEF OpenCompleted, ErrorOccurred, EndEncountered, loops
<1>4. frames = <<>> /\ Len(frames) = 0
  BY <1>3 DEF StopInnermostLoop
<1>5. stream[i] # "opening"
  BY <1>2, <1>4 DEF OneConnection
<1> QED
  BY <1>1, <1>5 DEF OpenCompleted, ErrorOccurred, EndEncountered, IInv, TypeOK

(* Before a client is careless, only the end of a connection it had made   *)
(* can stop the application's own run loop.                                *)
THEOREM OuterLoopKept == Spec => OuterLoopSafe
<1>1. IInv /\ CarefulInv /\ [Next]_vars =>
        [outerStopped' # outerStopped /\ ~careless =>
           \E i \in Infos : stream[i] = "open" /\ stream'[i] = "ended"]_vars
  BY StepOuterLoop
<1> QED
  BY <1>1, Invariance, CarefulInvariance, PTL DEF Spec, OuterLoopSafe
-----------------------------------------------------------------------------
(* The promise, state by state and step by step.                           *)
LEMMA ConnectionIs ==
  ASSUME IInv, CarefulInv, ~careless, ~crashed
  PROVE  /\ frames # <<>> <=> Connection = "forcing"
         /\ frames = <<>> /\ Held => Connection = "held"
         /\ frames = <<>> /\ ~Held => Connection = "idle"
<1>1. OneConnection
  BY DEF CarefulInv
<1>2. frames = <<>> => Len(frames) = 0
  OBVIOUS
<1>3. frames = <<>> /\ Held => \E i \in Infos : memory[i] = "live" /\ i = myInfoPtr /\ isConnected[i]
  <2>1. Held => memory[myInfoPtr] = "live" /\ myInfoPtr \in Infos
    BY DEF IInv, HeldKept, Held, TypeOK
  <2> QED
    BY <1>1, <1>2, <2>1 DEF OneConnection
<1>4. frames = <<>> /\ ~Held => \A i \in Infos : memory[i] # "live"
  BY <1>1, <1>2, WWANAssumption DEF OneConnection, Held
<1> QED
  BY <1>3, <1>4 DEF Connection

(* To a careful client StartWWAN returns its block, or the program ends.   *)
LEMMA ReturnIsBlock ==
  ASSUME IInv, ~careless, ~crashed', StartReturns
  PROVE  ReturnBlock(Last.info)
<1>1. Len(frames) \in 1..Len(frames)
  BY LenProperties, EmptySeq DEF IInv, TypeOK, StartReturns
<1>2. memory[Last.info] = "live"
  BY <1>1 DEF IInv, FramesKept, Last
<1> QED
  BY <1>2 DEF StartReturns, CrashClosing

LEMMA PromiseStep ==
  ASSUME IInv, IInv', CarefulInv, CarefulInv', [Next]_vars
  PROVE  [Promise!Next]_(Promise!vars)
<1>1. CASE (careless \/ crashed)'
  BY <1>1 DEF Promise!Void, Promise!Next, Connection
<1>2. CASE ~(careless \/ crashed)'
  <2>1. ~careless /\ ~crashed
    <3>1. careless => careless'
      BY DEF Next, ForceWWAN, ForceFailsAtOnce, ForceOutOfMemory, Forces, OpenCompleted,
             ErrorOccurred, EndEncountered, StartReturns, ShutdownWWAN, ShutsDown, vars
    <3>2. crashed => crashed'
      BY DEF Next, ForceWWAN, ForceFailsAtOnce, ForceOutOfMemory, Forces, OpenCompleted,
             ErrorOccurred, EndEncountered, StartReturns, ShutdownWWAN, ShutsDown, vars
    <3> QED
      BY <1>2, <3>1, <3>2
  <2>2. /\ frames # <<>> <=> Connection = "forcing"
        /\ frames = <<>> /\ Held => Connection = "held"
        /\ frames = <<>> /\ ~Held => Connection = "idle"
    BY <2>1, ConnectionIs
  <2>3. /\ frames' # <<>> <=> Connection' = "forcing"
        /\ frames' = <<>> /\ Held' => Connection' = "held"
        /\ frames' = <<>> /\ ~Held' => Connection' = "idle"
    <3>1. OneConnection'
      BY <1>2 DEF CarefulInv
    <3>2. frames' = <<>> => Len(frames') = 0
      OBVIOUS
    <3>3. frames' = <<>> /\ Held' =>
            \E i \in Infos : memory'[i] = "live" /\ i = myInfoPtr' /\ isConnected'[i]
      <4>1. Held' => memory'[myInfoPtr'] = "live" /\ myInfoPtr' \in Infos
        BY <1>2 DEF IInv, HeldKept, Held, TypeOK
      <4> QED
        BY <3>1, <3>2, <4>1 DEF OneConnection
    <3>4. frames' = <<>> /\ ~Held' => \A i \in Infos : memory'[i] # "live"
      BY <3>1, <3>2, WWANAssumption DEF OneConnection, Held
    <3> QED
      BY <3>3, <3>4 DEF Connection
  <2>4. UNCHANGED (careless \/ crashed)
    BY <1>2, <2>1
  <2> USE DEF Promise!Next, Promise!vars
  <2>5. ASSUME NEW i \in Infos, ForceWWAN(i) PROVE Promise!Force
    <3>1. frames = <<>> /\ ~Held /\ Len(frames') # 0
      <4>1. frames = <<>> /\ ~Held
        BY <1>2, <2>5 DEF ForceWWAN, Forces
      <4>2. frames' = Append(frames, [info |-> i, stopped |-> FALSE])
        BY <2>5 DEF ForceWWAN
      <4>3. Len(frames) \in Nat /\ Len(frames') = Len(frames) + 1
        BY <4>2, AppendProperties, LenProperties DEF IInv, TypeOK, Frame
      <4> QED
        BY <4>1, <4>3
    <3>2. frames' # <<>>
      BY <3>1
    <3> QED
      BY <2>2, <2>3, <2>4, <3>1, <3>2 DEF Promise!Force
  <2>6. ASSUME NEW i \in Infos, ForceFailsAtOnce(i) PROVE FALSE
    BY <1>2, <2>6 DEF ForceFailsAtOnce
  <2>7. CASE ForceOutOfMemory
    <3>1. frames = <<>> /\ ~Held /\ frames' = <<>> /\ ~Held'
      BY <1>2, <2>7 DEF ForceOutOfMemory, Forces, Held, loops
    <3> QED
      BY <2>2, <2>3, <2>4, <3>1
  <2>8. ASSUME NEW i \in Infos, OpenCompleted(i) \/ ErrorOccurred(i) \/ EndEncountered(i)
        PROVE  UNCHANGED (Promise!vars)
    <3>1. StopInnermostLoop /\ UNCHANGED <<myInfoPtr, shut>>
      BY <1>2, <2>8 DEF OpenCompleted, ErrorOccurred, EndEncountered, WalkCrashes, past
    <3>2. Len(frames') = Len(frames)
      BY <3>1, StopKeeps DEF IInv, TypeOK
    <3>3. (frames = <<>> <=> frames' = <<>>) /\ Held' = Held
      BY <3>1, <3>2, EmptySeq DEF Held, IInv, TypeOK
    <3> QED
      BY <2>2, <2>3, <2>4, <3>3
  <2>9. CASE StartReturns
    <3>1. frames # <<>> /\ Len(frames) = 1 /\ OneConnection
      BY <2>1, <2>9, EmptySeq DEF StartReturns, CarefulInv, OneConnection, IInv, TypeOK
    <3>2. /\ frames' = SubSeq(frames, 1, 0) /\ myInfoPtr' = frames[1].info
          /\ shut' = FALSE
      <4>1. ReturnBlock(Last.info)
        BY <1>2, <2>1, <2>9, ReturnIsBlock
      <4>2. Last = frames[1]
        BY <3>1 DEF Last
      <4> QED
        BY <3>1, <4>1, <4>2 DEF ReturnBlock, Return
    <3>3. frames' = <<>>
      BY <3>2
    <3>4. frames[1].info \in Infos
      <4>1. 1 \in 1..Len(frames)
        BY <3>1
      <4>2. frames[1] \in Frame
        BY <4>1, ElementOfSeq DEF IInv, TypeOK
      <4> QED
        BY <4>2 DEF Frame
    <3>5. Held'
      BY <3>2, <3>4, WWANAssumption DEF Held
    <3> QED
      BY <2>1, <2>2, <2>3, <2>4, <3>1, <3>3, <3>5 DEF Promise!Connect
  <2>10. CASE ShutdownWWAN
    <3>1. Held /\ frames = <<>>
      BY <1>2, <2>10 DEF ShutdownWWAN, ShutsDown
    <3>2. shut' /\ UNCHANGED frames
      BY <2>10 DEF ShutdownWWAN, loops
    <3>3. ~Held'
      BY <3>2 DEF Held
    <3> QED
      BY <2>2, <2>3, <2>4, <3>1, <3>2, <3>3 DEF Promise!Shutdown
  <2>11. CASE UNCHANGED vars
    <3>1. frames' = frames /\ Held' = Held
      BY <2>11 DEF vars, loops, past, Held
    <3> QED
      BY <2>2, <2>3, <2>4, <3>1
  <2> QED
    BY <2>5, <2>6, <2>7, <2>8, <2>9, <2>10, <2>11 DEF Next
<1> QED
  BY <1>1, <1>2

(* One connection, idle, being forced or held: the two files keep the      *)
(* promise of the header to a careful client, for any number of blocks.    *)
THEOREM KeepsConnectionSafely == Spec => Promise!Init /\ [][Promise!Next]_(Promise!vars)
<1>1. Init => Promise!Init
  BY DEF Init, Promise!Init, Connection
<1>2. IInv /\ IInv' /\ CarefulInv /\ CarefulInv' /\ [Next]_vars => [Promise!Next]_(Promise!vars)
  BY PromiseStep
<1> QED
  BY <1>1, <1>2, Invariance, CarefulInvariance, PTL DEF Spec
-----------------------------------------------------------------------------
(* The other half: what is forced is held in the end. A careful client is  *)
(* inside one call, whose loop runs until the open of its own stream ends  *)
(* and is stopped from then on. That these two steps can happen when they  *)
(* are due is ForcingGoesOn, which is assumed: it speaks of ENABLED.       *)
InCall == ~careless /\ ~crashed /\ frames # <<>>
LoopRuns(i) == InCall /\ frames[1].info = i /\ ~frames[1].stopped
LoopStopped == InCall /\ frames[1].stopped

LEMMA OneFrame ==
  ASSUME IInv, CarefulInv, InCall
  PROVE  /\ Len(frames) = 1 /\ Last = frames[1] /\ OneConnection
         /\ frames[1].info \in Infos /\ frames[1].stopped \in BOOLEAN
<1>1. OneConnection
  BY DEF CarefulInv, InCall
<1>2. frames \in Seq(Frame) /\ Len(frames) # 0
  BY EmptySeq DEF IInv, TypeOK, InCall
<1>3. Len(frames) = 1
  BY <1>1, <1>2 DEF OneConnection
<1>4. frames[1] \in Frame
  BY <1>2, <1>3, ElementOfSeq
<1> QED
  BY <1>1, <1>3, <1>4 DEF Last, Frame

(* While a careful client stays inside its call the frame keeps its block; *)
(* a loop that was stopped stays so, and every end of an open stops it.    *)
LEMMA CallStep ==
  ASSUME IInv, IInv', CarefulInv, CarefulInv', InCall, InCall', [Next]_vars
  PROVE  /\ frames'[1].info = frames[1].info
         /\ frames[1].stopped => frames'[1].stopped
         /\ OpenEnds(frames[1].info) => frames'[1].stopped
         /\ ~StartReturns
<1>1. /\ Len(frames) = 1 /\ Last = frames[1] /\ OneConnection
      /\ frames[1].info \in Infos /\ frames[1].stopped \in BOOLEAN
  BY OneFrame
<1>2. ASSUME NEW i \in Infos, OpenCompleted(i) \/ ErrorOccurred(i) \/ EndEncountered(i)
      PROVE  frames'[1].info = frames[1].info /\ frames'[1].stopped
  <2>1. StopInnermostLoop
    BY <1>2 DEF OpenCompleted, ErrorOccurred, EndEncountered, WalkCrashes, InCall
  <2>2. frames' = [frames EXCEPT ![1].stopped = TRUE]
    BY <1>1, <2>1 DEF StopInnermostLoop, InCall
  <2>3. frames \in [1..1 -> Frame]
    BY <1>1, LenProperties DEF IInv, TypeOK
  <2> QED
    BY <2>2, <2>3 DEF Frame
<1>3. ~StartReturns
  <2> SUFFICES ASSUME StartReturns PROVE FALSE
    OBVIOUS
  <2>1. frames' = SubSeq(frames, 1, 0)
    BY <1>1, ReturnIsBlock DEF InCall, ReturnBlock, Return
  <2> QED
    BY <2>1 DEF InCall
<1>4. OpenEnds(frames[1].info) => frames'[1].stopped
  BY <1>1, <1>2 DEF OpenEnds
<1>5. ASSUME NEW i \in Infos PROVE ~ForceWWAN(i) /\ ~ForceFailsAtOnce(i)
  BY DEF InCall, ForceWWAN, ForceFailsAtOnce, Forces
<1>6. ~ForceOutOfMemory /\ ~ShutdownWWAN
  BY DEF InCall, ForceOutOfMemory, Forces, ShutdownWWAN, ShutsDown
<1>7. CASE UNCHANGED vars
  BY <1>3, <1>4, <1>7 DEF vars, loops
<1> QED
  BY <1>2, <1>3, <1>4, <1>5, <1>6, <1>7 DEF Next

(* A careful client is outside its call, or the promise is kept or void.   *)
LEMMA CallEnds ==
  ASSUME IInv, IInv', CarefulInv, CarefulInv', InCall, [Next]_vars
  PROVE  InCall' \/ Promise!Settled'
<1>1. Connection = "forcing"
  BY ConnectionIs DEF InCall
<1>2. [Promise!Next]_(Promise!vars)
  BY PromiseStep
<1>3. Connection' = "forcing" \/ Promise!Settled'
  BY <1>1, <1>2
  DEF Promise!Next, Promise!vars, Promise!Force, Promise!Connect, Promise!Shutdown,
      Promise!Void, Promise!Settled
<1>4. CASE ~Promise!Settled'
  <2>1. ~careless' /\ ~crashed' /\ Connection' = "forcing"
    BY <1>3, <1>4 DEF Promise!Settled
  <2>2. frames' # <<>>
    <3> SUFFICES ASSUME frames' = <<>> PROVE FALSE
      OBVIOUS
    <3>1. Connection' # "forcing"
      BY DEF Connection
    <3> QED
      BY <2>1, <3>1
  <2> QED
    BY <2>1, <2>2 DEF InCall
<1> QED
  BY <1>4

(* No end of an open is lost: the loop of a careful client's call runs on  *)
(* only while the stream opens and has its callback, so that OpenCompleted *)
(* or ErrorOccurred is due. It is what ForcingGoesOn says but the ENABLED. *)
OpenPending == \A i \in Infos : LoopRuns(i) => isClientSet[i] /\ stream[i] = "opening"

LEMMA NextPending ==
  ASSUME IInv, IInv', CarefulInv, CarefulInv', OpenPending, [Next]_vars
  PROVE  OpenPending'
<1> SUFFICES ASSUME NEW i \in Infos, LoopRuns(i)'
             PROVE  isClientSet'[i] /\ stream'[i] = "opening"
  BY DEF OpenPending
<1>1. InCall' /\ frames'[1].info = i /\ ~frames'[1].stopped
  BY DEF LoopRuns
<1>2. CASE ~InCall
  <2>1. ~careless /\ ~crashed
    <3> USE DEF Next, ForceWWAN, ForceFailsAtOnce, ForceOutOfMemory, Forces, OpenCompleted,
                ErrorOccurred, EndEncountered, StartReturns, ShutdownWWAN, ShutsDown, vars
    <3>1. careless => careless'
      OBVIOUS
    <3>2. crashed => crashed'
      OBVIOUS
    <3> QED
      BY <1>1, <3>1, <3>2 DEF InCall
  <2>2. frames = <<>> /\ frames' # <<>>
    BY <1>1, <1>2, <2>1 DEF InCall
  <2>3. PICK j \in Infos : ForceWWAN(j)
    BY <2>2 DEF Next, ForceFailsAtOnce, ForceOutOfMemory, OpenCompleted, ErrorOccurred,
                EndEncountered, StopInnermostLoop, StartReturns, ShutdownWWAN, vars, loops
  <2>4. frames'[1].info = j
    BY <2>2, <2>3 DEF ForceWWAN
  <2> QED
    BY <1>1, <2>3, <2>4 DEF ForceWWAN, IInv, TypeOK
<1>3. CASE InCall
  <2>1. LoopRuns(i) /\ ~OpenEnds(i) /\ ~StartReturns
    BY <1>1, <1>3, CallStep, OneFrame DEF LoopRuns
  <2>2. isClientSet[i] /\ stream[i] = "opening"
    BY <2>1 DEF OpenPending
  <2>3. ASSUME NEW j \in Infos PROVE ~ForceWWAN(j) /\ ~ForceFailsAtOnce(j)
    BY <1>1, <1>3 DEF InCall, ForceWWAN, ForceFailsAtOnce, Forces
  <2>4. ~ForceOutOfMemory /\ ~ShutdownWWAN
    BY <1>1, <1>3 DEF InCall, ForceOutOfMemory, Forces, ShutdownWWAN, ShutsDown
  <2>5. ASSUME NEW j \in Infos, OpenCompleted(j) \/ ErrorOccurred(j) \/ EndEncountered(j)
        PROVE  isClientSet'[i] = isClientSet[i] /\ stream'[i] = stream[i]
    <3>1. ~OpenCompleted(i) /\ ~ErrorOccurred(i)
      BY <2>1, <2>2 DEF OpenEnds
    <3>2. ~EndEncountered(i)
      BY <2>2 DEF EndEncountered
    <3>3. j # i
      BY <2>5, <3>1, <3>2
    <3> QED
      BY <2>5, <3>3 DEF OpenCompleted, ErrorOccurred, EndEncountered, IInv, TypeOK
  <2>6. CASE UNCHANGED vars
    BY <2>2, <2>6 DEF vars, fields
  <2> QED
    BY <2>1, <2>2, <2>3, <2>4, <2>5, <2>6 DEF Next
<1> QED
  BY <1>2, <1>3

(* A careful client's call waits for nothing but its own open              *)
(* (wwanconnect.c lines 106-107, 188-196).                                 *)
THEOREM WaitsForItsOpen == Spec => []OpenPending
<1>1. Init => OpenPending
  BY DEF Init, OpenPending, LoopRuns, InCall
<1>2. IInv /\ IInv' /\ CarefulInv /\ CarefulInv' /\ OpenPending /\ [Next]_vars => OpenPending'
  BY NextPending
<1> QED
  BY <1>1, <1>2, Invariance, CarefulInvariance, PTL DEF Spec

Running ==
  /\ [][Next]_vars
  /\ Fairness
  /\ []IInv
  /\ []CarefulInv
  /\ []ForcingGoesOn

LEMMA OpenIsWaitedFor ==
  ASSUME NEW i \in Infos
  PROVE  Running => [](LoopRuns(i) => <>(LoopStopped \/ Promise!Settled))
<1> DEFINE Runs == LoopRuns(i)
           Over == LoopStopped \/ Promise!Settled
<1>1. IInv /\ IInv' /\ CarefulInv /\ CarefulInv' /\ Runs /\ [Next]_vars => Runs' \/ Over'
  <2> SUFFICES ASSUME IInv, IInv', CarefulInv, CarefulInv', Runs, [Next]_vars, InCall'
               PROVE  Runs' \/ Over'
    BY CallEnds DEF LoopRuns
  <2> QED
    BY CallStep DEF LoopRuns, LoopStopped
<1>2. IInv /\ IInv' /\ CarefulInv /\ CarefulInv' /\ Runs /\ <<OpenEnds(i)>>_vars => Over'
  <2> SUFFICES ASSUME IInv, IInv', CarefulInv, CarefulInv', Runs, OpenEnds(i) PROVE Over'
    OBVIOUS
  <2>1. [Next]_vars
    BY DEF OpenEnds, Next
  <2>2. InCall' => LoopStopped'
    BY <2>1, CallStep DEF LoopRuns, LoopStopped
  <2> QED
    BY <2>1, <2>2, CallEnds DEF LoopRuns
<1>3. IInv /\ CarefulInv /\ ForcingGoesOn /\ Runs => ENABLED <<OpenEnds(i)>>_vars
  <2> SUFFICES ASSUME IInv, CarefulInv, ForcingGoesOn, Runs
               PROVE  ENABLED <<OpenEnds(i)>>_vars
    OBVIOUS
  <2>1. InCall /\ Last.info = i /\ Last.stopped = FALSE
    BY OneFrame DEF LoopRuns
  <2> QED
    BY <2>1 DEF ForcingGoesOn, InCall
<1>4. Fairness => OpenFairness(i)
  BY DEF Fairness
<1> HIDE DEF Runs, Over
<1>5. Running => [](Runs => <>Over)
  BY <1>1, <1>2, <1>3, <1>4, PTL DEF Running, OpenFairness
<1> QED
  BY <1>5 DEF Runs, Over

LEMMA StoppedReturns == Running => (LoopStopped ~> Promise!Settled)
<1>1. /\ IInv /\ IInv' /\ CarefulInv /\ CarefulInv' /\ LoopStopped /\ [Next]_vars
      => LoopStopped' \/ Promise!Settled'
  BY CallStep, CallEnds DEF LoopStopped
<1>2. /\ IInv /\ IInv' /\ CarefulInv /\ CarefulInv' /\ LoopStopped /\ <<StartReturns>>_vars
      => Promise!Settled'
  BY CallStep, CallEnds DEF LoopStopped, Next
<1>3. IInv /\ CarefulInv /\ ForcingGoesOn /\ LoopStopped => ENABLED <<StartReturns>>_vars
  BY OneFrame DEF LoopStopped, ForcingGoesOn, InCall
<1> QED
  BY <1>1, <1>2, <1>3, PTL DEF Running, Fairness, ReturnFairness

(* -forceWWAN comes back to a careful client: it is connected, or the      *)
(* program crashed as it does when the open failed.                        *)
LEMMA ForcedIsSettled == Running => (Promise!Forcing ~> Promise!Settled)
<1> DEFINE Over == LoopStopped \/ Promise!Settled
<1>1. Running => [](\A i \in Infos : LoopRuns(i) => <>Over)
  <2>1. Running => \A i \in Infos : [](LoopRuns(i) => <>Over)
    BY OpenIsWaitedFor
  <2> QED
    BY <2>1
<1>2. (\A i \in Infos : LoopRuns(i) => <>Over) => ((\E i \in Infos : LoopRuns(i)) => <>Over)
  OBVIOUS
<1>3. IInv /\ CarefulInv /\ Promise!Forcing => Over \/ \E i \in Infos : LoopRuns(i)
  <2> SUFFICES ASSUME IInv, CarefulInv, Promise!Forcing
               PROVE  LoopStopped \/ \E i \in Infos : LoopRuns(i)
    OBVIOUS
  <2>1. InCall
    BY ConnectionIs DEF Promise!Forcing, InCall
  <2> QED
    BY <2>1, OneFrame DEF LoopStopped, LoopRuns
<1>4. Over => LoopStopped \/ Promise!Settled
  OBVIOUS
<1> HIDE DEF Over
<1> QED
  BY <1>1, <1>2, <1>3, <1>4, StoppedReturns, PTL DEF Running

(* The two files implement WWANPromise, liveness included, if the steps    *)
(* that end a call can happen when they are due.                           *)
THEOREM KeepsConnectionAlways == Spec /\ []ForcingGoesOn => KeepsConnection
<1>1. Spec /\ []ForcingGoesOn => Running
  BY Invariance, CarefulInvariance, PTL DEF Spec, Running
<1> QED
  BY <1>1, ForcedIsSettled, KeepsConnectionSafely, PTL DEF KeepsConnection, Promise!Spec
=============================================================================
