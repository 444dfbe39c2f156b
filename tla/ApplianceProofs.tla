-------------------------- MODULE ApplianceProofs ---------------------------
(***************************************************************************)
(* However many processes run and however deep handlers are nested: no     *)
(* handler begins under one that holds the thread, the menus over the main *)
(* menu are one, or two, and the remote is served again.                   *)
(*                                                                         *)
(* The argument has two halves that meet in one fact. The calls: only the  *)
(* innermost may be of another kind than "wait" (BlockedIsInnermost), so   *)
(* that an event, which needs the innermost to wait, finds waits only.     *)
(* The controllers: a fetch, which pushes one when it returns, is open     *)
(* only while none is pushed (FetchAtRoot), and by the first half none can *)
(* be pushed under it.                                                     *)
(***************************************************************************)
EXTENDS Appliance, SequenceTheorems, TLAPS

Controller == [menu : Menus, rows : Seq(Nat)]
Call == [kind : Kinds, child : Children \cup {NoChild}]
ChildStates == {"free", "runs", "halts", "kills", "exited"}

CallsInv ==
  /\ calls \in Seq(Call)
  /\ child \in [Children -> ChildStates]
  /\ \A i \in 1..Len(calls) :
       /\ calls[i].kind # "wait" => i = Len(calls)
       /\ calls[i].kind = "fetch" => calls[i].child = NoChild
       /\ calls[i].kind # "fetch" =>
            /\ calls[i].child \in Children
            /\ child[calls[i].child] # "free"
            /\ \A j \in 1..Len(calls) : calls[j].child = calls[i].child => j = i

StackInv ==
  /\ stack \in Seq(Controller)
  /\ LogOverMemory

FetchAtRoot == \A i \in 1..Len(calls) : calls[i].kind = "fetch" => Len(stack) = 0

IInv ==
  /\ network \in BOOLEAN
  /\ host \in {"up", "down"}
  /\ device \in {"on", "off"}
  /\ CallsInv
  /\ StackInv
  /\ FetchAtRoot
-----------------------------------------------------------------------------
(* Lists.                                                                  *)
LEMMA PopProperties ==
  ASSUME NEW S, NEW s \in Seq(S), s # <<>>
  PROVE  /\ Pop(s) \in Seq(S)
         /\ Len(s) \in Nat \ {0}
         /\ Len(Pop(s)) = Len(s) - 1
         /\ \A i \in 1..(Len(s) - 1) : Pop(s)[i] = s[i]
<1>1. Len(s) \in Nat \ {0} /\ s \in [1..Len(s) -> S]
  BY EmptySeq, LenProperties
<1>2. \A i \in 1..(Len(s) - 1) : s[i] \in S
  BY <1>1
<1> DEFINE n == Len(s) - 1
<1>3. n \in Int /\ 1 \in Int
  BY <1>1
<1>4. /\ SubSeq(s, 1, n) \in Seq(S)
      /\ Len(SubSeq(s, 1, n)) = IF 1 <= n THEN n - 1 + 1 ELSE 0
      /\ \A i \in 1..(n - 1 + 1) : SubSeq(s, 1, n)[i] = s[1 + i - 1]
  <2> HIDE DEF n
  <2> QED
    BY <1>2, <1>3, SubSeqProperties DEF n
<1> QED
  BY <1>1, <1>4 DEF Pop

LEMMA RowsAreLists ==
  /\ HardwareRows \in Seq(Nat)
  /\ Tail(HardwareRows) \in Seq(Nat)
  /\ NetworkRows \in Seq(Nat)
  /\ Notice \in Seq(Nat)
<1>1. HardwareRows \in Seq(Nat) /\ HardwareRows # <<>>
  BY DEF HardwareRows
<1>2. Tail(HardwareRows) \in Seq(Nat)
  BY <1>1, HeadTailProperties
<1> QED
  BY <1>1, <1>2 DEF NetworkRows, Notice

LEMMA ListsAreLists ==
  ASSUME NEW menu
  PROVE  ListOf(menu) \in Seq(Nat)
<1>1. MemoryRows \in Seq(Nat) /\ MemoryRows # <<>>
  BY DEF MemoryRows
<1>2. Tail(MemoryRows) \in Seq(Nat)
  BY <1>1, HeadTailProperties
<1>3. PowerRows \in Seq(Nat)
  <2>1. PowerRows \in [1..24 -> Nat]
    BY DEF PowerRows
  <2> QED
    BY <2>1, SeqDef
<1>4. SoftwareRows \in Seq(Nat) /\ LogRows \in Seq(Nat) /\ <<>> \in Seq(Nat)
  BY DEF SoftwareRows, LogRows
<1> QED
  BY <1>1, <1>2, <1>3, <1>4, RowsAreLists DEF ListOf
-----------------------------------------------------------------------------
(* Calls.                                                                  *)
LEMMA EventFindsWaits ==
  ASSUME CallsInv, ServesEvents
  PROVE  \A i \in 1..Len(calls) : calls[i].kind = "wait"
<1>1. Len(calls) \in Nat
  BY LenProperties DEF CallsInv
<1>2. CASE Len(calls) = 0
  BY <1>2
<1>3. CASE Len(calls) # 0
  <2>1. calls[Len(calls)].kind = "wait"
    BY <1>3, EmptySeq DEF ServesEvents, Innermost
  <2> QED
    BY <1>1, <2>1 DEF CallsInv
<1> QED
  BY <1>2, <1>3

(* A call is opened by an event, on a process that was free, or on none.   *)
LEMMA CallOpened ==
  ASSUME CallsInv, ServesEvents,
         NEW e \in Call, calls' = Append(calls, e),
         child' \in [Children -> ChildStates],
         \A c \in Children : ~Free(c) => child'[c] # "free",
         \/ e.kind = "fetch" /\ e.child = NoChild
         \/ e.kind # "fetch" /\ e.child \in Children /\ Free(e.child)
            /\ child'[e.child] # "free"
  PROVE  CallsInv'
<1> DEFINE n == Len(calls)
<1>1. n \in Nat /\ \A i \in 1..n : calls[i] \in Call
  BY LenProperties DEF CallsInv
<1>2. /\ calls' \in Seq(Call)
      /\ Len(calls') = n + 1
      /\ \A i \in 1..n : calls'[i] = calls[i]
      /\ calls'[n + 1] = e
  BY AppendProperties DEF CallsInv
<1>3. \A i \in 1..n : calls[i].kind = "wait"
  BY EventFindsWaits
<1>4. \A i \in 1..n : calls[i].child \in Children /\ ~Free(calls[i].child)
  BY <1>3 DEF CallsInv, Free
<1>5. \A i \in 1..n : calls[i].child # e.child
  BY <1>4, ChildrenAssumption
<1>6. ASSUME NEW i \in 1..(n + 1)
      PROVE  /\ calls'[i].kind # "wait" => i = n + 1
             /\ calls'[i].kind = "fetch" => calls'[i].child = NoChild
             /\ calls'[i].kind # "fetch" =>
                  /\ calls'[i].child \in Children
                  /\ child'[calls'[i].child] # "free"
                  /\ \A j \in 1..(n + 1) : calls'[j].child = calls'[i].child => j = i
  <2>1. CASE i = n + 1
    <3>1. calls'[i] = e
      BY <1>2, <2>1
    <3>2. \A j \in 1..(n + 1) : calls'[j].child = e.child => j = i
      <4> TAKE j \in 1..(n + 1)
      <4>1. j \in 1..n \/ j = n + 1
        BY <1>1
      <4> QED
        BY <1>2, <1>5, <2>1, <4>1
    <3> QED
      BY <2>1, <3>1, <3>2
  <2>2. CASE i \in 1..n
    <3>1. calls'[i] = calls[i]
      BY <1>2, <2>2
    <3>2. \A j \in 1..n : calls[j].child = calls[i].child => j = i
      BY <1>3, <2>2 DEF CallsInv
    <3>3. \A j \in 1..(n + 1) : calls'[j].child = calls'[i].child => j = i
      <4> TAKE j \in 1..(n + 1)
      <4>1. j \in 1..n \/ j = n + 1
        BY <1>1
      <4> QED
        BY <1>2, <1>5, <2>2, <3>1, <3>2, <4>1
    <3> QED
      BY <1>3, <1>4, <2>2, <3>1, <3>3
  <2> QED
    BY <1>1, <2>1, <2>2
<1> QED
  BY <1>2, <1>6 DEF CallsInv

(* The innermost call returns and nothing else is reaped.                  *)
LEMMA CallReturned ==
  ASSUME CallsInv, calls # <<>>, calls' = Pop(calls),
         child' \in [Children -> ChildStates],
         \A i \in 1..(Len(calls) - 1) : child'[calls[i].child] = child[calls[i].child]
  PROVE  CallsInv'
<1>1. /\ calls' \in Seq(Call)
      /\ Len(calls) \in Nat \ {0}
      /\ Len(calls') = Len(calls) - 1
      /\ \A i \in 1..(Len(calls) - 1) : calls'[i] = calls[i]
  BY PopProperties DEF CallsInv
<1>2. ASSUME NEW i \in 1..(Len(calls) - 1)
      PROVE  /\ calls[i].kind = "wait"
             /\ calls[i].child \in Children
             /\ child[calls[i].child] # "free"
             /\ \A j \in 1..Len(calls) : calls[j].child = calls[i].child => j = i
  BY <1>1 DEF CallsInv
<1> QED
  BY <1>1, <1>2 DEF CallsInv

(* A step of processes alone keeps those of open calls from being free.    *)
LEMMA CallsStay ==
  ASSUME CallsInv, calls' = calls,
         child' \in [Children -> ChildStates],
         \A c \in Children : WaitedOn(c) /\ ~Free(c) => child'[c] # "free"
  PROVE  CallsInv'
<1>1. DOMAIN calls = 1..Len(calls)
  BY LenProperties DEF CallsInv
<1> QED
  BY <1>1 DEF CallsInv, WaitedOn, Free

LEMMA NoCallsLeft ==
  ASSUME HostDies, child' \in [Children -> ChildStates]
  PROVE  CallsInv' /\ StackInv' /\ FetchAtRoot' /\ host' \in {"up", "down"}
<1>1. calls' \in Seq(Call) /\ Len(calls') = 0
  BY DEF HostDies
<1>2. stack' \in Seq(Controller) /\ Len(stack') = 0
  BY DEF HostDies
<1> QED
  BY <1>1, <1>2 DEF HostDies, CallsInv, StackInv, FetchAtRoot, LogOverMemory
-----------------------------------------------------------------------------
(* Controllers.                                                            *)
LEMMA MenuPushed ==
  ASSUME StackInv, NEW e \in Controller, stack' = Append(stack, e),
         \/ Len(stack) = 0
         \/ Len(stack) = 1 /\ stack[1].menu = "memory" /\ e.menu = "log"
  PROVE  StackInv'
<1>1. Len(stack) \in Nat
  BY LenProperties DEF StackInv
<1>2. /\ stack' \in Seq(Controller)
      /\ Len(stack') = Len(stack) + 1
      /\ \A i \in 1..Len(stack) : stack'[i] = stack[i]
      /\ stack'[Len(stack) + 1] = e
  BY AppendProperties DEF StackInv
<1>3. LogOverMemory'
  BY <1>1, <1>2 DEF LogOverMemory
<1> QED
  BY <1>2, <1>3 DEF StackInv

LEMMA OnlyMenu ==
  ASSUME StackInv, stack = <<>>, NEW e \in Controller, stack' = <<e>>
  PROVE  StackInv'
<1>1. stack' \in Seq(Controller) /\ Len(stack') = 1 /\ stack'[1] = e
  OBVIOUS
<1>2. LogOverMemory'
  BY <1>1 DEF LogOverMemory
<1> QED
  BY <1>1, <1>2 DEF StackInv

LEMMA MenuPopped ==
  ASSUME StackInv, stack # <<>>, stack' = Pop(stack)
  PROVE  StackInv'
<1>1. /\ stack' \in Seq(Controller)
      /\ Len(stack) \in Nat \ {0}
      /\ Len(stack') = Len(stack) - 1
      /\ \A i \in 1..(Len(stack) - 1) : stack'[i] = stack[i]
  BY PopProperties DEF StackInv
<1>2. LogOverMemory'
  BY <1>1 DEF StackInv, LogOverMemory
<1> QED
  BY <1>1, <1>2 DEF StackInv

LEMMA OneOrTwo == \A n \in Nat \ {0} : n <= 2 => n = 1 \/ n = 2
  OBVIOUS

LEMMA LogChosenOverMemory ==
  ASSUME StackInv, NEW row, stack # <<>>, Chosen(row) = "open log"
  PROVE  Len(stack) = 1 /\ stack[1].menu = "memory"
<1>1. Len(stack) \in Nat \ {0} /\ Len(stack) <= 2
  BY EmptySeq DEF StackInv, LogOverMemory
<1>2. Top.menu = "memory"
  <2>1. HardwareEffect(row) # "open log"
    BY DEF HardwareEffect
  <2>2. SoftwareEffect(row) # "open log"
    BY DEF SoftwareEffect
  <2>3. PowerEffect(row) # "open log"
    BY DEF PowerEffect
  <2>4. LogEffect(row) # "open log"
    BY DEF LogEffect
  <2> QED
    BY <2>1, <2>2, <2>3, <2>4 DEF Chosen, Effect
<1>3. CASE Len(stack) = 1
  BY <1>2, <1>3 DEF Top
<1>4. CASE Len(stack) = 2
  BY <1>2, <1>4 DEF Top, StackInv, LogOverMemory
<1>5. Len(stack) = 1 \/ Len(stack) = 2
  BY <1>1, OneOrTwo, Zenon
<1> QED
  BY <1>3, <1>4, <1>5, Zenon
-----------------------------------------------------------------------------
LEMMA InitIInv == Init => IInv
<1> SUFFICES ASSUME Init PROVE IInv
  OBVIOUS
<1>1. calls \in Seq(Call) /\ Len(calls) = 0 /\ stack \in Seq(Controller) /\ Len(stack) = 0
  BY DEF Init
<1>2. child \in [Children -> ChildStates]
  BY DEF Init, NoChildren, ChildStates
<1> QED
  BY <1>1, <1>2 DEF Init, IInv, CallsInv, StackInv, LogOverMemory, FetchAtRoot

(* Every event: nothing fetches meanwhile, so any menu may be pushed.      *)
LEMMA EventKeepsFetchAtRoot ==
  ASSUME CallsInv, ServesEvents, calls' = calls
  PROVE  FetchAtRoot'
<1>1. \A i \in 1..Len(calls) : calls[i].kind = "wait"
  BY EventFindsWaits
<1> QED
  BY <1>1 DEF FetchAtRoot

(* A call is opened and no menu is: a fetch at the root only.              *)
LEMMA CallKeepsFetchAtRoot ==
  ASSUME CallsInv, ServesEvents, stack' = stack,
         NEW e \in Call, calls' = Append(calls, e),
         e.kind = "fetch" => Len(stack) = 0
  PROVE  FetchAtRoot'
<1>1. \A i \in 1..Len(calls) : calls[i].kind = "wait"
  BY EventFindsWaits
<1>2. /\ Len(calls) \in Nat
      /\ Len(calls') = Len(calls) + 1
      /\ \A i \in 1..Len(calls) : calls'[i] = calls[i]
      /\ calls'[Len(calls) + 1] = e
  BY AppendProperties, LenProperties DEF CallsInv
<1>3. ASSUME NEW i \in 1..(Len(calls) + 1), calls'[i].kind = "fetch"
      PROVE  Len(stack) = 0
  <2>1. i \in 1..Len(calls) \/ i = Len(calls) + 1
    BY <1>2
  <2> QED
    BY <1>1, <1>2, <1>3, <2>1
<1> QED
  BY <1>2, <1>3 DEF FetchAtRoot

(* After the innermost call returned the others are waits.                 *)
LEMMA ReturnKeepsFetchAtRoot ==
  ASSUME CallsInv, calls # <<>>, calls' = Pop(calls)
  PROVE  FetchAtRoot'
<1>1. /\ Len(calls) \in Nat \ {0}
      /\ Len(calls') = Len(calls) - 1
      /\ \A i \in 1..(Len(calls) - 1) : calls'[i] = calls[i]
  BY PopProperties DEF CallsInv
<1>2. \A i \in 1..(Len(calls) - 1) : calls[i].kind = "wait"
  BY <1>1 DEF CallsInv
<1> QED
  BY <1>1, <1>2 DEF FetchAtRoot

LEMMA StackStays ==
  ASSUME StackInv, stack' = stack
  PROVE  StackInv'
  BY DEF StackInv, LogOverMemory

LEMMA BothStay ==
  ASSUME CallsInv, StackInv, FetchAtRoot, UNCHANGED <<stack, calls, child>>
  PROVE  CallsInv' /\ StackInv' /\ FetchAtRoot'
  BY StackStays DEF CallsInv, FetchAtRoot

LEMMA NextIInv == IInv /\ [Next]_vars => IInv'
<1> SUFFICES ASSUME IInv, [Next]_vars PROVE IInv'
  OBVIOUS
<1>0. /\ CallsInv /\ StackInv /\ FetchAtRoot
      /\ child \in [Children -> ChildStates]
      /\ network \in BOOLEAN /\ host \in {"up", "down"} /\ device \in {"on", "off"}
  BY DEF IInv, CallsInv
<1>a. NoChildren \in [Children -> ChildStates]
  BY DEF NoChildren, ChildStates
<1>b. ASSUME NEW children \in [Children -> ChildStates]
      PROVE  Orphaned(children) \in [Children -> ChildStates]
  BY <1>b DEF Orphaned, ChildStates
<1>1. ASSUME NEW menu \in Menus, SelectCategory(menu) PROVE IInv'
  <2> DEFINE e == [menu |-> menu, rows |-> ListOf(menu)]
  <2>1. e \in Controller
    BY <1>1, ListsAreLists DEF Controller
  <2>2. ServesEvents /\ stack = <<>> /\ UNCHANGED <<network, calls, child, host, device>>
    BY <1>1 DEF SelectCategory
  <2>3. stack' = <<e>> \/ stack' = stack
    BY <1>1 DEF SelectCategory
  <2> HIDE DEF e
  <2>4. StackInv'
    BY <1>0, <2>1, <2>2, <2>3, OnlyMenu, StackStays
  <2>5. FetchAtRoot'
    BY <1>0, <2>2, EventKeepsFetchAtRoot
  <2>6. CallsInv'
    BY <1>0, <2>2 DEF CallsInv
  <2> QED
    BY <1>0, <2>2, <2>4, <2>5, <2>6 DEF IInv
<1>2. ASSUME SelectNetwork PROVE IInv'
  <2>0. ServesEvents /\ stack = <<>> /\ Len(stack) = 0 /\ UNCHANGED <<network, child, host, device>>
    BY <1>2 DEF SelectNetwork
  <2>1. CASE stack' = <<[menu |-> "network", rows |-> Notice]>> /\ UNCHANGED calls
    <3> DEFINE e == [menu |-> "network", rows |-> Notice]
    <3>1. e \in Controller /\ stack' = <<e>>
      BY <2>1, RowsAreLists DEF Controller, Menus
    <3> HIDE DEF e
    <3>2. StackInv'
      BY <1>0, <2>0, <3>1, OnlyMenu
    <3>3. CallsInv' /\ FetchAtRoot'
      BY <1>0, <2>0, <2>1, EventKeepsFetchAtRoot DEF CallsInv
    <3> QED
      BY <1>0, <2>0, <3>2, <3>3 DEF IInv
  <2>2. CASE calls' = Append(calls, [kind |-> "fetch", child |-> NoChild]) /\ UNCHANGED stack
    <3> DEFINE e == [kind |-> "fetch", child |-> NoChild]
    <3>1. e \in Call /\ e.kind = "fetch" /\ e.child = NoChild /\ calls' = Append(calls, e)
      BY <2>2 DEF Call, Kinds
    <3> HIDE DEF e
    <3>2. CallsInv'
      BY <1>0, <2>0, <3>1, CallOpened DEF Free
    <3>3. FetchAtRoot'
      BY <1>0, <2>0, <2>2, <3>1, CallKeepsFetchAtRoot
    <3>4. StackInv'
      BY <1>0, <2>2, StackStays
    <3> QED
      BY <1>0, <2>0, <3>2, <3>3, <3>4 DEF IInv
  <2> QED
    BY <1>2, <2>1, <2>2 DEF SelectNetwork
<1>3. ASSUME FetchReturns PROVE IInv'
  <2> DEFINE e == [menu |-> "network", rows |-> NetworkRows]
  <2>1. e \in Controller /\ stack' = Append(stack, e)
    BY <1>3, RowsAreLists DEF FetchReturns, Controller, Menus
  <2> HIDE DEF e
  <2>2. /\ calls # <<>> /\ Innermost.child = NoChild /\ calls' = Pop(calls)
        /\ UNCHANGED <<network, child, host, device>>
    BY <1>3 DEF FetchReturns
  <2>3. Len(calls) \in 1..Len(calls)
    BY <1>0, <2>2, EmptySeq DEF CallsInv
  <2>8. calls[Len(calls)].kind = "fetch"
    BY <1>0, <2>2, <2>3, ChildrenAssumption DEF CallsInv, Innermost
  <2>4. Len(stack) = 0
    BY <1>0, <2>3, <2>8 DEF FetchAtRoot
  <2>5. StackInv'
    BY <1>0, <2>1, <2>4, MenuPushed
  <2>6. CallsInv'
    BY <1>0, <2>2, CallReturned
  <2>7. FetchAtRoot'
    BY <1>0, <2>2, ReturnKeepsFetchAtRoot
  <2> QED
    BY <1>0, <2>2, <2>5, <2>6, <2>7 DEF IInv
<1>4. ASSUME NEW row \in 0..23, NEW c \in Children, RowBlocks(row, c) \/ RowWaits(row, c)
      PROVE  IInv'
  <2>1. /\ ServesEvents /\ Free(c)
        /\ UNCHANGED <<network, stack, host, device>>
        /\ \E state \in {"runs", "halts", "kills"} : child' = [child EXCEPT ![c] = state]
        /\ \E kind \in {"block", "wait"} : calls' = Append(calls, [kind |-> kind, child |-> c])
    <3>1. CASE RowBlocks(row, c)
      BY <3>1 DEF RowBlocks, Selects
    <3>2. CASE RowWaits(row, c)
      BY <3>2 DEF RowWaits, Selects
    <3> QED
      BY <1>4, <3>1, <3>2
  <2>2. PICK kind \in {"block", "wait"} : calls' = Append(calls, [kind |-> kind, child |-> c])
    BY <2>1
  <2> DEFINE e == [kind |-> kind, child |-> c]
  <2>3. e \in Call /\ e.kind # "fetch" /\ e.child = c /\ calls' = Append(calls, e)
    BY <2>2 DEF Call, Kinds
  <2> HIDE DEF e
  <2>4. /\ child' \in [Children -> ChildStates]
        /\ child'[c] # "free"
        /\ \A d \in Children : ~Free(d) => child'[d] # "free"
    BY <1>0, <2>1 DEF ChildStates, Free
  <2>5. CallsInv'
    BY <1>0, <2>1, <2>3, <2>4, CallOpened
  <2>6. FetchAtRoot'
    BY <1>0, <2>1, <2>3, CallKeepsFetchAtRoot
  <2>7. StackInv'
    BY <1>0, <2>1, StackStays
  <2> QED
    BY <1>0, <2>1, <2>5, <2>6, <2>7 DEF IInv
<1>5. ASSUME NEW row \in 0..23, NEW c \in Children, RowLaunches(row, c) PROVE IInv'
  <2>1. /\ child' \in [Children -> ChildStates]
        /\ \A d \in Children : ~Free(d) => child'[d] # "free"
    BY <1>0, <1>5 DEF RowLaunches, ChildStates, Free
  <2>2. UNCHANGED <<network, stack, calls, host, device>>
    BY <1>5 DEF RowLaunches, app
  <2>3. CallsInv'
    BY <1>0, <2>1, <2>2, CallsStay
  <2>4. StackInv' /\ FetchAtRoot'
    BY <1>0, <2>2, StackStays DEF FetchAtRoot
  <2> QED
    BY <1>0, <2>2, <2>3, <2>4 DEF IInv
<1>6. ASSUME HostDies, child' \in [Children -> ChildStates], UNCHANGED network,
             device' \in {"on", "off"}
      PROVE  IInv'
  BY <1>0, <1>6, NoCallsLeft DEF IInv
<1>7. ASSUME NEW row \in 0..23, RowRaises(row) \/ RowReboots(row) PROVE IInv'
  BY <1>0, <1>6, <1>7, <1>a, <1>b DEF RowRaises, RowReboots
<1>19. ASSUME InterfacesCrash PROVE IInv'
  BY <1>0, <1>6, <1>19, <1>b DEF InterfacesCrash
<1>8. ASSUME NEW row \in 0..23, NEW c \in Children, RowLaunchesThenRaises(row, c) PROVE IInv'
  <2>1. [child EXCEPT ![c] = "runs"] \in [Children -> ChildStates]
    BY <1>0 DEF ChildStates
  <2> QED
    BY <1>0, <1>6, <1>8, <1>b, <2>1 DEF RowLaunchesThenRaises
<1>9. ASSUME NEW row \in 0..23, RowOpensLog(row) PROVE IInv'
  <2> DEFINE e == [menu |-> "log", rows |-> ListOf("log")]
  <2>1. e \in Controller /\ e.menu = "log" /\ stack' = Append(stack, e)
    BY <1>9, ListsAreLists DEF RowOpensLog, Controller, Menus
  <2> HIDE DEF e
  <2>2. /\ ServesEvents /\ stack # <<>> /\ Chosen(row) = "open log"
        /\ UNCHANGED <<network, calls, child, host, device>>
    BY <1>9 DEF RowOpensLog, Selects
  <2>3. Len(stack) = 1 /\ stack[1].menu = "memory"
    BY <1>0, <2>2, LogChosenOverMemory
  <2>4. StackInv'
    BY <1>0, <2>1, <2>3, MenuPushed
  <2>5. CallsInv' /\ FetchAtRoot'
    BY <1>0, <2>2, EventKeepsFetchAtRoot DEF CallsInv
  <2> QED
    BY <1>0, <2>2, <2>4, <2>5 DEF IInv
<1>10. ASSUME MenuButton PROVE IInv'
  <2>1. /\ ServesEvents /\ stack # <<>> /\ stack' = Pop(stack)
        /\ UNCHANGED <<network, calls, child, host, device>>
    BY <1>10 DEF MenuButton
  <2>2. StackInv'
    BY <1>0, <2>1, MenuPopped
  <2>3. CallsInv' /\ FetchAtRoot'
    BY <1>0, <2>1, EventKeepsFetchAtRoot DEF CallsInv
  <2> QED
    BY <1>0, <2>1, <2>2, <2>3 DEF IInv
<1>11. ASSUME NEW c \in Children, ChildExits(c) \/ ChildCollected(c) PROVE IInv'
  <2>1. /\ child' \in [Children -> ChildStates]
        /\ \A d \in Children : WaitedOn(d) /\ ~Free(d) => child'[d] # "free"
    BY <1>0, <1>11 DEF ChildExits, ChildCollected, ChildStates, Free
  <2>2. UNCHANGED <<network, stack, calls, host, device>>
    BY <1>11 DEF ChildExits, ChildCollected, app
  <2>3. CallsInv'
    BY <1>0, <2>1, <2>2, CallsStay
  <2>4. StackInv' /\ FetchAtRoot'
    BY <1>0, <2>2, StackStays DEF FetchAtRoot
  <2> QED
    BY <1>0, <2>2, <2>3, <2>4 DEF IInv
<1>12. ASSUME NEW c \in Children, KillsHost(c) PROVE IInv'
  <2>1. [child EXCEPT ![c] = "free"] \in [Children -> ChildStates]
    BY <1>0 DEF ChildStates
  <2> QED
    BY <1>0, <1>6, <1>12, <1>b, <2>1 DEF KillsHost
<1>13. ASSUME NEW c \in Children, HaltsDevice(c) PROVE IInv'
  BY <1>0, <1>6, <1>13, <1>a DEF HaltsDevice
<1>14. ASSUME NEW c \in Children, CallReturns(c) PROVE IInv'
  <2>1. /\ calls # <<>> /\ Innermost.child = c /\ calls' = Pop(calls)
        /\ child' = [child EXCEPT ![c] = "free"]
        /\ UNCHANGED <<network, stack, host, device>>
    BY <1>14 DEF CallReturns
  <2> DEFINE n == Len(calls)
  <2>2. n \in Nat \ {0}
    BY <1>0, <2>1, EmptySeq DEF CallsInv
  <2>3. calls[n].child = c
    BY <2>1 DEF Innermost
  <2>4. calls[n].kind # "fetch"
    BY <1>0, <2>2, <2>3, ChildrenAssumption DEF CallsInv
  <2>5. \A j \in 1..n : calls[j].child = c => j = n
    BY <1>0, <2>2, <2>3, <2>4 DEF CallsInv
  <2>6. child' \in [Children -> ChildStates]
    BY <1>0, <2>1 DEF ChildStates
  <2>7. \A i \in 1..(n - 1) : child'[calls[i].child] = child[calls[i].child]
    <3> TAKE i \in 1..(n - 1)
    <3>1. calls[i].child # c
      BY <2>2, <2>5
    <3>2. calls[i].kind # "fetch" /\ calls[i].child \in Children
      BY <1>0, <2>2 DEF CallsInv
    <3> QED
      BY <1>0, <2>1, <3>1, <3>2
  <2>8. CallsInv'
    BY <1>0, <2>1, <2>6, <2>7, CallReturned
  <2>9. FetchAtRoot' /\ StackInv'
    BY <1>0, <2>1, ReturnKeepsFetchAtRoot, StackStays
  <2> QED
    BY <1>0, <2>1, <2>8, <2>9 DEF IInv
<1>15. CASE HostStarts
  BY <1>0, <1>15, BothStay DEF HostStarts, IInv
<1>16. CASE NetworkChanges
  BY <1>0, <1>16, BothStay DEF NetworkChanges, app, IInv
<1>17. CASE UNCHANGED vars
  BY <1>0, <1>17, BothStay DEF vars, app, IInv
<1>18. ASSUME User PROVE IInv'
  BY <1>1, <1>2, <1>4, <1>5, <1>7, <1>8, <1>9, <1>10, <1>18, <1>19, Zenon DEF User
<1> QED
  BY <1>3, <1>11, <1>12, <1>13, <1>14, <1>15, <1>16, <1>17, <1>18, Zenon DEF Next

LEMMA Invariance == Spec => []IInv
  BY InitIInv, NextIInv, PTL DEF Spec
-----------------------------------------------------------------------------
(* The state is well typed in every run.                                   *)
THEOREM TypeCorrect == Spec => []TypeOK
<1>1. IInv => TypeOK
  BY DEF IInv, CallsInv, StackInv, TypeOK, Controller, Call, ChildStates
<1> QED
  BY <1>1, Invariance, PTL

(* However deep the calls are nested, only the innermost holds the thread  *)
(* (LogMainMenu.m:210 and 230, PowerMainMenu.m:147).                       *)
THEOREM OnlyInnermostBlocks == Spec => []BlockedIsInnermost
<1>1. IInv => BlockedIsInnermost
  BY LenProperties DEF IInv, CallsInv, BlockedIsInnermost
<1> QED
  BY <1>1, Invariance, PTL

(* One menu is open, or the log menu over the memory menu: nothing is      *)
(* opened under a fetch that will push the network menu when it returns    *)
(* (ATV2Appliance.mm:110, NetworkMainMenu.m:194, MemoryMainMenu.m:256).    *)
THEOREM MenusStack == Spec => []LogOverMemory
<1>1. IInv => LogOverMemory
  BY DEF IInv, StackInv
<1> QED
  BY <1>1, Invariance, PTL
-----------------------------------------------------------------------------
(* The remote is served again. Only the innermost call can hold the        *)
(* thread, so that however deep the nest is one return is enough: while it *)
(* is a fetch nothing but the fetch goes on, while it holds the thread for *)
(* a process only processes do, and a host that died comes back with no    *)
(* call open. RemoteCanReturn is assumed, since it speaks of ENABLED.      *)
Served == ServesEvents \/ device = "off"
Down == host = "down" /\ device = "on"
Fetches == host = "up" /\ calls # <<>> /\ Innermost.kind = "fetch"
Blocks(c) ==
  host = "up" /\ calls # <<>> /\ Innermost.kind = "block" /\ Innermost.child = c
Alive(c) == Blocks(c) /\ child[c] \in {"runs", "halts"}
Kills(c) == Blocks(c) /\ child[c] = "kills"
Gone(c) == Blocks(c) /\ child[c] = "exited"

DownIsIdle == host = "down" => calls = <<>>

LEMMA NextDownIsIdle == DownIsIdle /\ [Next]_vars => DownIsIdle'
<1> SUFFICES ASSUME DownIsIdle, [Next]_vars PROVE DownIsIdle'
  OBVIOUS
<1> USE DEF DownIsIdle
<1>1. ASSUME User PROVE DownIsIdle'
  <2>1. ServesEvents => host = "up"
    BY DEF ServesEvents
  <2> QED
    BY <1>1, <2>1
    DEF User, SelectCategory, SelectNetwork, InterfacesCrash, RowRaises, RowReboots,
        RowOpensLog, RowBlocks, RowWaits, RowLaunches, RowLaunchesThenRaises, MenuButton,
        Selects, HostDies, app
<1>2. ASSUME NEW c \in Children,
             \/ ChildExits(c) \/ ChildCollected(c) \/ KillsHost(c)
             \/ HaltsDevice(c) \/ CallReturns(c)
      PROVE  DownIsIdle'
  BY <1>2 DEF ChildExits, ChildCollected, KillsHost, HaltsDevice, CallReturns, HostDies, app
<1> QED
  BY <1>1, <1>2 DEF Next, FetchReturns, HostStarts, NetworkChanges, vars, app

(* What can happen while the host is up and the remote is not served.      *)
LEMMA HeldStep ==
  ASSUME IInv, host = "up", ~ServesEvents, [Next]_vars
  PROVE  \/ FetchReturns
         \/ \E d \in Children : CallReturns(d)
         \/ HostDies /\ device' \in {device, "off"}
         \/ /\ UNCHANGED app
            /\ \A c \in Children : WaitedOn(c) /\ child'[c] # child[c] =>
                 ChildExits(c) /\ child'[c] = "exited"
<1>1. ~User
  BY DEF User, SelectCategory, SelectNetwork, InterfacesCrash, RowRaises, RowReboots,
         RowOpensLog, RowBlocks, RowWaits, RowLaunches, RowLaunchesThenRaises, MenuButton,
         Selects
<1>2. ~HostStarts
  BY DEF HostStarts
<1>3. ASSUME NEW d \in Children, ChildExits(d)
      PROVE  \A c \in Children : WaitedOn(c) /\ child'[c] # child[c] =>
                 ChildExits(c) /\ child'[c] = "exited"
  <2> SUFFICES ASSUME NEW c \in Children, WaitedOn(c), child'[c] # child[c]
               PROVE  ChildExits(c) /\ child'[c] = "exited"
    OBVIOUS
  <2>1. child' = [child EXCEPT ![d] = "exited"]
    BY <1>3 DEF ChildExits
  <2>2. c = d
    BY <2>1 DEF IInv, CallsInv
  <2> QED
    BY <1>3, <2>1, <2>2 DEF IInv, CallsInv
<1>4. ASSUME NEW d \in Children, ChildCollected(d)
      PROVE  UNCHANGED app /\ \A c \in Children : WaitedOn(c) => child'[c] = child[c]
  BY <1>4 DEF ChildCollected, IInv, CallsInv
<1> QED
  BY <1>1, <1>2, <1>3, <1>4
  DEF Next, ChildExits, ChildCollected, KillsHost, HaltsDevice, NetworkChanges, vars

(* A return leaves waits only.                                             *)
LEMMA ReturnServes ==
  ASSUME IInv, host = "up",
         FetchReturns \/ \E d \in Children : CallReturns(d)
  PROVE  Served'
<1>1. calls # <<>> /\ calls' = Pop(calls) /\ host' = "up"
  BY DEF FetchReturns, CallReturns
<1>2. /\ Len(calls) \in Nat \ {0}
      /\ Len(calls') = Len(calls) - 1
      /\ \A i \in 1..(Len(calls) - 1) : calls'[i] = calls[i]
      /\ calls' \in Seq(Call)
  BY <1>1, PopProperties DEF IInv, CallsInv
<1>3. CASE calls' = <<>>
  BY <1>1, <1>3 DEF Served, ServesEvents
<1>4. CASE calls' # <<>>
  <2>1. Len(calls) - 1 \in 1..(Len(calls) - 1)
    BY <1>2, <1>4, EmptySeq
  <2>2. calls[Len(calls) - 1].kind = "wait"
    BY <1>2, <2>1 DEF IInv, CallsInv
  <2>3. calls'[Len(calls')].kind = "wait"
    BY <1>2, <2>1, <2>2
  <2> QED
    BY <1>1, <2>3 DEF Served, ServesEvents, Innermost
<1> QED
  BY <1>3, <1>4

LEMMA DeadHost ==
  ASSUME HostDies, device' \in {device, "off"}, device \in {"on", "off"}
  PROVE  Down' \/ Served'
  BY DEF HostDies, Down, Served

LEMMA DownStep ==
  ASSUME DownIsIdle, IInv, Down, [Next]_vars
  PROVE  /\ Down' \/ Served'
         /\ HostStarts => Served'
<1>1. HostStarts => Served'
  BY DEF DownIsIdle, Down, HostStarts, Served, ServesEvents
<1>2. ~User
  BY DEF User, SelectCategory, SelectNetwork, InterfacesCrash, RowRaises, RowReboots,
         RowOpensLog, RowBlocks, RowWaits, RowLaunches, RowLaunchesThenRaises, MenuButton,
         Selects, ServesEvents, Down
<1>3. ASSUME NEW c \in Children,
             \/ ChildExits(c) \/ ChildCollected(c) \/ KillsHost(c)
             \/ HaltsDevice(c) \/ CallReturns(c)
      PROVE  Down' \/ Served'
  BY <1>3, DeadHost
  DEF ChildExits, ChildCollected, KillsHost, HaltsDevice, CallReturns, HostDies, Down, Served, app
<1>4. FetchReturns \/ NetworkChanges \/ UNCHANGED vars => Down'
  BY DEF FetchReturns, NetworkChanges, vars, app, Down
<1> QED
  BY <1>1, <1>2, <1>3, <1>4 DEF Next

LEMMA FetchStep ==
  ASSUME IInv, Fetches, [Next]_vars
  PROVE  /\ Fetches' \/ Down' \/ Served'
         /\ FetchReturns => Served'
<1>1. host = "up" /\ ~ServesEvents /\ device \in {"on", "off"}
  BY DEF Fetches, ServesEvents, IInv
<1>2. UNCHANGED app => Fetches'
  BY DEF app, Fetches, Innermost
<1> QED
  BY <1>1, <1>2, HeldStep, ReturnServes, DeadHost

LEMMA BlockStep ==
  ASSUME IInv, NEW c \in Children, Blocks(c), [Next]_vars
  PROVE  /\ \/ Down' \/ Served'
            \/ Blocks(c)' /\ (child'[c] = child[c] \/ child'[c] = "exited")
         /\ ChildEnds(c) => Gone(c)' \/ Down' \/ Served'
         /\ KillsHost(c) => Down' \/ Served'
         /\ CallReturns(c) => Served'
<1>1. host = "up" /\ ~ServesEvents /\ device \in {"on", "off"}
  BY DEF Blocks, ServesEvents, IInv
<1>2. WaitedOn(c)
  <2>1. Len(calls) \in DOMAIN calls
    BY EmptySeq, LenProperties DEF Blocks, IInv, CallsInv
  <2> QED
    BY <2>1 DEF Blocks, WaitedOn, Innermost
<1>3. UNCHANGED app => Blocks(c)'
  BY DEF app, Blocks, Innermost
<1>4. ChildEnds(c) => Gone(c)' \/ Down' \/ Served'
  <2>1. ChildExits(c) => Gone(c)'
    BY <1>2, <1>3 DEF ChildExits, Gone, IInv, CallsInv
  <2>2. HaltsDevice(c) => Served'
    BY DEF HaltsDevice, Served
  <2> QED
    BY <2>1, <2>2 DEF ChildEnds
<1>5. KillsHost(c) => Down' \/ Served'
  BY <1>1, DeadHost DEF KillsHost
<1> QED
  BY <1>1, <1>2, <1>3, <1>4, <1>5, HeldStep, ReturnServes, DeadHost

Running ==
  /\ [][Next]_vars
  /\ Fairness
  /\ []IInv
  /\ []DownIsIdle
  /\ []RemoteCanReturn

LEMMA HostComesBack == Running => (Down ~> Served)
<1>1. DownIsIdle /\ IInv /\ Down /\ [Next]_vars => Down' \/ Served'
  BY DownStep
<1>2. DownIsIdle /\ IInv /\ Down /\ <<HostStarts>>_vars => Served'
  BY DownStep DEF Next
<1>3. RemoteCanReturn /\ Down => ENABLED <<HostStarts>>_vars
  BY DEF RemoteCanReturn, Down
<1>4. Fairness => HostFairness
  BY DEF Fairness
<1> QED
  BY <1>1, <1>2, <1>3, <1>4, PTL DEF Running, HostFairness

LEMMA FetchEnds == Running => (Fetches ~> Served)
<1>1. IInv /\ Fetches /\ [Next]_vars => Fetches' \/ Down' \/ Served'
  BY FetchStep
<1>2. IInv /\ Fetches /\ <<FetchReturns>>_vars => Served'
  BY FetchStep DEF Next
<1>3. RemoteCanReturn /\ Fetches => ENABLED <<FetchReturns>>_vars
  BY DEF RemoteCanReturn, Fetches, ServesEvents
<1>4. Fairness => HostFairness
  BY DEF Fairness
<1> QED
  BY <1>1, <1>2, <1>3, <1>4, HostComesBack, PTL DEF Running, HostFairness

(* A call that holds the thread: its process is killing the host, or runs  *)
(* and then is gone, and with that the call returns.                       *)
LEMMA BlockEnds ==
  ASSUME NEW c \in Children
  PROVE  Running => [](Blocks(c) => <>Served)
<1>1. IInv /\ Alive(c) /\ [Next]_vars => Alive(c)' \/ Gone(c)' \/ Down' \/ Served'
  BY BlockStep DEF Alive, Gone
<1>2. IInv /\ Kills(c) /\ [Next]_vars => Kills(c)' \/ Gone(c)' \/ Down' \/ Served'
  BY BlockStep DEF Kills, Gone
<1>3. IInv /\ Gone(c) /\ [Next]_vars => Gone(c)' \/ Down' \/ Served'
  BY BlockStep DEF Gone
<1>4. IInv /\ Alive(c) /\ <<ChildEnds(c)>>_vars => Gone(c)' \/ Down' \/ Served'
  BY BlockStep DEF Alive, ChildEnds, Next
<1>5. IInv /\ Kills(c) /\ <<KillsHost(c)>>_vars => Down' \/ Served'
  BY BlockStep DEF Kills, Next
<1>6. IInv /\ Gone(c) /\ <<CallReturns(c)>>_vars => Served'
  BY BlockStep DEF Gone, Next
<1>7. RemoteCanReturn /\ Blocks(c) =>
        \/ Alive(c) /\ ENABLED <<ChildEnds(c)>>_vars
        \/ Kills(c) /\ ENABLED <<KillsHost(c)>>_vars
        \/ Gone(c) /\ ENABLED <<CallReturns(c)>>_vars
  BY DEF RemoteCanReturn, Blocks, Alive, Kills, Gone, ServesEvents
<1>8. /\ Alive(c) => Blocks(c) /\ ~Kills(c) /\ ~Gone(c)
      /\ Kills(c) => Blocks(c) /\ ~Alive(c) /\ ~Gone(c)
      /\ Gone(c) => Blocks(c) /\ ~Alive(c) /\ ~Kills(c)
  BY DEF Alive, Kills, Gone
<1>9. Fairness => ChildFairness(c)
  BY DEF Fairness
<1>10. Running => (Gone(c) ~> Served)
  BY <1>3, <1>6, <1>7, <1>8, <1>9, HostComesBack, PTL DEF Running, ChildFairness
<1>11. Running => (Alive(c) ~> Served)
  BY <1>1, <1>4, <1>7, <1>8, <1>9, <1>10, HostComesBack, PTL DEF Running, ChildFairness
<1>12. Running => (Kills(c) ~> Served)
  BY <1>2, <1>5, <1>7, <1>8, <1>9, <1>10, HostComesBack, PTL DEF Running, ChildFairness
<1> QED
  BY <1>7, <1>10, <1>11, <1>12, PTL DEF Running

(* The remote is served again after every command, fetch, exception and    *)
(* restart, for any number of processes and calls nested to any depth, if  *)
(* what is at work meanwhile can take its step.                            *)
THEOREM RemoteServedAgain == Spec /\ []RemoteCanReturn => RemoteServed
<1>1. Spec /\ []RemoteCanReturn => Running
  <2>1. Init => DownIsIdle
    BY DEF Init, DownIsIdle
  <2> QED
    BY <2>1, NextDownIsIdle, Invariance, PTL DEF Spec, Running
<1>2. Running => [](\A c \in Children : Blocks(c) => <>Served)
  <2>1. Running => \A c \in Children : [](Blocks(c) => <>Served)
    BY BlockEnds
  <2> QED
    BY <2>1
<1>3. (\A c \in Children : Blocks(c) => <>Served) => ((\E c \in Children : Blocks(c)) => <>Served)
  OBVIOUS
<1> DEFINE Away == host = "down" \/ calls # <<>>
<1>4. IInv /\ Away => Served \/ Down \/ Fetches \/ \E c \in Children : Blocks(c)
  <2> SUFFICES ASSUME IInv, host = "up", calls # <<>>, Innermost.kind # "wait",
                      Innermost.kind # "fetch"
               PROVE  \E c \in Children : Blocks(c)
    BY DEF IInv, Served, Down, Fetches, ServesEvents
  <2>1. Len(calls) \in 1..Len(calls)
    BY EmptySeq DEF IInv, CallsInv
  <2>2. calls[Len(calls)] \in Call /\ calls[Len(calls)].child \in Children
    BY <2>1, ElementOfSeq DEF IInv, CallsInv, Innermost
  <2> QED
    BY <2>2 DEF Blocks, Innermost, Call, Kinds
<1> HIDE DEF Away
<1>5. Running => (Away ~> Served)
  BY <1>2, <1>3, <1>4, HostComesBack, FetchEnds, PTL DEF Running
<1> QED
  BY <1>1, <1>5, PTL DEF RemoteServed, Served, Away
=============================================================================
