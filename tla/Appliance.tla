----------------------------- MODULE Appliance -----------------------------
(***************************************************************************)
(* The plug-in as the user meets it: ATV2Appliance.mm hands the host       *)
(* AppleTV.app a controller per category, the controllers list rows, and a *)
(* selected row may run a command, wait for one, raise, or take the host   *)
(* or the device down.                                                     *)
(*                                                                         *)
(* One thread serves the remote. Most handlers hold it until they return;  *)
(* -waitUntilExit alone runs the run loop meanwhile, so that rows can be   *)
(* selected and menus left while a handler waits. The open handlers form a *)
(* stack of calls, beside the host's stack of controllers.                 *)
(***************************************************************************)
EXTENDS Naturals, Sequences

CONSTANTS
  Children,   \* bound: the processes that can run at a time
  NoChild     \* a call that waits for the net, and not for a process

ASSUME ChildrenAssumption == NoChild \notin Children

VARIABLES
  network,  \* what -networkAvailable answers
  stack,    \* the controllers pushed over the main menu, with their rows
  calls,    \* the handlers that have not returned, the innermost last
  child,    \* of each process: what it is about to do
  host,     \* AppleTV.app: "up" or "down"
  device    \* the Apple TV: "on" or "off"

app == <<stack, calls, host>>
vars == <<network, app, child, device>>

Menus == {"about", "software", "hardware", "network", "memory", "power", "log"}
Kinds == {"wait", "block", "fetch"}
NoChildren == [c \in Children |-> "free"]

TypeOK ==
  /\ network \in BOOLEAN
  /\ stack \in Seq([menu : Menus, rows : Seq(Nat)])
  /\ calls \in Seq([kind : Kinds, child : Children \cup {NoChild}])
  /\ child \in [Children -> {"free", "runs", "halts", "kills", "exited"}]
  /\ host \in {"up", "down"}
  /\ device \in {"on", "off"}

Init ==
  /\ network \in BOOLEAN
  /\ stack = <<>>
  /\ calls = <<>>
  /\ child = NoChildren
  /\ host = "up"
  /\ device = "on"
-----------------------------------------------------------------------------
(* The lists. A row is the number of its picture in the comments of -init, *)
(* 0 where it has none; positions count from 0.                            *)
HardwareRows == <<300, 301, 302, 303, 304, 305, 306, 307, 308, 309, 310, 311, 312>>
SoftwareRows == <<3, 4, 5, 6, 7, 9, 10, 12>>
NetworkRows == <<207, 208, 200, 200, 200, 201, 202, 203, 204, 205, 206, 206, 206>>
MemoryRows == <<101, 102, 103, 105, 106, 107, 0, 0, 0, 110, 111, 112, 113, 114, 115>>
PowerRows == [i \in 1..24 |-> 0]
LogRows == <<0, 0, 0, 0>>
Notice == <<0>>

(* What -init puts into _names. The first row of two menus depends on the  *)
(* network; the alert of "About" lists nothing.                            *)
ListOf(menu) ==
  CASE menu = "hardware" -> IF network THEN HardwareRows ELSE Tail(HardwareRows)
    [] menu = "memory" -> IF network THEN MemoryRows ELSE Tail(MemoryRows)
    [] menu = "software" -> SoftwareRows
    [] menu = "power" -> PowerRows
    [] menu = "log" -> LogRows
    [] OTHER -> <<>>

(* What -itemSelected: of each menu does with a row. /bin and /usr/sbin    *)
(* cannot be launched, a task without a path neither, and a running task   *)
(* takes no new path. Only one branch for row 0 of the software menu is    *)
(* reached, and that one does nothing; the execlp of row 2 finds no program*)
HardwareEffect(row) == IF row = 0 THEN "system" ELSE "none"

SoftwareEffect(row) ==
  CASE row \in {1, 5, 6, 7} -> "system"
    [] row = 4 -> "halt"
    [] OTHER -> "none"

MemoryEffect(row) == IF row = 8 THEN "open log" ELSE "none"

PowerEffect(row) ==
  CASE row \in {0, 18} -> "kill"
    [] row \in {1, 3, 4} -> "raise"
    [] row \in {2, 5} -> "launch and raise"
    [] row \in {6, 7, 8, 9, 10, 12, 19} -> "halt"
    [] row \in {11, 15} -> "reboot"
    [] row \in {14, 17} -> "system"
    [] row \in {20, 22, 23} -> "read"
    [] OTHER -> "none"

LogEffect(row) ==
  CASE row = 0 -> "launch"
    [] row \in {2, 3} -> "wait"
    [] OTHER -> "none"

Effect(menu, row) ==
  CASE menu = "hardware" -> HardwareEffect(row)
    [] menu = "software" -> SoftwareEffect(row)
    [] menu = "memory" -> MemoryEffect(row)
    [] menu = "power" -> PowerEffect(row)
    [] menu = "log" -> LogEffect(row)
    [] OTHER -> "none"
-----------------------------------------------------------------------------
Innermost == calls[Len(calls)]
Top == stack[Len(stack)]
Pop(s) == SubSeq(s, 1, Len(s) - 1)
Free(c) == child[c] = "free"
WaitedOn(c) == \E i \in DOMAIN calls : calls[i].child = c

(* The run loop turns: at the bottom, or inside -waitUntilExit.            *)
ServesEvents == host = "up" /\ (calls # <<>> => Innermost.kind = "wait")

(* The remote selects a row of the list on top.                            *)
Selects(row) == ServesEvents /\ stack # <<>> /\ row < Len(Top.rows)
Chosen(row) == Effect(Top.menu, row)

(* The process of the host ends; processes it started run on, and those    *)
(* it had not reaped are reaped by launchd.                                *)
HostDies ==
  /\ host' = "down"
  /\ stack' = <<>>
  /\ calls' = <<>>

Orphaned(children) ==
  [c \in Children |-> IF children[c] = "exited" THEN "free" ELSE children[c]]
-----------------------------------------------------------------------------
(* The -init of the hardware and of the network menu walks the interfaces  *)
(* before anything else. One that has no address ends the host (lines 92   *)
(* and 123 of HardwareMainMenu.m, 91 and 124 of NetworkMainMenu.m); which  *)
(* there are, and what the walks leave allocated, is in NetworkRows.       *)
InterfacesCrash ==
  /\ ServesEvents
  /\ stack = <<>>
  /\ HostDies
  /\ child' = Orphaned(child)
  /\ UNCHANGED <<network, device>>

(* -controllerForIdentifier: and the push. SoftwareMainMenu's -init gives  *)
(* up when it cannot read Info.plist, and nothing is pushed.               *)
SelectCategory(menu) ==
  /\ ServesEvents
  /\ stack = <<>>
  /\ menu # "network"
  /\ \/ stack' = <<[menu |-> menu, rows |-> ListOf(menu)]>>
     \/ menu = "software" /\ UNCHANGED stack
  /\ UNCHANGED <<network, calls, child, host, device>>

(* Slip: the pages are fetched in a run loop, as -waitUntilExit waits.     *)
SelectNetworkInRunLoop ==
  /\ ServesEvents
  /\ stack = <<>>
  /\ \/ /\ ~network
        /\ stack' = <<[menu |-> "network", rows |-> Notice]>>
        /\ UNCHANGED calls
     \/ /\ calls' = Append(calls, [kind |-> "wait", child |-> NoChild])
        /\ UNCHANGED stack
  /\ UNCHANGED <<network, child, host, device>>

(* NetworkMainMenu: -init looks up a host and fetches two pages before it  *)
(* returns. Without a network it may, by the NSError it never initialised, *)
(* list the notice alone.                                                  *)
SelectNetwork ==
  /\ ServesEvents
  /\ stack = <<>>
  /\ \/ /\ ~network
        /\ stack' = <<[menu |-> "network", rows |-> Notice]>>
        /\ UNCHANGED calls
     \/ /\ calls' = Append(calls, [kind |-> "fetch", child |-> NoChild])
        /\ UNCHANGED stack
  /\ UNCHANGED <<network, child, host, device>>

(* Slip: the time-outs of the fetches are left out, and one hangs offline. *)
FetchReturnsOnline ==
  /\ network
  /\ calls # <<>>
  /\ Innermost.child = NoChild
  /\ calls' = Pop(calls)
  /\ stack' = Append(stack, [menu |-> "network", rows |-> NetworkRows])
  /\ UNCHANGED <<network, child, host, device>>

(* The answers are there, or timed out, and the menu is pushed over what   *)
(* is open by then.                                                        *)
FetchReturns ==
  /\ calls # <<>>
  /\ Innermost.child = NoChild
  /\ calls' = Pop(calls)
  /\ stack' = Append(stack, [menu |-> "network", rows |-> NetworkRows])
  /\ UNCHANGED <<network, child, host, device>>

(* system(), or an NSTask read to the end of its output: the thread is     *)
(* held until the process is gone.                                         *)
RowBlocks(row, c) ==
  /\ Selects(row)
  /\ Chosen(row) \in {"system", "read", "halt", "kill"}
  /\ Free(c)
  /\ child' = [child EXCEPT ![c] =
       CASE Chosen(row) = "halt" -> "halts"
         [] Chosen(row) = "kill" -> "kills"
         [] OTHER -> "runs"]
  /\ calls' = Append(calls, [kind |-> "block", child |-> c])
  /\ UNCHANGED <<network, stack, host, device>>

(* +changeOwner: and +changePermissions: of LogMainMenu: -launch and       *)
(* -waitUntilExit, which runs the run loop.                                *)
RowWaits(row, c) ==
  /\ Selects(row)
  /\ Chosen(row) = "wait"
  /\ Free(c)
  /\ child' = [child EXCEPT ![c] = "runs"]
  /\ calls' = Append(calls, [kind |-> "wait", child |-> c])
  /\ UNCHANGED <<network, stack, host, device>>

RowLaunches(row, c) ==
  /\ Selects(row)
  /\ Chosen(row) = "launch"
  /\ Free(c)
  /\ child' = [child EXCEPT ![c] = "runs"]
  /\ UNCHANGED <<network, app, device>>

(* An exception nobody catches ends the host. Tasks raise in -launch when  *)
(* their tool is not installed.                                            *)
RowRaises(row) ==
  /\ Selects(row)
  /\ Chosen(row) \in {"raise", "launch", "wait", "read"}
  /\ HostDies
  /\ child' = Orphaned(child)
  /\ UNCHANGED <<network, device>>

(* The task is launched, and only then -setLaunchPath: raises.             *)
RowLaunchesThenRaises(row, c) ==
  /\ Selects(row)
  /\ Chosen(row) = "launch and raise"
  /\ Free(c)
  /\ HostDies
  /\ child' = Orphaned([child EXCEPT ![c] = "runs"])
  /\ UNCHANGED <<network, device>>

(* reboot(2), for those who may; others get EPERM and nothing happens.     *)
RowReboots(row) ==
  /\ Selects(row)
  /\ Chosen(row) = "reboot"
  /\ HostDies
  /\ child' = NoChildren
  /\ UNCHANGED <<network, device>>

(* MemoryMainMenu pushes the log menu over itself.                         *)
RowOpensLog(row) ==
  /\ Selects(row)
  /\ Chosen(row) = "open log"
  /\ stack' = Append(stack, [menu |-> "log", rows |-> ListOf("log")])
  /\ UNCHANGED <<network, calls, child, host, device>>

(* -brEventAction of every menu: the controller on top is popped, also     *)
(* when its own -itemSelected: is one of the open calls.                   *)
MenuButton ==
  /\ ServesEvents
  /\ stack # <<>>
  /\ stack' = Pop(stack)
  /\ UNCHANGED <<network, calls, child, host, device>>
-----------------------------------------------------------------------------
(* A command ends; so does a halt that lacks the privilege.                *)
ChildExits(c) ==
  /\ child[c] \in {"runs", "halts"}
  /\ child' = [child EXCEPT ![c] = "exited"]
  /\ UNCHANGED <<network, app, device>>

(* A process that was launched and that no call waits for is collected.    *)
ChildCollected(c) ==
  /\ child[c] = "exited"
  /\ ~WaitedOn(c)
  /\ child' = [child EXCEPT ![c] = "free"]
  /\ UNCHANGED <<network, app, device>>

(* killall -9 AppleTV, by which its own caller ends.                       *)
KillsHost(c) ==
  /\ child[c] = "kills"
  /\ HostDies
  /\ child' = Orphaned([child EXCEPT ![c] = "free"])
  /\ UNCHANGED <<network, device>>

HaltsDevice(c) ==
  /\ child[c] = "halts"
  /\ HostDies
  /\ child' = NoChildren
  /\ device' = "off"
  /\ UNCHANGED network

(* Slip: a call that reads output never sees its end, because a write end  *)
(* of the pipe stays open.                                                 *)
CallReturnsNoEof(c) ==
  /\ calls # <<>>
  /\ Innermost = [kind |-> "wait", child |-> c]
  /\ child[c] = "exited"
  /\ calls' = Pop(calls)
  /\ child' = [child EXCEPT ![c] = "free"]
  /\ UNCHANGED <<network, stack, host, device>>

(* The innermost call finds its process gone and returns. An outer call    *)
(* whose process ended earlier cannot: it has to be the innermost first.   *)
CallReturns(c) ==
  /\ calls # <<>>
  /\ Innermost.child = c
  /\ child[c] = "exited"
  /\ calls' = Pop(calls)
  /\ child' = [child EXCEPT ![c] = "free"]
  /\ UNCHANGED <<network, stack, host, device>>

(* launchd starts AppleTV.app again.                                       *)
HostStarts ==
  /\ host = "down"
  /\ device = "on"
  /\ host' = "up"
  /\ UNCHANGED <<network, stack, calls, child, device>>

NetworkChanges == network' = ~network /\ UNCHANGED <<app, child, device>>
-----------------------------------------------------------------------------
User ==
  \/ \E menu \in Menus : SelectCategory(menu)
  \/ SelectNetwork \/ InterfacesCrash
  \/ \E row \in 0..23 :
       \/ RowRaises(row)
       \/ RowReboots(row)
       \/ RowOpensLog(row)
       \/ \E c \in Children :
            \/ RowBlocks(row, c)
            \/ RowWaits(row, c)
            \/ RowLaunches(row, c)
            \/ RowLaunchesThenRaises(row, c)
  \/ MenuButton

Next ==
  \/ User
  \/ FetchReturns
  \/ HostStarts
  \/ NetworkChanges
  \/ \E c \in Children :
       \/ ChildExits(c) \/ ChildCollected(c)
       \/ KillsHost(c) \/ HaltsDevice(c)
       \/ CallReturns(c)

(* Commands and fetches end, and launchd restarts the host. -waitUntilExit *)
(* asks about its process before it turns the run loop again: a call that  *)
(* is innermost ever so often with its process gone returns. The user owes *)
(* nothing.                                                                *)
ChildEnds(c) == ChildExits(c) \/ HaltsDevice(c)

ChildFairness(c) ==
  /\ WF_vars(ChildEnds(c))
  /\ WF_vars(KillsHost(c))
  /\ SF_vars(CallReturns(c))

HostFairness == WF_vars(FetchReturns) /\ WF_vars(HostStarts)

Fairness == HostFairness /\ \A c \in Children : ChildFairness(c)

Spec == Init /\ [][Next]_vars /\ Fairness
-----------------------------------------------------------------------------
(* While a handler holds the thread no other handler begins: a call that   *)
(* does not run the run loop is the innermost (LogMainMenu.m:210 and 230   *)
(* against PowerMainMenu.m:147 and the calls of system).                   *)
BlockedIsInnermost ==
  \A i \in DOMAIN calls : calls[i].kind # "wait" => i = Len(calls)

(* One menu is open, or the log menu over the memory menu. Menus are       *)
(* entered and left while handlers of menus long gone still wait, and the  *)
(* network menu is pushed by a call that began many steps before: nothing  *)
(* may have been opened under it meanwhile (ATV2Appliance.mm:110,          *)
(* NetworkMainMenu.m:194, MemoryMainMenu.m:256).                           *)
LogOverMemory ==
  /\ Len(stack) <= 2
  /\ Len(stack) = 2 => stack[1].menu = "memory" /\ stack[2].menu = "log"

(* Whenever the remote is not served something is at work that will serve  *)
(* it: launchd, a fetch, or the process of the call that holds the thread, *)
(* which is not reaped behind the back of that call, however many others   *)
(* wait under it.                                                          *)
RemoteCanReturn ==
  /\ host = "down" /\ device = "on" => ENABLED <<HostStarts>>_vars
  /\ host = "up" /\ ~ServesEvents =>
       \/ Innermost.kind = "fetch" /\ ENABLED <<FetchReturns>>_vars
       \/ /\ Innermost.kind = "block"
          /\ \A c \in Children : c = Innermost.child =>
               \/ child[c] \in {"runs", "halts"} /\ ENABLED <<ChildEnds(c)>>_vars
               \/ child[c] = "kills" /\ ENABLED <<KillsHost(c)>>_vars
               \/ child[c] = "exited" /\ ENABLED <<CallReturns(c)>>_vars

(* A handler that waits for its process returns or ends with its host,     *)
(* whatever the user nests into it meanwhile.                              *)
WaitsReturn == \A c \in Children : WaitedOn(c) ~> ~WaitedOn(c)

(* The remote is served again after every command, fetch, exception and    *)
(* restart, unless the device was halted.                                  *)
RemoteServed == host = "down" \/ calls # <<>> ~> ServesEvents \/ device = "off"
=============================================================================
