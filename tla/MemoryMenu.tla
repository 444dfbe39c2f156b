----------------------------- MODULE MemoryMenu -----------------------------
(***************************************************************************)
(* MemoryMainMenu.m: the list of disk, syslog and memory sizes.            *)
(*                                                                         *)
(* -init reads the network once and the size of /var/log/syslog three      *)
(* times, for the text of a row and for each of two dividers; -itemForRow  *)
(* reads it again whenever the row is drawn. Other processes write and     *)
(* rotate the file and the network comes and goes meanwhile, so each read  *)
(* is a step of its own. Rows count from 0, as in the source; what a row   *)
(* says is its name here.                                                  *)
(***************************************************************************)
EXTENDS Naturals, Sequences

CONSTANTS
  Limit,    \* the 50000000 bytes of lines 125, 130 and 297
  MaxSize   \* bound: the syslog grows up to here

ASSUME MenuAssumption == MaxSize \in Nat /\ Limit \in 1..MaxSize

VARIABLES
  network,      \* what -networkAvailable answers
  logSize,      \* size of the file, what -logSize answers
  stage,        \* of the controller: which read of -init is next, or what is shown
  names,        \* _names, one entry a row
  label,        \* the size in the text of the syslog row
  dividers,     \* of the list: the texts added at each index
  accessories,  \* of the item last drawn for row 8
  chosen,       \* the row whose selection opened the log menu
  crossed       \* history: the syslog crossed Limit since -init began

menu == <<stage, names, label, dividers, accessories, chosen>>
vars == <<network, logSize, menu, crossed>>

(* The rows of lines 93 to 115, named for what they show.                  *)
Rows == <<"system total", "system free", "system pct",
          "user total", "user free", "user pct",
          "dev total", "dev free",
          "syslog size", "caches rentals", "caches other",
          "max ram", "free ram", "std ram", "buffer size">>

Arrow == 3
Tick == 7

Indices == {0, 3, 6, 8, 11}
Labels == {"private var", "user", "dev", "rotate", "usage", "ram"}

NoDividers == [index \in Indices |-> {}]

TypeOK ==
  /\ network \in BOOLEAN
  /\ logSize \in 0..MaxSize
  /\ stage \in {"closed", "label", "notice", "usage", "shown", "log"}
  /\ names \in {<<>>, Rows, Tail(Rows)}
  /\ label \in 0..MaxSize
  /\ dividers \in [Indices -> SUBSET Labels]
  /\ accessories \subseteq {Arrow, Tick}
  /\ chosen \in Nat
  /\ crossed \in BOOLEAN

Init ==
  /\ network \in BOOLEAN
  /\ logSize \in 0..MaxSize
  /\ stage = "closed"
  /\ names = <<>>
  /\ label = 0
  /\ dividers = NoDividers
  /\ accessories = {}
  /\ chosen = 0
  /\ crossed = FALSE
-----------------------------------------------------------------------------
(* -init as far as the rows: the if of line 91 has no braces and decides   *)
(* about the first row alone.                                              *)
BuildNames ==
  /\ stage = "closed"
  /\ names' = IF network THEN Rows ELSE Tail(Rows)
  /\ stage' = "label"
  /\ crossed' = FALSE
  /\ UNCHANGED <<network, logSize, label, dividers, accessories, chosen>>

(* -prettyBytesLogSize for the syslog row, line 106.                       *)
ReadLabel ==
  /\ stage = "label"
  /\ label' = logSize
  /\ stage' = "notice"
  /\ UNCHANGED <<network, logSize, names, dividers, accessories, chosen, crossed>>

(* The fixed dividers, and the first question about the size.              *)
ReadNotice ==
  /\ stage = "notice"
  /\ dividers' = [NoDividers EXCEPT
       ![0] = {"private var"}, ![3] = {"user"}, ![6] = {"dev"},
       ![8] = IF logSize >= Limit THEN {"rotate"} ELSE {}]
  /\ stage' = "usage"
  /\ UNCHANGED <<network, logSize, names, label, accessories, chosen, crossed>>

(* Slips: an off-by-one in the second question; a wrong index.             *)
ReadUsageAtLimit ==
  /\ stage = "usage"
  /\ dividers' = [dividers EXCEPT
       ![8] = @ \cup (IF logSize <= Limit THEN {"usage"} ELSE {}), ![11] = {"ram"}]
  /\ stage' = "shown"
  /\ UNCHANGED <<network, logSize, names, label, accessories, chosen, crossed>>

ReadUsageHigher ==
  /\ stage = "usage"
  /\ dividers' = [dividers EXCEPT
       ![8] = @ \cup (IF logSize < Limit THEN {"usage"} ELSE {}) \cup {"ram"}]
  /\ stage' = "shown"
  /\ UNCHANGED <<network, logSize, names, label, accessories, chosen, crossed>>

(* The second question, line 130, and the last divider.                    *)
ReadUsage ==
  /\ stage = "usage"
  /\ dividers' = [dividers EXCEPT
       ![8] = @ \cup (IF logSize < Limit THEN {"usage"} ELSE {}), ![11] = {"ram"}]
  /\ stage' = "shown"
  /\ UNCHANGED <<network, logSize, names, label, accessories, chosen, crossed>>

(* Slip: the arrow needs more than the limit.                              *)
ItemForRowAbove ==
  /\ stage = "shown"
  /\ accessories' = {Tick} \cup (IF logSize > Limit THEN {Arrow} ELSE {})
  /\ UNCHANGED <<network, logSize, stage, names, label, dividers, chosen, crossed>>

(* -itemForRow:8, whenever the list draws that row; the braces of lines    *)
(* 304 to 306 belong to no else. The other rows get no accessory.          *)
ItemForRow ==
  /\ stage = "shown"
  /\ accessories' = {Tick} \cup (IF logSize >= Limit THEN {Arrow} ELSE {})
  /\ UNCHANGED <<network, logSize, stage, names, label, dividers, chosen, crossed>>

(* -itemSelected: row 8 pushes a LogMainMenu, the others do nothing.       *)
ItemSelected(row) ==
  /\ stage = "shown"
  /\ row = 8
  /\ stage' = "log"
  /\ chosen' = row
  /\ UNCHANGED <<network, logSize, names, label, dividers, accessories, crossed>>

(* -brEventAction, the Menu button: the controller on top is popped, and   *)
(* this menu is deallocated when it was the one.                           *)
MenuButton ==
  \/ /\ stage = "log"
     /\ stage' = "shown"
     /\ UNCHANGED <<network, logSize, names, label, dividers, accessories, chosen,
                    crossed>>
  \/ /\ stage = "shown"
     /\ stage' = "closed"
     /\ names' = <<>>
     /\ dividers' = NoDividers
     /\ accessories' = {}
     /\ UNCHANGED <<network, logSize, label, chosen, crossed>>

(* syslogd appends and newsyslog rotates.                                  *)
SyslogBecomes(size) ==
  /\ logSize' = size
  /\ crossed' = (crossed \/ ~(logSize < Limit <=> size < Limit))
  /\ UNCHANGED <<network, menu>>

SyslogGrows == logSize < MaxSize /\ SyslogBecomes(logSize + 1)
SyslogRotates == logSize > 0 /\ SyslogBecomes(0)

NetworkChanges == network' = ~network /\ UNCHANGED <<logSize, menu, crossed>>
-----------------------------------------------------------------------------
Next ==
  \/ BuildNames
  \/ ReadLabel
  \/ ReadNotice
  \/ ReadUsage
  \/ ItemForRow
  \/ \E row \in 0..(Len(names) - 1) : ItemSelected(row)
  \/ MenuButton
  \/ SyslogGrows
  \/ SyslogRotates
  \/ NetworkChanges

Spec == Init /\ [][Next]_vars
-----------------------------------------------------------------------------
Open == stage \in {"shown", "log"}
BuiltOnline == names = Rows

(* A finished list has one divider at row 8, the one that agrees with the  *)
(* size in the row's text, although three separate reads decide: unless    *)
(* the syslog crossed the limit meanwhile (lines 106, 125, 130).           *)
DividerAgrees ==
  Open /\ ~crossed =>
    dividers[8] = IF label >= Limit THEN {"rotate"} ELSE {"usage"}

(* The arrow of a row drawn any time later agrees with the notice that     *)
(* -init put above it, unless the syslog crossed the limit (lines 125, 297)*)
ArrowAgrees ==
  Open /\ ~crossed /\ accessories # {} =>
    (Arrow \in accessories <=> "rotate" \in dividers[8])

(* The divider a row stands under: the nearest above it.                   *)
SectionOf(row) ==
  LET above == {i \in Indices : i <= row /\ dividers[i] # {}} IN
  dividers[CHOOSE i \in above : \A j \in above : j <= i]

ProperSections(name) ==
  CASE name \in {"system total", "system free", "system pct"} -> {{"private var"}}
    [] name \in {"user total", "user free", "user pct"} -> {{"user"}}
    [] name \in {"dev total", "dev free"} -> {{"dev"}}
    [] name \in {"syslog size", "caches rentals", "caches other"} -> {{"rotate"}, {"usage"}}
    [] OTHER -> {{"ram"}}

(* In a list built with the network up every row stands under its own      *)
(* divider, whatever the network does later (lines 91-135).                *)
SectionsFit ==
  Open /\ BuiltOnline /\ ~crossed =>
    \A row \in 0..(Len(names) - 1) : SectionOf(row) \in ProperSections(names[row + 1])

(* In a list built with the network up only the syslog row opens the log   *)
(* menu, also after the network went down (lines 91, 256).                 *)
OnlineLogRow == stage = "log" /\ BuiltOnline => names[chosen + 1] = "syslog size"

(* "in case the syslog is smaller then 50MB it will just show te usage"    *)
(* (line 129), and the notice otherwise (line 124): one divider, always.   *)
OneDivider == Open => \E text \in Labels : dividers[8] = {text}

(* "case 8://logfile" (line 186) and "selected == 8 // ga naar het logfile *)
(* menu" (line 256): the row that opens the log menu shows the log.        *)
LogRowOpensLog == stage = "log" => names[chosen + 1] = "syslog size"
=============================================================================
