-------------------------- MODULE MemoryMenuProofs --------------------------
(***************************************************************************)
(* The memory menu's list is consistent with itself for every limit and    *)
(* every bound on the size of the syslog, as long as the file stays on its *)
(* side of the limit.                                                      *)
(***************************************************************************)
EXTENDS MemoryMenu, TLAPS

Large == logSize >= Limit

(* What the reads have decided so far, while the syslog has not crossed    *)
(* the limit: all of them saw the same side of it.                         *)
Decided ==
  LET notice == IF Large THEN {"rotate"} ELSE {}
      either == IF Large THEN {"rotate"} ELSE {"usage"}
  IN
  /\ stage \in {"notice", "usage", "shown", "log"} => (label >= Limit <=> Large)
  /\ stage = "usage" => dividers[8] = notice
  /\ Open => dividers[8] = either
  /\ accessories # {} => (Arrow \in accessories <=> Large)

(* A controller that is not shown has drawn nothing, and row 8 alone opens *)
(* the log menu.                                                           *)
IInv ==
  /\ TypeOK
  /\ stage = "log" => chosen = 8
  /\ ~Open => accessories = {}
  /\ ~crossed => Decided

LEMMA InitIInv == Init => IInv
<1> SUFFICES ASSUME Init PROVE IInv
  OBVIOUS
<1>1. TypeOK
  <2>1. NoDividers \in [Indices -> SUBSET Labels]
    BY DEF NoDividers
  <2>2. 0 \in 0..MaxSize /\ 0 \in Nat
    BY MenuAssumption
  <2>3. network \in BOOLEAN /\ logSize \in 0..MaxSize
    BY DEF Init
  <2>4. names \in {<<>>, Rows, Tail(Rows)} /\ accessories \subseteq {Arrow, Tick}
    BY DEF Init
  <2>5. crossed \in BOOLEAN
    BY DEF Init
  <2> QED
    BY <2>1, <2>2, <2>3, <2>4, <2>5, Zenon DEF Init, TypeOK
<1>2. ~Open /\ accessories = {} /\ stage # "log"
  BY DEF Init, Open
<1>3. Decided
  BY <1>2 DEF Init, Decided, Open
<1> QED
  BY <1>1, <1>2, <1>3 DEF IInv

LEMMA StepIInv == IInv /\ [Next]_vars => IInv'
<1> SUFFICES ASSUME IInv, [Next]_vars PROVE IInv'
  OBVIOUS
<1> USE MenuAssumption DEF IInv, TypeOK, Decided, Open, Large
<1>1. CASE BuildNames
  BY <1>1 DEF BuildNames
<1>2. CASE ReadLabel
  BY <1>2 DEF ReadLabel
<1>3. CASE ReadNotice
  BY <1>3 DEF ReadNotice, NoDividers, Indices, Labels
<1>4. CASE ReadUsage
  <2>1. /\ dividers' \in [Indices -> SUBSET Labels]
        /\ dividers'[8] = dividers[8] \cup IF Large THEN {} ELSE {"usage"}
    <3>1. {"usage"} \subseteq Labels /\ {"ram"} \subseteq Labels
      BY DEF Labels
    <3> QED
      BY <1>4, <3>1 DEF ReadUsage, Indices
  <2> QED
    BY <1>4, <2>1 DEF ReadUsage
<1>5. CASE ItemForRow
  BY <1>5 DEF ItemForRow, Arrow, Tick
<1>6. CASE \E row \in 0..(Len(names) - 1) : ItemSelected(row)
  BY <1>6 DEF ItemSelected
<1>7. CASE MenuButton
  BY <1>7 DEF MenuButton, NoDividers, Indices
<1>8. ASSUME NEW size \in 0..MaxSize, SyslogBecomes(size) PROVE IInv'
  <2>1. TypeOK' /\ UNCHANGED <<stage, accessories>>
    BY <1>8 DEF SyslogBecomes, menu
  <2>2. ~crossed' => ~crossed /\ (logSize < Limit <=> size < Limit)
    BY <1>8, Zenon DEF SyslogBecomes
  <2>3. (Large <=> ~(logSize < Limit)) /\ (Large' <=> ~(size < Limit))
    BY <1>8 DEF SyslogBecomes
  <2> QED
    BY <1>8, <2>1, <2>2, <2>3 DEF SyslogBecomes, menu
<1>9. CASE SyslogGrows
  <2>1. logSize + 1 \in 0..MaxSize /\ SyslogBecomes(logSize + 1)
    BY <1>9 DEF SyslogGrows
  <2> QED
    BY ONLY <2>1, <1>8
<1>10. CASE SyslogRotates
  <2>1. 0 \in 0..MaxSize /\ SyslogBecomes(0)
    BY <1>10 DEF SyslogRotates
  <2> QED
    BY ONLY <2>1, <1>8
<1>11. CASE NetworkChanges
  BY <1>11 DEF NetworkChanges, menu
<1>12. CASE UNCHANGED vars
  BY <1>12 DEF vars, menu
<1> QED
  BY <1>1, <1>2, <1>3, <1>4, <1>5, <1>6, <1>7, <1>9, <1>10, <1>11, <1>12 DEF Next

LEMMA Invariance == Spec => []IInv
  BY InitIInv, StepIInv, PTL DEF Spec

(* The rows of a list are those of a network that was up or down, and all  *)
(* other state has its type.                                               *)
THEOREM TypeCorrect == Spec => []TypeOK
  BY Invariance, PTL DEF IInv

(* The three reads of -init agree -- the text of the syslog row, and the   *)
(* one divider above it -- unless the syslog crossed the limit between     *)
(* them (MemoryMainMenu.m lines 106, 125, 130).                            *)
THEOREM DividersAgree == Spec => []DividerAgrees
<1>1. IInv => DividerAgrees
  BY DEF IInv, Decided, DividerAgrees, Open
<1> QED
  BY <1>1, Invariance, PTL

(* The arrow that -itemForRow draws later stands under the notice          *)
(* (MemoryMainMenu.m lines 125, 297).                                      *)
THEOREM ArrowsAgree == Spec => []ArrowAgrees
<1>1. IInv => ArrowAgrees
  BY DEF IInv, Decided, ArrowAgrees
<1> QED
  BY <1>1, Invariance, PTL

(* The row that opens the log menu of a list built with the network up is  *)
(* the syslog's, for good (MemoryMainMenu.m lines 91, 256).                *)
THEOREM LogRowOnline == Spec => []OnlineLogRow
<1>1. Rows[9] = "syslog size"
  BY DEF Rows
<1>2. IInv => OnlineLogRow
  <2> SUFFICES ASSUME IInv, stage = "log", BuiltOnline
               PROVE names[chosen + 1] = "syslog size"
    BY DEF OnlineLogRow
  <2>1. chosen + 1 = 9
    BY DEF IInv
  <2> QED
    BY <1>1, <2>1, Zenon DEF BuiltOnline
<1> QED
  BY <1>2, Invariance, PTL

(* The dividers that no size decides about.                                *)
Fixed ==
  /\ stage = "usage" \/ Open =>
       dividers[0] = {"private var"} /\ dividers[3] = {"user"} /\ dividers[6] = {"dev"}
  /\ Open => dividers[11] = {"ram"}

LEMMA StepFixed == IInv /\ Fixed /\ [Next]_vars => Fixed'
<1> SUFFICES ASSUME IInv, Fixed, [Next]_vars PROVE Fixed'
  OBVIOUS
<1> USE DEF Fixed, Open
<1>1. dividers \in [Indices -> SUBSET Labels]
  BY DEF IInv, TypeOK
<1>2. CASE ReadNotice
  <2> DEFINE notice == IF logSize >= Limit THEN {"rotate"} ELSE {}
             a == {"private var"}
             b == {"user"}
             c == {"dev"}
  <2>3. dividers' = [NoDividers EXCEPT ![0] = a, ![3] = b, ![6] = c, ![8] = notice]
    BY <1>2 DEF ReadNotice
  <2> HIDE DEF notice, a, b, c
  <2>4. NoDividers = [index \in Indices |-> {}]
    BY DEF NoDividers
  <2>5. dividers'[0] = a /\ dividers'[3] = b /\ dividers'[6] = c
    <3>1. 0 \in Indices /\ 3 \in Indices /\ 6 \in Indices
      BY DEF Indices
    <3> QED
      BY ONLY <2>3, <2>4, <3>1
  <2>1. /\ dividers'[0] = {"private var"} /\ dividers'[3] = {"user"}
        /\ dividers'[6] = {"dev"}
    BY <2>5 DEF a, b, c
  <2>2. stage' = "usage"
    BY <1>2 DEF ReadNotice
  <2> QED
    BY <2>1, <2>2
<1>3. CASE ReadUsage
  <2> DEFINE new == dividers[8] \cup (IF logSize < Limit THEN {"usage"} ELSE {})
             ram == {"ram"}
  <2>1. dividers' = [dividers EXCEPT ![8] = new, ![11] = ram]
    BY <1>3 DEF ReadUsage
  <2> HIDE DEF new, ram
  <2>4. /\ dividers'[0] = dividers[0] /\ dividers'[3] = dividers[3]
        /\ dividers'[6] = dividers[6] /\ dividers'[11] = ram
    <3>1. 0 \in Indices /\ 3 \in Indices /\ 6 \in Indices /\ 11 \in Indices
      BY DEF Indices
    <3> QED
      BY ONLY <1>1, <2>1, <3>1
  <2>2. /\ dividers'[0] = dividers[0] /\ dividers'[3] = dividers[3]
        /\ dividers'[6] = dividers[6] /\ dividers'[11] = {"ram"}
    BY <2>4 DEF ram
  <2>3. stage = "usage"
    BY <1>3 DEF ReadUsage
  <2> QED
    BY <2>2, <2>3
<1>4. CASE ~ReadNotice /\ ~ReadUsage
  <2>1. CASE BuildNames \/ ReadLabel
    BY <2>1 DEF BuildNames, ReadLabel
  <2>2. CASE ItemForRow \/ (\E row \in 0..(Len(names) - 1) : ItemSelected(row))
    BY <2>2 DEF ItemForRow, ItemSelected
  <2>3. CASE MenuButton
    BY <2>3 DEF MenuButton
  <2>4. CASE SyslogGrows \/ SyslogRotates
    BY <2>4 DEF SyslogGrows, SyslogRotates, SyslogBecomes, menu
  <2>5. CASE NetworkChanges
    BY <2>5 DEF NetworkChanges, menu
  <2>6. CASE UNCHANGED vars
    BY <2>6 DEF vars, menu
  <2> QED
    BY <1>4, <2>1, <2>2, <2>3, <2>4, <2>5, <2>6 DEF Next
<1> QED
  BY <1>2, <1>3, <1>4

(* The nearest divider above a row, found by its index.                    *)
LEMMA NearestAbove ==
  ASSUME NEW row \in Nat, NEW m \in Indices, m <= row, dividers[m] # {},
         \A j \in Indices : j <= row => j <= m
  PROVE  SectionOf(row) = dividers[m]
<1> DEFINE above == {i \in Indices : i <= row /\ dividers[i] # {}}
           nearest == CHOOSE i \in above : \A j \in above : j <= i
<1>1. m \in above /\ \A j \in above : j <= m
  OBVIOUS
<1>2. nearest \in above /\ \A j \in above : j <= nearest
  BY <1>1
<1>3. nearest = m
  BY <1>1, <1>2 DEF Indices
<1> QED
  BY <1>3 DEF SectionOf

(* The rows of a list built with the network up.                           *)
LEMMA RowNames ==
  /\ Len(Rows) = 15
  /\ {Rows[1], Rows[2], Rows[3]} = {"system total", "system free", "system pct"}
  /\ {Rows[4], Rows[5], Rows[6]} = {"user total", "user free", "user pct"}
  /\ {Rows[7], Rows[8]} = {"dev total", "dev free"}
  /\ {Rows[9], Rows[10], Rows[11]} = {"syslog size", "caches rentals", "caches other"}
  /\ {Rows[12], Rows[13], Rows[14], Rows[15]} =
       {"max ram", "free ram", "std ram", "buffer size"}
<1>1. /\ Len(Rows) = 15
      /\ Rows[1] = "system total" /\ Rows[2] = "system free" /\ Rows[3] = "system pct"
      /\ Rows[4] = "user total" /\ Rows[5] = "user free" /\ Rows[6] = "user pct"
      /\ Rows[7] = "dev total" /\ Rows[8] = "dev free"
  BY DEF Rows
<1>2. /\ Rows[9] = "syslog size" /\ Rows[10] = "caches rentals" /\ Rows[11] = "caches other"
      /\ Rows[12] = "max ram" /\ Rows[13] = "free ram" /\ Rows[14] = "std ram"
      /\ Rows[15] = "buffer size"
  BY DEF Rows
<1> QED
  BY ONLY <1>1, <1>2, Zenon

(* The sections of a finished list, whatever the limit: rows 0 to 2 stand  *)
(* under "private var", 3 to 5 under "user", 6 and 7 under "dev", 8 to 10  *)
(* under one of the syslog's, the rest under "ram" (lines 91-135).         *)
THEOREM SectionsFitRows == Spec => []SectionsFit
<1>1. Init => Fixed
  BY DEF Init, Fixed, Open
<1>2. IInv /\ Fixed => SectionsFit
  <2> SUFFICES ASSUME IInv, Fixed, Open, BuiltOnline, ~crossed, NEW row \in 0..(Len(names) - 1)
               PROVE  SectionOf(row) \in ProperSections(names[row + 1])
    BY DEF SectionsFit
  <2>1. names = Rows /\ row \in 0..14
    <3>1. names = Rows
      BY DEF BuiltOnline
    <3>2. row \in 0..(Len(Rows) - 1) /\ Len(Rows) = 15
      BY <3>1, RowNames
    <3> QED
      BY ONLY <3>1, <3>2
  <2>2. dividers[8] = {"rotate"} \/ dividers[8] = {"usage"}
    BY DEF IInv, Decided
  <2>3. /\ dividers[0] = {"private var"} /\ dividers[3] = {"user"}
        /\ dividers[6] = {"dev"} /\ dividers[11] = {"ram"}
    BY DEF Fixed
  <2>4. CASE row \in 0..2
    <3>1. SectionOf(row) = dividers[0]
      <4>1. /\ row \in Nat /\ 0 \in Indices /\ 0 <= row
            /\ \A j \in Indices : j <= row => j <= 0
        BY <2>4 DEF Indices
      <4>2. dividers[0] # {}
        BY <2>3
      <4> QED
        BY ONLY <4>1, <4>2, NearestAbove
    <3>2. names[row + 1] \in {"system total", "system free", "system pct"}
      <4>1. row + 1 = 1 \/ row + 1 = 2 \/ row + 1 = 3
        BY <2>4
      <4> QED
        BY ONLY <2>1, <4>1, RowNames, Zenon
    <3> QED
      BY <2>3, <3>1, <3>2 DEF ProperSections
  <2>5. CASE row \in 3..5
    <3>1. SectionOf(row) = dividers[3]
      <4>1. /\ row \in Nat /\ 3 \in Indices /\ 3 <= row
            /\ \A j \in Indices : j <= row => j <= 3
        BY <2>5 DEF Indices
      <4>2. dividers[3] # {}
        BY <2>3
      <4> QED
        BY ONLY <4>1, <4>2, NearestAbove
    <3>2. names[row + 1] \in {"user total", "user free", "user pct"}
      <4>1. row + 1 = 4 \/ row + 1 = 5 \/ row + 1 = 6
        BY <2>5
      <4> QED
        BY ONLY <2>1, <4>1, RowNames, Zenon
    <3> QED
      BY <2>3, <3>1, <3>2 DEF ProperSections
  <2>6. CASE row \in 6..7
    <3>1. SectionOf(row) = dividers[6]
      <4>1. /\ row \in Nat /\ 6 \in Indices /\ 6 <= row
            /\ \A j \in Indices : j <= row => j <= 6
        BY <2>6 DEF Indices
      <4>2. dividers[6] # {}
        BY <2>3
      <4> QED
        BY ONLY <4>1, <4>2, NearestAbove
    <3>2. names[row + 1] \in {"dev total", "dev free"}
      <4>1. row + 1 = 7 \/ row + 1 = 8
        BY <2>6
      <4> QED
        BY ONLY <2>1, <4>1, RowNames, Zenon
    <3> QED
      BY <2>3, <3>1, <3>2 DEF ProperSections
  <2>7. CASE row \in 8..10
    <3>1. SectionOf(row) = dividers[8]
      <4>1. /\ row \in Nat /\ 8 \in Indices /\ 8 <= row
            /\ \A j \in Indices : j <= row => j <= 8
        BY <2>7 DEF Indices
      <4>2. dividers[8] # {}
        BY <2>2
      <4> QED
        BY ONLY <4>1, <4>2, NearestAbove
    <3>2. names[row + 1] \in {"syslog size", "caches rentals", "caches other"}
      <4>1. row + 1 = 9 \/ row + 1 = 10 \/ row + 1 = 11
        BY <2>7
      <4> QED
        BY ONLY <2>1, <4>1, RowNames, Zenon
    <3> QED
      BY <2>2, <3>1, <3>2 DEF ProperSections
  <2>8. CASE row \in 11..14
    <3>1. SectionOf(row) = dividers[11]
      <4>1. /\ row \in Nat /\ 11 \in Indices /\ 11 <= row
            /\ \A j \in Indices : j <= row => j <= 11
        BY <2>8 DEF Indices
      <4>2. dividers[11] # {}
        BY <2>3
      <4> QED
        BY ONLY <4>1, <4>2, NearestAbove
    <3>2. names[row + 1] \in {"max ram", "free ram", "std ram", "buffer size"}
      <4>1. row + 1 = 12 \/ row + 1 = 13 \/ row + 1 = 14 \/ row + 1 = 15
        BY <2>8
      <4> QED
        BY ONLY <2>1, <4>1, RowNames, Zenon
    <3> QED
      BY <2>3, <3>1, <3>2 DEF ProperSections
  <2> QED
    BY <2>1, <2>4, <2>5, <2>6, <2>7, <2>8
<1> QED
  BY <1>1, <1>2, Invariance, StepFixed, PTL DEF Spec
=============================================================================
