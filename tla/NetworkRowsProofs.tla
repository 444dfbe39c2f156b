------------------------- MODULE NetworkRowsProofs -------------------------
(***************************************************************************)
(* Theorems about NetworkRows, for every list of interfaces of any length  *)
(* and any changes of it: what the walks answer, what they leave behind,   *)
(* and that the rows of a menu agree when the interfaces stood still.      *)
(***************************************************************************)
EXTENDS NetworkRows, SequenceTheorems, TLAPS

(* What a walk that stores the entries S of l has found before the entry c.*)
SoFar(S, l, c, x, D) ==
  \/ x \in D /\ \A k \in S : ~(k < c)
  \/ \E k \in S : k < c /\ (\A j \in S : j < c => j <= k) /\ x = Read(l[k])

Wifi == EntriesFor("en1", {"inet"}, list)
Wireless == EntriesFor("en0", {"inet"}, list)
Ip == EntriesFor("en0", {"inet", "inet6"}, list)
Cellular == EntriesFor("pdp_ip0", {"inet", "inet6"}, list)

(* The loop invariants.                                                    *)
Walked ==
  at = "walk" =>
    /\ step = "port" => found = IF cursor = 1 THEN "" ELSE list[cursor - 1].name
    /\ step = "lan" => SoFar(Wifi, list, cursor, found, {"error"})
    /\ step = "isp" => SoFar(Wireless, list, cursor, found, {"nil", "text"})
    /\ step = "ip" => /\ SoFar(Ip, list, cursor, found, {"nil"})
                      /\ SoFar(Cellular, list, cursor, cell, {"nil"})
    /\ step = "wifi" => found = "nil" /\ \A k \in Wifi : ~(k < cursor)

Place ==
  /\ at = "get" => step = "isp" /\ found \in {"nil", "text"}
  /\ at = "walk" => step \in Walks
  /\ at \in {"size", "fill"} => step \in {"mac", "macW"}
  /\ at \in {"begin", "get"} => list = <<>> /\ cursor = 1 /\ cell = "nil"
  /\ at \in {"size", "fill"} => list = <<>> /\ cursor = 1 /\ cell = "nil"

Known == {"lan", "names"} \cup (IF hit THEN {"wifi"} ELSE {}) \cup refused

(* What is allocated now, and by whom.                                     *)
Held ==
  /\ held \ {step} \subseteq Known
  /\ at \notin {"walk", "fill"} => held \subseteq Known

(* While nothing moves, lists are the kernel's, and rows tell of it.       *)
Still ==
  /\ left => moved /\ at \in {"size", "fill"}
  /\ ~moved =>
       /\ at = "walk" => list = interfaces \/ list = <<>>
       /\ rows["mac"] \in {"en1", "nil", "unread"}
       /\ rows["macW"] \in {"en0", "nil", "unread"}
       /\ rows["lan"] \in Addresses => EntriesFor("en1", {"inet"}, interfaces) # {}
       /\ rows["isp"] \in Addresses =>
            IsLast(EntriesFor("en0", {"inet"}, interfaces), interfaces, rows["isp"])
       /\ rows["ip"] \in Addresses =>
            LET ip == EntriesFor("en0", {"inet", "inet6"}, interfaces) IN
            ip # {} => IsLast(ip, interfaces, rows["ip"])

IInv == TypeOK /\ Walked /\ Place /\ Held /\ Still
-----------------------------------------------------------------------------
(* An address is not one of the words.                                     *)
LEMMA AddressesApart ==
  ASSUME NEW x \in Addresses
  PROVE  x \notin Words /\ x \notin Names
  BY EntriesAssumption

(* What is read of an entry: an address, or 0.0.0.0.                       *)
LEMMA ReadType ==
  ASSUME NEW e \in Entries
  PROVE  /\ Read(e) \in Values /\ Read(e) # "nil"
         /\ Read(e) \in Addresses => e.family = "inet"
         /\ e.name \in Names
<1>1. CASE e.family = "inet"
  BY <1>1, EntriesAssumption DEF Read, Values, Words
<1>2. CASE e.family # "inet"
  BY <1>2, EntriesAssumption DEF Read, Values, Words
<1> QED
  BY <1>1, <1>2

(* A loop that stores the entry c, or passes it.                           *)
LEMMA SoFarStep ==
  ASSUME NEW l, NEW n \in Nat, NEW S \in SUBSET (1..n), NEW c \in 1..n, NEW x, NEW D,
         SoFar(S, l, c, x, D)
  PROVE  /\ c \in S => SoFar(S, l, c + 1, Read(l[c]), D)
         /\ c \notin S => SoFar(S, l, c + 1, x, D)
<1>1. \A k \in S : k < c + 1 <=> k < c \/ k = c
  OBVIOUS
<1>2. CASE c \in S
  BY <1>1, <1>2 DEF SoFar
<1>3. CASE c \notin S
  <2>1. \A k \in S : k < c + 1 <=> k < c
    BY <1>1, <1>3
  <2> QED
    BY <1>3, <2>1 DEF SoFar
<1> QED
  BY <1>2, <1>3

(* A loop that begins, and one that has ended.                             *)
LEMMA SoFarBegins ==
  ASSUME NEW l, NEW n \in Nat, NEW S \in SUBSET (1..n), NEW D, NEW x \in D
  PROVE  SoFar(S, l, 1, x, D)
  BY DEF SoFar

LEMMA SoFarEnds ==
  ASSUME NEW l, NEW n \in Nat, NEW S \in SUBSET (1..n), NEW c \in Nat, c > n,
         NEW x, NEW D, SoFar(S, l, c, x, D)
  PROVE  (S = {} /\ x \in D) \/ (S # {} /\ IsLast(S, l, x))
<1>1. \A k \in S : k < c
  OBVIOUS
<1> QED
  BY <1>1 DEF SoFar, IsLast

(* The entries that a loop stores are positions of its list.               *)
LEMMA Positions ==
  ASSUME NEW l \in Seq(Entries)
  PROVE  /\ Len(l) \in Nat /\ DOMAIN l = 1..Len(l)
         /\ \A name, families : EntriesFor(name, families, l) \in SUBSET (1..Len(l))
  BY DEF EntriesFor
(* What a walk answers at the end of its list fits the list.               *)
LEMMA EndsFit ==
  ASSUME IInv, at = "walk", cursor \notin DOMAIN list
  PROVE  /\ Fits(step, IF step = "ip" THEN OwnAddress ELSE found, list)
         /\ (IF step = "ip" THEN OwnAddress ELSE found) \in Values
<1>1. /\ list \in Seq(Entries) /\ cursor \in 1..(Len(list) + 1)
      /\ found \in Values /\ cell \in Values
  BY DEF IInv, TypeOK
<1>2. /\ Len(list) \in Nat /\ cursor \in Nat /\ cursor = Len(list) + 1 /\ cursor > Len(list)
      /\ \A name, families : EntriesFor(name, families, list) \in SUBSET (1..Len(list))
  BY <1>1, Positions
<1>3. Walked /\ step \in Walks
  BY DEF IInv, Place
<1>4. CASE step = "port"
  <2>1. found = IF cursor = 1 THEN "" ELSE list[cursor - 1].name
    BY <1>3, <1>4 DEF Walked
  <2>2. found = IF list = <<>> THEN "" ELSE list[Len(list)].name
    <3>1. CASE list = <<>>
      <4>1. cursor = 1
        BY <1>2, <3>1
      <4> QED
        BY <2>1, <3>1, <4>1
    <3>2. CASE list # <<>>
      <4>1. Len(list) # 0
        BY <1>1, <3>2, EmptySeq
      <4>2. cursor # 1 /\ cursor - 1 = Len(list)
        BY <1>2, <4>1
      <4> QED
        BY <2>1, <3>2, <4>2
    <3> QED
      BY <3>1, <3>2
  <2> QED
    BY <1>1, <1>4, <2>2 DEF Fits
<1>5. CASE step = "lan"
  <2>1. SoFar(Wifi, list, cursor, found, {"error"})
    BY <1>3, <1>5 DEF Walked
  <2>2. (Wifi = {} /\ found \in {"error"}) \/ (Wifi # {} /\ IsLast(Wifi, list, found))
    BY <1>2, <2>1, SoFarEnds DEF Wifi
  <2> QED
    BY <1>1, <1>5, <2>2 DEF Fits, Wifi
<1>6. CASE step = "isp"
  <2>1. SoFar(Wireless, list, cursor, found, {"nil", "text"})
    BY <1>3, <1>6 DEF Walked
  <2>2. \/ Wireless = {} /\ found \in {"nil", "text"}
        \/ Wireless # {} /\ IsLast(Wireless, list, found)
    BY <1>2, <2>1, SoFarEnds DEF Wireless
  <2> QED
    BY <1>1, <1>6, <2>2 DEF Fits, Wireless
<1>7. CASE step = "ip"
  <2>1. SoFar(Ip, list, cursor, found, {"nil"}) /\ SoFar(Cellular, list, cursor, cell, {"nil"})
    BY <1>3, <1>7 DEF Walked
  <2>2. (Ip = {} /\ found \in {"nil"}) \/ (Ip # {} /\ IsLast(Ip, list, found))
    BY <1>2, <2>1, SoFarEnds DEF Ip
  <2>3. (Cellular = {} /\ cell \in {"nil"}) \/ (Cellular # {} /\ IsLast(Cellular, list, cell))
    BY <1>2, <2>1, SoFarEnds DEF Cellular
  <2>4. \A k \in 1..Len(list) : Read(list[k]) # "nil"
    BY <1>1, <1>2, ReadType
  <2>5. IsLast(Ip, list, found) => found # "nil"
    BY <1>2, <2>4 DEF IsLast, Ip
  <2>6. IsLast(Cellular, list, cell) => cell # "nil"
    BY <1>2, <2>4 DEF IsLast, Cellular
  <2>7. OwnAddress \in Values
    BY <1>1 DEF OwnAddress, Values, Words
  <2>8. IF Ip # {} THEN IsLast(Ip, list, OwnAddress)
        ELSE IF Cellular # {} THEN IsLast(Cellular, list, OwnAddress)
        ELSE OwnAddress = "0.0.0.0"
    BY <2>2, <2>3, <2>5, <2>6 DEF OwnAddress
  <2> QED
    BY <1>7, <2>7, <2>8 DEF Fits, Ip, Cellular
<1>8. CASE step = "wifi"
  <2>1. Wifi = {} /\ found = "nil"
    BY <1>2, <1>3, <1>8 DEF Walked, Wifi
  <2> QED
    BY <1>1, <1>8, <2>1 DEF Fits, Wifi
<1> QED
  BY <1>3, <1>4, <1>5, <1>6, <1>7, <1>8 DEF Walks

(* So does the address that -localWiFiIPAddress returns from the loop.     *)
LEMMA HitsFit ==
  ASSUME IInv, step = "wifi", at = "walk", cursor \in DOMAIN list, Picks(step, list[cursor])
  PROVE  Fits(step, Read(list[cursor]), list) /\ Read(list[cursor]) \in Values
<1>1. list \in Seq(Entries) /\ cursor \in 1..Len(list) /\ list[cursor] \in Entries
  BY DEF IInv, TypeOK
<1>2. cursor \in Wifi
  BY <1>1, Positions DEF Picks, Wifi, EntriesFor
<1>3. \A k \in Wifi : cursor <= k
  <2>1. \A k \in Wifi : ~(k < cursor)
    BY DEF IInv, Walked
  <2>2. \A k \in Wifi : k \in 1..Len(list)
    BY <1>1, Positions DEF Wifi
  <2> QED
    BY <1>1, <2>1, <2>2
<1>4. IsFirst(Wifi, list, Read(list[cursor])) /\ Wifi # {}
  BY <1>2, <1>3 DEF IsFirst
<1> QED
  BY <1>1, <1>4, ReadType DEF Fits, Wifi
-----------------------------------------------------------------------------
LEMMA InitIInv == Init => IInv
<1> SUFFICES ASSUME Init PROVE IInv
  OBVIOUS
<1> USE EntriesAssumption DEF Init
<1>1. TypeOK
  <2>1. interfaces \in Seq(Entries)
    BY DEF Lists
  <2>2. list \in Seq(Entries) /\ cursor \in 1..(Len(list) + 1)
    OBVIOUS
  <2>3. changes \in 0..MaxChanges
    OBVIOUS
  <2>4. found \in Values /\ cell \in Values /\ rows \in [Readings -> Values]
    BY DEF Values, Words, Unread
  <2> QED
    BY <2>1, <2>2, <2>3, <2>4, Zenon DEF TypeOK
<1>2. Walked /\ Place /\ Held
  BY DEF Walked, Place, Held, Known
<1>3. rows["lan"] \notin Addresses /\ rows["isp"] \notin Addresses /\ rows["ip"] \notin Addresses
  BY DEF Unread, Readings, Rows, Words
<1>4. Still
  BY <1>3 DEF Still, Unread, Readings, Rows
<1> QED
  BY <1>1, <1>2, <1>4 DEF IInv

(* A reading that returns keeps the types and what is known of the place.  *)
LEMMA AnswersKeep ==
  ASSUME IInv, NEW x \in Values, step \in Readings, Answers(x)
  PROVE  /\ list' \in Seq(Entries) /\ cursor' \in 1..(Len(list') + 1)
         /\ found' \in Values /\ cell' \in Values /\ rows' \in [Readings -> Values]
         /\ step' \in Readings \cup {"names", "check", "none", "down"} /\ step' # step
         /\ at' \in {"begin", "get", "walk", "size", "fill"}
         /\ Walked' /\ Place'
         /\ rows'[step] = x /\ \A r \in Readings \ {step} : rows'[r] = rows[r]
<1>1. list' = <<>> /\ cursor' = 1 /\ found' = "nil" /\ cell' = "nil" /\ at' = "begin"
  BY DEF Answers
<1>2. step' = After(step) /\ rows' = [rows EXCEPT ![step] = x] /\ rows \in [Readings -> Values]
  BY DEF Answers, IInv, TypeOK
<1>3. list' \in Seq(Entries) /\ cursor' \in 1..(Len(list') + 1)
  BY <1>1
<1>4. found' \in Values /\ cell' \in Values
  BY <1>1 DEF Values, Words
<1>5. step' \in Readings \cup {"names", "check", "none", "down"} /\ step' # step
  BY <1>2 DEF After, Readings, Rows
<1>6. Walked' /\ Place'
  BY <1>1 DEF Walked, Place
<1>7. rows' \in [Readings -> Values]
  BY <1>2
<1>8. rows'[step] = x /\ \A r \in Readings \ {step} : rows'[r] = rows[r]
  BY <1>2
<1> QED
  BY <1>1, <1>3, <1>4, <1>5, <1>6, <1>7, <1>8

(* Every action keeps the invariant.                                       *)
LEMMA NextIInv == IInv /\ [Next]_vars => IInv'
<1> SUFFICES ASSUME IInv, [Next]_vars PROVE IInv'
  OBVIOUS
<1> USE DEF kernel, walk, past
<1>a. TypeOK /\ Walked /\ Place /\ Held /\ Still
  BY DEF IInv
<1>b. "nil" \in Values /\ "page" \in Values /\ "text" \in Values /\ "garbage" \in Values
  BY DEF Values, Words
<1>c. \A r \in Readings : Unread[r] = "unread" /\ "unread" \notin Addresses
  BY EntriesAssumption DEF Unread, Words
<1>d. Unread \in [Readings -> Values]
  BY DEF Unread, Values, Words
<1>e. {"mac", "macW", "lan", "isp", "ip"} \subseteq Readings
  BY DEF Readings, Rows
<1>1. CASE OpenMenu
  <2>1. /\ step = "none" /\ step' = "port" /\ rows' = Unread /\ moved' = FALSE
        /\ held' = {} /\ hit' = FALSE /\ refused' = {}
        /\ UNCHANGED <<interfaces, changes, at, walk, left>>
    BY <1>1 DEF OpenMenu
  <2>2. at \notin {"size", "fill"} /\ at # "walk" /\ ~left
    BY <1>a, <2>1 DEF Place, Still, Walks
  <2>3. TypeOK'
    <3>1. step' \in Readings
      BY <2>1 DEF Readings, Rows
    <3> QED
      BY <1>a, <1>d, <2>1, <3>1 DEF TypeOK
  <2>4. Walked' /\ Place'
    BY <1>a, <2>1, <2>2 DEF Walked, Place
  <2>5. Held'
    BY <1>a, <2>1, <2>2 DEF Held, Known
  <2>6. Still'
    BY <1>c, <1>e, <2>1, <2>2 DEF Still
  <2> QED
    BY <2>3, <2>4, <2>5, <2>6 DEF IInv
<1>2. CASE CallLocalWiFi \/ ReadNames \/ HardwareEnds \/ CheckNetwork \/ Restart
  <2>1. step' \in Readings \cup {"names", "check", "none", "down"} /\ at' = at /\ step \notin Readings
    BY <1>a, <1>2 DEF CallLocalWiFi, ReadNames, HardwareEnds, CheckNetwork, Restart,
                      Readings, Rows
  <2>2. /\ UNCHANGED <<kernel, at, walk, left, past>> /\ rows' \in {rows, Unread}
        /\ held \subseteq held' /\ held' \subseteq held \cup {"names"}
    BY <1>2 DEF CallLocalWiFi, ReadNames, HardwareEnds, CheckNetwork, Restart
  <2>3. at = "begin" /\ step # "isp"
    BY <1>a, <2>1 DEF Place, Walks, Readings, Rows, TypeOK
  <2>4. TypeOK'
    BY <1>a, <1>d, <2>1, <2>2 DEF TypeOK
  <2>5. Walked' /\ Place'
    BY <1>a, <2>2, <2>3 DEF Walked, Place
  <2>6. Held'
    BY <1>a, <2>2, <2>3 DEF Held, Known
  <2>7. Still'
    BY <1>a, <1>c, <1>e, <2>2 DEF Still
  <2> QED
    BY <2>4, <2>5, <2>6, <2>7 DEF IInv
<1>3. CASE FetchPage
  <2>1. step = "isp" /\ at = "begin" /\ UNCHANGED <<kernel, left, held, past>>
    BY <1>3 DEF FetchPage
  <2>2. CASE Answers("page")
    <3>1. TypeOK' /\ Walked' /\ Place'
      BY <1>a, <1>b, <2>1, <2>2, <1>e, AnswersKeep DEF TypeOK
    <3>2. Held'
      BY <1>a, <2>1 DEF Held, Known
    <3>3. rows'["isp"] \notin Addresses /\ \A r \in Readings \ {"isp"} : rows'[r] = rows[r]
      BY <1>b, <1>e, <2>1, <2>2, AnswersKeep, EntriesAssumption DEF Words
    <3>4. at' = "begin" /\ ~left
      BY <1>a, <2>1, <2>2 DEF Answers, Still
    <3>5. Still'
      BY <1>a, <1>e, <2>1, <3>3, <3>4 DEF Still
    <3> QED
      BY <3>1, <3>2, <3>5 DEF IInv
  <2>3. CASE found' \in {"nil", "text"} /\ at' = "get" /\ UNCHANGED <<step, list, cursor, cell, rows>>
    <3>1. TypeOK'
      BY <1>a, <1>b, <2>1, <2>3 DEF TypeOK
    <3>2. Walked' /\ Place' /\ Held'
      BY <1>a, <2>1, <2>3 DEF Walked, Place, Held, Known
    <3>3. Still'
      BY <1>a, <2>1, <2>3 DEF Still
    <3> QED
      BY <3>1, <3>2, <3>3 DEF IInv
  <2> QED
    BY <1>3, <2>2, <2>3 DEF FetchPage
<1>4. CASE GetIfAddrs
  <2>1. /\ at' = "walk" /\ UNCHANGED <<kernel, step, cursor, cell, left, rows, past>>
        /\ step \in Walks /\ at \in {"begin", "get"}
        /\ list = <<>> /\ cursor = 1 /\ cell = "nil"
        /\ step = "isp" => found' \in {"nil", "text"}
        /\ step # "isp" => found' = Default(step)
        /\ list' = interfaces \/ list' = <<>>
        /\ held' \subseteq held \cup {step}
    BY <1>a, <1>4 DEF GetIfAddrs, Place, Walks
  <2>2. list' \in Seq(Entries) /\ cursor' = 1 /\ 1 \in 1..(Len(list') + 1) /\ Len(list') \in Nat
    <3>1. list' \in Seq(Entries)
      <4>1. interfaces \in Seq(Entries) /\ <<>> \in Seq(Entries)
        BY <1>a, EmptySeq DEF TypeOK
      <4> QED
        BY <2>1, <4>1
    <3>2. Len(list') \in Nat
      BY <3>1, LenProperties
    <3> QED
      BY <2>1, <3>1, <3>2
  <2>3. \A name, families : EntriesFor(name, families, list') \in SUBSET (1..Len(list'))
    BY <2>2, Positions
  <2>4. TypeOK'
    <3>1. found' \in Values
      BY <2>1 DEF Default, Values, Words
    <3>2. held' \subseteq Readings \cup {"names"}
      BY <1>a, <2>1 DEF TypeOK, Walks, Readings, Rows
    <3> QED
      BY <1>a, <2>1, <2>2, <3>1, <3>2 DEF TypeOK
  <2>5. Walked'
    <3>1. step' = "port" => found' = ""
      BY <2>1 DEF Default
    <3>2. step' = "lan" => SoFar(Wifi', list', cursor', found', {"error"})
      BY <2>1, <2>2, <2>3, SoFarBegins DEF Default, Wifi
    <3>3. step' = "isp" => SoFar(Wireless', list', cursor', found', {"nil", "text"})
      BY <2>1, <2>2, <2>3, SoFarBegins DEF Wireless
    <3>4. step' = "ip" => /\ SoFar(Ip', list', cursor', found', {"nil"})
                          /\ SoFar(Cellular', list', cursor', cell', {"nil"})
      BY <2>1, <2>2, <2>3, SoFarBegins DEF Default, Ip, Cellular
    <3>5. step' = "wifi" => found' = "nil" /\ \A k \in Wifi' : ~(k < cursor')
      <4>1. \A k \in Wifi' : k \in 1..Len(list')
        BY <2>3 DEF Wifi
      <4> QED
        BY <2>1, <2>2, <4>1 DEF Default
    <3> QED
      BY <2>1, <2>2, <3>1, <3>2, <3>3, <3>4, <3>5 DEF Walked
  <2>6. Place'
    BY <2>1 DEF Place
  <2>7. Held'
    BY <1>a, <2>1 DEF Held, Known
  <2>8. Still'
    BY <1>a, <2>1 DEF Still
  <2> QED
    BY <2>4, <2>5, <2>6, <2>7, <2>8 DEF IInv
<1>5. CASE WalkOn
  <2> DEFINE e == list[cursor]
  <2>1. /\ at = "walk" /\ cursor \in DOMAIN list /\ cursor' = cursor + 1
        /\ ~(step = "wifi" /\ Picks(step, e)) /\ Stored(e)
        /\ UNCHANGED <<kernel, step, at, list, left, rows, held, past>>
    BY <1>5 DEF WalkOn
  <2>2. /\ list \in Seq(Entries) /\ Len(list) \in Nat /\ cursor \in 1..Len(list) /\ e \in Entries
        /\ \A name, families : EntriesFor(name, families, list) \in SUBSET (1..Len(list))
    BY <1>a, <2>1, Positions DEF TypeOK
  <2>3. Read(e) \in Values /\ e.name \in Values /\ e.name \in Names
    BY <2>2, ReadType DEF Values
  <2>4. /\ found' = IF ~Picks(step, e) THEN found ELSE IF step = "port" THEN e.name ELSE Read(e)
        /\ cell' = IF step = "ip" /\ e.name = "pdp_ip0" /\ e.family \in {"inet", "inet6"}
                   THEN Read(e) ELSE cell
    BY <2>1 DEF Stored
  <2> HIDE DEF e
  <2>5. TypeOK'
    <3>1. found' \in Values /\ cell' \in Values
      BY <1>a, <2>3, <2>4 DEF TypeOK
    <3>2. cursor' \in 1..(Len(list') + 1)
      BY <2>1, <2>2
    <3> QED
      BY <1>a, <2>1, <3>1, <3>2 DEF TypeOK
  <2>6. Walked'
    <3>1. step' = "port" => found' = IF cursor' = 1 THEN "" ELSE list'[cursor' - 1].name
      <4>1. step' = "port" => found' = e.name
        BY <2>1, <2>4 DEF Picks
      <4>2. cursor' # 1 /\ cursor' - 1 = cursor /\ list' = list
        BY <2>1, <2>2
      <4> QED
        BY <4>1, <4>2 DEF e
    <3>2. ASSUME step' = "lan" PROVE SoFar(Wifi', list', cursor', found', {"error"})
      <4>1. SoFar(Wifi, list, cursor, found, {"error"})
        BY <1>a, <2>1, <3>2 DEF Walked
      <4>2. /\ cursor \in Wifi => SoFar(Wifi, list, cursor + 1, Read(list[cursor]), {"error"})
            /\ cursor \notin Wifi => SoFar(Wifi, list, cursor + 1, found, {"error"})
        BY <2>2, <4>1, SoFarStep DEF Wifi
      <4>3. cursor \in Wifi <=> Picks(step, e)
        BY <2>1, <3>2 DEF Wifi, EntriesFor, Picks, e
      <4> QED
        BY <2>1, <2>4, <3>2, <4>2, <4>3 DEF Wifi, e
    <3>3. ASSUME step' = "isp" PROVE SoFar(Wireless', list', cursor', found', {"nil", "text"})
      <4>1. SoFar(Wireless, list, cursor, found, {"nil", "text"})
        BY <1>a, <2>1, <3>3 DEF Walked
      <4>2. /\ cursor \in Wireless =>
                 SoFar(Wireless, list, cursor + 1, Read(list[cursor]), {"nil", "text"})
            /\ cursor \notin Wireless => SoFar(Wireless, list, cursor + 1, found, {"nil", "text"})
        BY <2>2, <4>1, SoFarStep DEF Wireless
      <4>3. cursor \in Wireless <=> Picks(step, e)
        BY <2>1, <3>3 DEF Wireless, EntriesFor, Picks, e
      <4> QED
        BY <2>1, <2>4, <3>3, <4>2, <4>3 DEF Wireless, e
    <3>4. ASSUME step' = "ip" PROVE SoFar(Ip', list', cursor', found', {"nil"})
      <4>1. SoFar(Ip, list, cursor, found, {"nil"})
        BY <1>a, <2>1, <3>4 DEF Walked
      <4>2. /\ cursor \in Ip => SoFar(Ip, list, cursor + 1, Read(list[cursor]), {"nil"})
            /\ cursor \notin Ip => SoFar(Ip, list, cursor + 1, found, {"nil"})
        BY <2>2, <4>1, SoFarStep DEF Ip
      <4>3. cursor \in Ip <=> Picks(step, e)
        BY <2>1, <3>4 DEF Ip, EntriesFor, Picks, e
      <4> QED
        BY <2>1, <2>4, <3>4, <4>2, <4>3 DEF Ip, e
    <3>5. ASSUME step' = "ip" PROVE SoFar(Cellular', list', cursor', cell', {"nil"})
      <4>1. SoFar(Cellular, list, cursor, cell, {"nil"})
        BY <1>a, <2>1, <3>5 DEF Walked
      <4>2. /\ cursor \in Cellular => SoFar(Cellular, list, cursor + 1, Read(list[cursor]), {"nil"})
            /\ cursor \notin Cellular => SoFar(Cellular, list, cursor + 1, cell, {"nil"})
        BY <2>2, <4>1, SoFarStep DEF Cellular
      <4>3. cursor \in Cellular <=> e.name = "pdp_ip0" /\ e.family \in {"inet", "inet6"}
        BY <2>1 DEF Cellular, EntriesFor, e
      <4> QED
        BY <2>1, <2>4, <3>5, <4>2, <4>3 DEF Cellular, e
    <3>6. ASSUME step' = "wifi" PROVE found' = "nil" /\ \A k \in Wifi' : ~(k < cursor')
      <4>1. found = "nil" /\ (\A k \in Wifi : ~(k < cursor)) /\ ~Picks(step, e)
        BY <1>a, <2>1, <3>6 DEF Walked, e
      <4>2. cursor \notin Wifi /\ Wifi' = Wifi
        BY <2>1, <3>6, <4>1 DEF Wifi, EntriesFor, Picks, e
      <4>3. \A k \in Wifi : k \in 1..Len(list)
        BY <2>2 DEF Wifi
      <4> QED
        BY <2>1, <2>2, <2>4, <4>1, <4>2, <4>3
    <3> QED
      BY <3>1, <3>2, <3>3, <3>4, <3>5, <3>6 DEF Walked
  <2>7. Place' /\ Held' /\ Still'
    <3>1. Place'
      BY <1>a, <2>1 DEF Place
    <3>2. Held'
      BY <1>a, <2>1 DEF Held, Known
    <3>3. Still'
      BY <1>a, <2>1 DEF Still
    <3> QED
      BY <3>1, <3>2, <3>3
  <2> QED
    BY <2>5, <2>6, <2>7 DEF IInv
<1>6. CASE WalkHits
  <2>1. /\ step = "wifi" /\ at = "walk" /\ step \in Readings
        /\ Answers(Read(list[cursor])) /\ Read(list[cursor]) \in Values
        /\ hit' = TRUE /\ UNCHANGED <<kernel, left, held, refused>>
    BY <1>6, HitsFit DEF WalkHits, Readings
  <2>2. TypeOK' /\ Walked' /\ Place'
    BY <1>a, <2>1, AnswersKeep DEF TypeOK
  <2>3. Held'
    BY <1>a, <2>1 DEF Held, Known
  <2>4. \A r \in {"mac", "macW", "lan", "isp", "ip"} : rows'[r] = rows[r]
    BY <1>e, <2>1, AnswersKeep
  <2>5. at' = "begin" /\ ~left
    BY <1>a, <2>1 DEF Answers, Still
  <2>6. Still'
    BY <1>a, <2>1, <2>4, <2>5 DEF Still
  <2> QED
    BY <2>2, <2>3, <2>6 DEF IInv
<1>7. CASE WalkCrashes
  <2>1. /\ step' = "down" /\ at' = "begin" /\ list' = <<>> /\ cursor' = 1 /\ found' = "nil"
        /\ cell' = "nil" /\ rows' = Unread /\ held' = {} /\ hit' = FALSE /\ refused' = {}
        /\ UNCHANGED <<kernel, left>> /\ ~left
    BY <1>a, <1>7 DEF WalkCrashes, Still
  <2>2. list' \in Seq(Entries) /\ cursor' \in 1..(Len(list') + 1)
    BY <2>1
  <2>3. TypeOK'
    BY <1>a, <1>b, <1>d, <2>1, <2>2 DEF TypeOK
  <2>4. Walked' /\ Place' /\ Held'
    BY <2>1 DEF Walked, Place, Held, Known
  <2>5. Still'
    BY <1>c, <1>e, <2>1 DEF Still
  <2> QED
    BY <2>3, <2>4, <2>5 DEF IInv
<1>8. CASE WalkEnds
  <2> DEFINE x == IF step = "ip" THEN OwnAddress ELSE found
  <2>1. /\ at = "walk" /\ cursor \notin DOMAIN list /\ Answers(x)
        /\ held' = (IF step = "lan" THEN held ELSE held \ {step})
        /\ UNCHANGED <<kernel, left, past>>
    BY <1>8 DEF WalkEnds
  <2>2. x \in Values /\ Fits(step, x, list)
    BY <2>1, EndsFit
  <2>3. step \in Readings /\ step \in Walks
    BY <1>a, <2>1 DEF Place, Walks, Readings, Rows
  <2> HIDE DEF x
  <2>4. TypeOK' /\ Walked' /\ Place'
    BY <1>a, <2>1, <2>2, <2>3, AnswersKeep DEF TypeOK
  <2>5. Held'
    BY <1>a, <2>1 DEF Held, Known
  <2>6. at' = "begin" /\ ~left
    BY <1>a, <2>1 DEF Answers, Still
  <2>7. rows'[step] = x /\ \A r \in Readings \ {step} : rows'[r] = rows[r]
    BY <2>1, <2>2, <2>3, AnswersKeep
  <2>8. x \in Addresses /\ ~moved /\ step \in {"lan", "isp", "ip"} =>
          /\ list = interfaces
          /\ step = "lan" => EntriesFor("en1", {"inet"}, list) # {}
          /\ step = "isp" => IsLast(EntriesFor("en0", {"inet"}, list), list, x)
          /\ step = "ip" => LET ip == EntriesFor("en0", {"inet", "inet6"}, list) IN
                            ip # {} => IsLast(ip, list, x)
    <3>1. x \in Addresses => x \notin {"error", "nil", "text", "0.0.0.0"}
      BY AddressesApart DEF Words
    <3>2. list = interfaces \/ list = <<>> \/ moved
      BY <1>a, <2>1 DEF Still
    <3>3. list = <<>> => \A name, families : EntriesFor(name, families, list) = {}
      BY DEF EntriesFor
    <3> QED
      BY <2>2, <3>1, <3>2, <3>3 DEF Fits
  <2>9. Still'
    <3>1. UNCHANGED <<interfaces, moved, left>>
      BY <2>1
    <3>2. CASE step = "lan"
      BY <1>a, <1>e, <2>6, <2>7, <2>8, <3>1, <3>2 DEF Still
    <3>3. CASE step = "isp"
      BY <1>a, <1>e, <2>6, <2>7, <2>8, <3>1, <3>3 DEF Still
    <3>4. CASE step = "ip"
      BY <1>a, <1>e, <2>6, <2>7, <2>8, <3>1, <3>4 DEF Still
    <3>5. CASE step \in {"port", "wifi"}
      BY <1>a, <1>e, <2>6, <2>7, <3>1, <3>5 DEF Still
    <3> QED
      BY <2>3, <3>2, <3>3, <3>4, <3>5 DEF Walks
  <2> QED
    BY <2>4, <2>5, <2>9 DEF IInv
<1>9. ASSUME NEW x \in Values, step \in {"mac", "macW"}, Answers(x), UNCHANGED kernel,
             x \in {Port(step), "nil"} \/ moved,
             held' \ {step} \subseteq held \ {step}, held' \subseteq held,
             step \in held' => step \in Known', Known \subseteq Known',
             hit' \in BOOLEAN, refused' \subseteq {"mac", "macW"}, left' = FALSE
      PROVE  IInv'
  <2>1. step \in Readings
    BY <1>9 DEF Readings, Rows
  <2>2. TypeOK' /\ Walked' /\ Place'
    BY <1>a, <1>9, <2>1, AnswersKeep DEF TypeOK
  <2>3. Held'
    BY <1>a, <1>9 DEF Held
  <2>4. rows'[step] = x /\ \A r \in Readings \ {step} : rows'[r] = rows[r]
    BY <1>9, <2>1, AnswersKeep
  <2>5. at' = "begin"
    BY <1>9 DEF Answers
  <2>6. Still'
    BY <1>a, <1>e, <1>9, <2>4, <2>5 DEF Still, Port
  <2> QED
    BY <2>2, <2>3, <2>6 DEF IInv
<1>10. CASE MacIndex
  <2>1. CASE at' = "size" /\ UNCHANGED <<step, walk, rows>>
    <3>1. step \in {"mac", "macW"} /\ at = "begin" /\ UNCHANGED <<kernel, left, held, past>>
      BY <1>10 DEF MacIndex
    <3>2. TypeOK'
      BY <1>a, <2>1, <3>1 DEF TypeOK
    <3>3. Walked' /\ Place' /\ Held'
      BY <1>a, <2>1, <3>1 DEF Walked, Place, Held, Known
    <3>4. Still'
      BY <1>a, <2>1, <3>1 DEF Still
    <3> QED
      BY <3>2, <3>3, <3>4 DEF IInv
  <2>2. CASE Answers("nil")
    <3>1. /\ step \in {"mac", "macW"} /\ at = "begin" /\ UNCHANGED <<kernel, left, held, past>>
          /\ ~left /\ held \subseteq Known /\ Known' = Known
      BY <1>a, <1>10 DEF MacIndex, Still, Held, Known
    <3>2. left' = FALSE
      BY <1>a, <3>1 DEF TypeOK
    <3> QED
      BY <1>a, <1>b, <1>9, <2>2, <3>1, <3>2 DEF TypeOK
  <2> QED
    BY <1>10, <2>1, <2>2 DEF MacIndex
<1>11. CASE MacSize
  <2>1. at = "size" /\ step \in {"mac", "macW"} /\ UNCHANGED <<kernel, past>> /\ Known' = Known
    BY <1>a, <1>11 DEF MacSize, Place, Known
  <2>2. CASE at' = "fill" /\ held' = held \cup {step} /\ UNCHANGED <<step, walk, rows>>
    <3>1. left' = left
      BY <1>a, <1>11, <2>2 DEF MacSize, TypeOK
    <3>2. TypeOK'
      BY <1>a, <2>1, <2>2, <3>1 DEF TypeOK, Readings, Rows
    <3>3. Walked' /\ Place'
      BY <1>a, <2>1, <2>2 DEF Walked, Place
    <3>4. Held'
      BY <1>a, <2>1, <2>2 DEF Held
    <3>5. Still'
      BY <1>a, <2>1, <2>2, <3>1 DEF Still
    <3> QED
      BY <3>2, <3>3, <3>4, <3>5 DEF IInv
  <2>3. CASE Answers("nil") /\ UNCHANGED held
    <3>1. left' = FALSE /\ held \subseteq Known
      BY <1>a, <1>11, <2>1, <2>3 DEF MacSize, Answers, Held
    <3> QED
      BY <1>a, <1>b, <1>9, <2>1, <2>3, <3>1 DEF TypeOK
  <2> QED
    BY <1>11, <2>2, <2>3 DEF MacSize
<1>12. CASE MacFill
  <2>1. /\ at = "fill" /\ step \in {"mac", "macW"} /\ UNCHANGED <<kernel, hit>> /\ left' = FALSE
        /\ held \ {step} \subseteq Known
    BY <1>a, <1>12 DEF MacFill, Place, Held
  <2>2. CASE Answers("nil") /\ refused' = refused \cup {step} /\ UNCHANGED held
    <3>1. step \in Known' /\ Known \subseteq Known'
      BY <2>1, <2>2 DEF Known
    <3> QED
      BY <1>a, <1>b, <1>9, <2>1, <2>2, <3>1 DEF TypeOK
  <2>3. CASE Answers(Port(step)) /\ held' = held \ {step} /\ UNCHANGED refused
    <3>1. Known' = Known /\ Port(step) \in Values
      BY <2>1, <2>3 DEF Known, Port, Values, Names
    <3> QED
      BY <1>a, <1>9, <2>1, <2>3, <3>1 DEF TypeOK
  <2>4. CASE Answers("garbage") /\ left /\ held' = held \ {step} /\ UNCHANGED refused
    <3>1. Known' = Known /\ moved
      BY <1>a, <2>1, <2>4 DEF Known, Still
    <3> QED
      BY <1>a, <1>b, <1>9, <2>1, <2>4, <3>1 DEF TypeOK
  <2> QED
    BY <1>12, <2>2, <2>3, <2>4 DEF MacFill
<1>13. CASE InterfacesChange
  <2>1. /\ changes < MaxChanges /\ changes' = changes + 1 /\ moved' = TRUE
        /\ UNCHANGED <<step, at, walk, rows, held, past>>
        /\ left' \in BOOLEAN /\ (left' => left \/ at \in {"size", "fill"})
    BY <1>a, <1>13 DEF InterfacesChange, TypeOK
  <2>2. interfaces' \in Seq(Entries)
    <3>1. interfaces \in Seq(Entries) /\ Len(interfaces) \in Nat
      BY <1>a DEF TypeOK
    <3>2. CASE \E e \in Entries : interfaces' = Append(interfaces, e)
      BY <3>1, <3>2
    <3>3. CASE \E k \in DOMAIN interfaces :
                 interfaces' = SubSeq(interfaces, 1, k - 1)
                                 \o SubSeq(interfaces, k + 1, Len(interfaces))
      <4> DOMAIN interfaces = 1..Len(interfaces)
        BY <3>1, LenProperties
      <4>1. PICK k \in 1..Len(interfaces) :
                 interfaces' = SubSeq(interfaces, 1, k - 1)
                                 \o SubSeq(interfaces, k + 1, Len(interfaces))
        BY <3>3
      <4>2. SubSeq(interfaces, 1, k - 1) \in Seq(Entries)
        BY <3>1, SubSeqProperties
      <4>3. SubSeq(interfaces, k + 1, Len(interfaces)) \in Seq(Entries)
        BY <3>1, SubSeqProperties
      <4> QED
        BY <4>1, <4>2, <4>3, ConcatProperties
    <3> QED
      BY <1>13, <3>2, <3>3 DEF InterfacesChange
  <2>3. TypeOK'
    <3>1. changes' \in 0..MaxChanges
      BY <1>a, <2>1, EntriesAssumption DEF TypeOK
    <3> QED
      BY <1>a, <2>1, <2>2, <3>1 DEF TypeOK
  <2>4. Walked'
    BY <1>a, <2>1 DEF Walked, Wifi, Wireless, Ip, Cellular
  <2>5. Place' /\ Held'
    BY <1>a, <2>1 DEF Place, Held, Known
  <2>6. Still'
    BY <1>a, <2>1 DEF Still
  <2> QED
    BY <2>3, <2>4, <2>5, <2>6 DEF IInv
<1>14. CASE UNCHANGED vars
  <2>1. TypeOK'
    BY <1>a, <1>14 DEF vars, TypeOK
  <2>2. Walked'
    BY <1>a, <1>14 DEF vars, Walked, Wifi, Wireless, Ip, Cellular
  <2>3. Place' /\ Held' /\ Still'
    BY <1>a, <1>14 DEF vars, Place, Held, Known, Still
  <2> QED
    BY <2>1, <2>2, <2>3 DEF IInv
<1> QED
  BY <1>1, <1>2, <1>3, <1>4, <1>5, <1>6, <1>7, <1>8, <1>10, <1>11, <1>12, <1>13, <1>14
     DEF Next
-----------------------------------------------------------------------------
(* The invariant holds in every reachable state.                           *)
THEOREM Inductive == Spec => []IInv
<1>1. Init => IInv
  BY InitIInv
<1>2. IInv /\ [Next]_vars => IInv'
  BY NextIInv
<1> QED
  BY <1>1, <1>2, PTL DEF Spec

(* The walks, their cursors and what they answer keep their types, for     *)
(* lists of any length (-init of NetworkMainMenu and the readings it calls).*)
THEOREM TypeCorrect == Spec => []TypeOK
<1>1. IInv => TypeOK
  BY DEF IInv
<1> QED
  BY <1>1, Inductive, PTL

(* A step of a walk that returns is its end, or the hit of                 *)
(* -localWiFiIPAddress; either answers for the list it went over.          *)
LEMMA ReturnsFit ==
  ASSUME IInv, Next, at = "walk", step' \notin {step, "down"}
  PROVE  Fits(step, rows'[step], list)
<1>1. step \in Walks /\ step \in Readings
  BY DEF IInv, Place, Walks, Readings, Rows
<1>2. WalkEnds \/ WalkHits
  <2>1. step # "none" /\ step # "names" /\ step # "check" /\ step # "down"
        /\ step \notin {"mac", "macW"}
    BY <1>1 DEF Walks
  <2>2. ~(OpenMenu \/ CallLocalWiFi \/ ReadNames \/ HardwareEnds \/ CheckNetwork \/ Restart)
    BY <2>1 DEF OpenMenu, CallLocalWiFi, ReadNames, HardwareEnds, CheckNetwork, Restart
  <2>3. ~(FetchPage \/ GetIfAddrs \/ MacIndex \/ MacSize \/ MacFill)
    BY DEF FetchPage, GetIfAddrs, MacIndex, MacSize, MacFill
  <2>4. ~(WalkOn \/ WalkCrashes \/ InterfacesChange)
    BY DEF WalkOn, WalkCrashes, InterfacesChange
  <2> QED
    BY <2>2, <2>3, <2>4 DEF Next
<1>3. CASE WalkEnds
  <2> DEFINE x == IF step = "ip" THEN OwnAddress ELSE found
  <2>1. cursor \notin DOMAIN list /\ Answers(x)
    BY <1>3 DEF WalkEnds
  <2>2. Fits(step, x, list) /\ x \in Values
    BY <2>1, EndsFit
  <2> HIDE DEF x
  <2> QED
    BY <1>1, <2>1, <2>2, AnswersKeep
<1>4. CASE WalkHits
  <2>1. /\ step = "wifi" /\ cursor \in DOMAIN list /\ Picks(step, list[cursor])
        /\ Answers(Read(list[cursor]))
    BY <1>4 DEF WalkHits
  <2>2. Fits(step, Read(list[cursor]), list) /\ Read(list[cursor]) \in Values
    BY <2>1, HitsFit
  <2> QED
    BY <1>1, <2>1, <2>2, AnswersKeep
<1> QED
  BY <1>2, <1>3, <1>4

(* Every walk answers for the list it was given, of any length, while the  *)
(* interfaces change (lines 99-198 of UIDevice-Reachability.m and 118-133  *)
(* of NetworkMainMenu.m).                                                  *)
THEOREM RowsFitLists == Spec => RowsFit
<1>1. IInv /\ [Next]_vars
        => [at = "walk" /\ step' \notin {step, "down"} => Fits(step, rows'[step], list)]_vars
  BY ReturnsFit
<1> QED
  BY <1>1, Inductive, PTL DEF Spec, RowsFit

(* The rows of a menu agree when nothing moved while they were read, one   *)
(* after another (lines 190-198 of NetworkMainMenu.m).                     *)
THEOREM RowsAgreeStill == Spec => []RowsAgree
<1>1. IInv => RowsAgree
  <2> SUFFICES ASSUME IInv, ~moved PROVE RowsAgree
    BY DEF RowsAgree
  <2> DEFINE inet == EntriesFor("en0", {"inet"}, interfaces)
             ip == EntriesFor("en0", {"inet", "inet6"}, interfaces)
  <2>1. /\ rows["mac"] \in {"en1", "nil", "unread"} /\ rows["macW"] \in {"en0", "nil", "unread"}
        /\ rows["lan"] \in Addresses => EntriesFor("en1", {"inet"}, interfaces) # {}
        /\ rows["isp"] \in Addresses => IsLast(inet, interfaces, rows["isp"])
        /\ rows["ip"] \in Addresses => (ip # {} => IsLast(ip, interfaces, rows["ip"]))
    BY DEF IInv, Still
  <2>2. rows["lan"] \in Addresses => Present("en1")
    BY <2>1 DEF EntriesFor, Present
  <2>3. ASSUME rows["isp"] \in Addresses, rows["ip"] \in Addresses
        PROVE  rows["isp"] = rows["ip"]
    <3>1. interfaces \in Seq(Entries) /\ Len(interfaces) \in Nat /\ DOMAIN interfaces = 1..Len(interfaces)
      BY Positions DEF IInv, TypeOK
    <3>2. PICK i \in inet : (\A j \in inet : j <= i) /\ rows["isp"] = Read(interfaces[i])
      BY <2>1, <2>3 DEF IsLast
    <3>3. inet \subseteq ip /\ inet \subseteq 1..Len(interfaces) /\ ip \subseteq 1..Len(interfaces)
      BY <3>1 DEF EntriesFor
    <3>4. PICK k \in ip : (\A j \in ip : j <= k) /\ rows["ip"] = Read(interfaces[k])
      BY <2>1, <2>3, <3>2, <3>3 DEF IsLast
    <3>5. interfaces[k] \in Entries /\ interfaces[k].family = "inet"
      BY <2>3, <3>1, <3>3, <3>4, ReadType
    <3>6. k \in inet
      BY <3>4, <3>5 DEF EntriesFor
    <3>7. i = k
      BY <3>2, <3>3, <3>4, <3>6
    <3> QED
      BY <3>2, <3>4, <3>7
  <2>4. {rows["isp"], rows["ip"]} \subseteq Addresses => rows["isp"] = rows["ip"]
    BY <2>3
  <2> QED
    BY <2>1, <2>2, <2>4 DEF RowsAgree
<1> QED
  BY <1>1, Inductive, PTL

(* Of what the readings and -init allocate, nothing stays behind but what  *)
(* the code never frees: the second list and the two dictionaries of an    *)
(* opening (lines 118, 139 and 146 of NetworkMainMenu.m, 117 of            *)
(* HardwareMainMenu.m), a list that -localWiFiIPAddress returned from (106 *)
(* of UIDevice-Reachability.m) and the buffer of a sysctl that failed (611 *)
(* and 659 of UIDevice-Hardware.m).                                        *)
THEOREM LeaksKnown == Spec => []LeaksAreKnown
<1>1. IInv => LeaksAreKnown
  BY DEF IInv, Held, Known, LeaksAreKnown
<1> QED
  BY <1>1, Inductive, PTL
-----------------------------------------------------------------------------
(* How far the thread of -init, or of -localWiFiIPAddress, is from its end:*)
(* the readings and their parts yet to come, and in a walk the entries.    *)
Busy == step \notin {"none", "down"}

ReadingsLeft ==
  CASE step = "port" -> 8
    [] step = "lan" -> 7
    [] step = "names" -> 6
    [] step = "check" -> 5
    [] step = "mac" -> 4
    [] step = "macW" -> 3
    [] step = "isp" -> 2
    [] OTHER -> 1

PartsLeft ==
  CASE at = "begin" -> 3
    [] at \in {"get", "size"} -> 2
    [] OTHER -> 1

Stage == IF Busy THEN 4 * ReadingsLeft + PartsLeft ELSE 0

EntriesLeft == IF at = "walk" THEN Len(list) + 1 - cursor ELSE 0

(* Nearer to the end: a part is done, or an entry of the walk is.          *)
Nearer == Stage' < Stage \/ (Stage' = Stage /\ EntriesLeft' < EntriesLeft)

LEMMA StageType ==
  /\ ReadingsLeft \in 1..8 /\ PartsLeft \in 1..3
  /\ Stage \in 0..35 /\ (Busy <=> Stage > 0)
<1>1. ReadingsLeft \in 1..8 /\ PartsLeft \in 1..3
  BY DEF ReadingsLeft, PartsLeft
<1> QED
  BY <1>1 DEF Stage

LEMMA FourParts ==
  ASSUME NEW m \in 1..8, NEW n \in 1..8, NEW p \in 1..3, NEW q \in 1..3,
         m < n \/ (m = n /\ p < q)
  PROVE  4 * m + p < 4 * n + q
  OBVIOUS

(* A reading that returns hands over to a later one, or to none.           *)
LEMMA AnswersNearer ==
  ASSUME NEW x, step \in Readings, Answers(x)
  PROVE  Stage' < Stage
<1>1. step' = After(step) /\ at' = "begin"
  BY DEF Answers
<1>2. Stage = 4 * ReadingsLeft + PartsLeft /\ PartsLeft \in 1..3 /\ ReadingsLeft \in 1..8
  BY StageType DEF Stage, Busy, Readings, Rows
<1>3. CASE step \in {"ip", "wifi"}
  <2>1. ~Busy'
    BY <1>1, <1>3 DEF After, Busy
  <2> QED
    BY <1>2, <2>1 DEF Stage
<1>4. CASE step \in {"port", "lan", "mac", "macW", "isp"}
  <2>1. ReadingsLeft' < ReadingsLeft /\ ReadingsLeft' \in 1..8 /\ PartsLeft' = 3
    BY <1>1, <1>4 DEF After, ReadingsLeft, PartsLeft
  <2>2. Busy'
    BY <1>1, <1>4 DEF After, Busy
  <2>3. Stage' = 4 * ReadingsLeft' + PartsLeft'
    BY <2>2 DEF Stage
  <2>4. PartsLeft' \in 1..3
    BY <2>1
  <2>5. 4 * ReadingsLeft' + PartsLeft' < 4 * ReadingsLeft + PartsLeft
    BY <1>2, <2>1, <2>4, FourParts
  <2> QED
    BY <1>2, <2>3, <2>5
<1> QED
  BY <1>3, <1>4 DEF Readings, Rows

(* The next part of the same reading.                                      *)
LEMMA PartNearer ==
  ASSUME Busy, UNCHANGED step, PartsLeft' < PartsLeft
  PROVE  Stage' < Stage
<1>1. Busy' /\ ReadingsLeft' = ReadingsLeft
  BY DEF Busy, ReadingsLeft
<1>2. PartsLeft' \in 1..3 /\ PartsLeft \in 1..3 /\ ReadingsLeft \in 1..8
  BY StageType DEF PartsLeft
<1>3. Stage = 4 * ReadingsLeft + PartsLeft /\ Stage' = 4 * ReadingsLeft' + PartsLeft'
  BY <1>1 DEF Stage
<1> QED
  BY <1>1, <1>2, <1>3, FourParts

LEMMA EachStepNearer ==
  ASSUME IInv, RunsOn
  PROVE  Nearer
<1> USE DEF IInv, Place, Nearer, walk
<1>t. /\ step \in Readings \cup {"names", "check", "none", "down"}
      /\ at \in {"begin", "get", "walk", "size", "fill"}
      /\ list \in Seq(Entries) /\ cursor \in 1..(Len(list) + 1) /\ Len(list) \in Nat
  BY DEF TypeOK
<1>1. CASE CheckNetwork
  <2>1. Stage = 23
    BY <1>1, <1>t DEF CheckNetwork, Stage, Busy, ReadingsLeft, PartsLeft, Walks
  <2>2. Stage' \in {0, 19}
    BY <1>1, <1>t DEF CheckNetwork, Stage, Busy, ReadingsLeft, PartsLeft, Walks
  <2> QED
    BY <2>1, <2>2
<1>11. CASE ReadNames \/ HardwareEnds
  <2>1. Stage = 27
    BY <1>11, <1>t DEF ReadNames, HardwareEnds, Stage, Busy, ReadingsLeft, PartsLeft, Walks
  <2>2. Stage' \in {0, 23}
    BY <1>11, <1>t DEF ReadNames, HardwareEnds, Stage, Busy, ReadingsLeft, PartsLeft, Walks
  <2> QED
    BY <2>1, <2>2
<1>2. CASE FetchPage
  <2>1. step = "isp" /\ at = "begin" /\ step \in Readings
    BY <1>2 DEF FetchPage, Readings, Rows
  <2>2. CASE Answers("page")
    BY <2>1, <2>2, AnswersNearer
  <2>3. CASE at' = "get" /\ UNCHANGED step
    BY <2>1, <2>3, PartNearer DEF PartsLeft, Busy
  <2> QED
    BY <1>2, <2>2, <2>3 DEF FetchPage
<1>3. CASE GetIfAddrs
  <2>1. Busy /\ at \in {"begin", "get"} /\ at' = "walk" /\ UNCHANGED step
    BY <1>3 DEF GetIfAddrs, Busy, Walks
  <2> QED
    BY <2>1, PartNearer DEF PartsLeft
<1>4. CASE WalkOn
  <2>1. at = "walk" /\ cursor' = cursor + 1 /\ UNCHANGED <<step, at, list>>
    BY <1>4 DEF WalkOn
  <2>2. Stage' = Stage
    BY <2>1 DEF Stage, Busy, ReadingsLeft, PartsLeft
  <2>3. EntriesLeft' = EntriesLeft - 1 /\ EntriesLeft \in Nat
    BY <1>t, <2>1 DEF EntriesLeft
  <2> QED
    BY <2>2, <2>3
<1>5. CASE WalkHits
  BY <1>5, AnswersNearer DEF WalkHits, Readings
<1>6. CASE WalkCrashes
  <2>1. step \in Walks /\ step' = "down"
    BY <1>6 DEF WalkCrashes
  <2>2. Busy /\ Stage' = 0
    BY <2>1 DEF Busy, Walks, Stage
  <2> QED
    BY <2>2, StageType
<1>7. CASE WalkEnds
  <2>1. step \in Readings
    BY <1>7 DEF WalkEnds, Walks, Readings, Rows
  <2> QED
    BY <1>7, <2>1, AnswersNearer DEF WalkEnds
<1>8. CASE MacIndex
  <2>1. step \in Readings /\ Busy /\ at = "begin"
    BY <1>8 DEF MacIndex, Readings, Rows, Busy
  <2>2. CASE Answers("nil")
    BY <2>1, <2>2, AnswersNearer
  <2>3. CASE at' = "size" /\ UNCHANGED step
    BY <2>1, <2>3, PartNearer DEF PartsLeft
  <2> QED
    BY <1>8, <2>2, <2>3 DEF MacIndex
<1>9. CASE MacSize
  <2>1. step \in Readings /\ Busy /\ at = "size"
    BY <1>9 DEF MacSize, Readings, Rows, Busy
  <2>2. CASE Answers("nil")
    BY <2>1, <2>2, AnswersNearer
  <2>3. CASE at' = "fill" /\ UNCHANGED step
    BY <2>1, <2>3, PartNearer DEF PartsLeft
  <2> QED
    BY <1>9, <2>2, <2>3 DEF MacSize
<1>10. CASE MacFill
  <2>1. step \in Readings
    BY <1>10 DEF MacFill, Readings, Rows
  <2> QED
    BY <1>10, <2>1, AnswersNearer DEF MacFill
<1> QED
  BY <1>1, <1>2, <1>3, <1>4, <1>5, <1>6, <1>7, <1>8, <1>9, <1>10, <1>11 DEF RunsOn

(* Interfaces that change, however often, put nothing off.                 *)
LEMMA OthersDoNotDelay ==
  ASSUME [Next]_vars, Busy, ~RunsOn
  PROVE  UNCHANGED <<step, Stage, EntriesLeft>>
<1>1. UNCHANGED <<step, at, list, cursor>>
  BY DEF Busy, RunsOn, Next, OpenMenu, CallLocalWiFi, Restart, InterfacesChange, vars, walk
<1> QED
  BY <1>1 DEF Stage, EntriesLeft, Busy, ReadingsLeft, PartsLeft

(* The opening of the menu comes nearer to its end with every step of its  *)
(* thread, by a part of a reading or by an entry of a list, and no change  *)
(* of the interfaces puts it off: each walk goes over the list it was      *)
(* given, and not over one that grows under it (lines 87-132 of            *)
(* NetworkMainMenu.m, 99-198 of UIDevice-Reachability.m).                  *)
THEOREM OpeningRunsDown ==
  Spec => /\ [](/\ Stage \in 0..35 /\ (Busy <=> Stage > 0)
                /\ EntriesLeft \in 0..Len(list))
          /\ [][/\ RunsOn => Nearer
                /\ Busy /\ ~RunsOn => UNCHANGED <<step, Stage, EntriesLeft>>]_vars
<1>1. IInv => /\ Stage \in 0..35 /\ (Busy <=> Stage > 0)
              /\ EntriesLeft \in 0..Len(list)
  <2>1. IInv => EntriesLeft \in 0..Len(list)
    <3> SUFFICES ASSUME IInv PROVE EntriesLeft \in 0..Len(list)
      OBVIOUS
    <3>1. list \in Seq(Entries) /\ cursor \in 1..(Len(list) + 1) /\ Len(list) \in Nat
      BY DEF IInv, TypeOK
    <3> QED
      BY <3>1 DEF EntriesLeft
  <2> QED
    BY <2>1, StageType
<1>2. IInv /\ [Next]_vars =>
        [/\ RunsOn => Nearer
         /\ Busy /\ ~RunsOn => UNCHANGED <<step, Stage, EntriesLeft>>]_vars
  BY EachStepNearer, OthersDoNotDelay
<1> QED
  BY <1>1, <1>2, Inductive, PTL DEF Spec
=============================================================================
