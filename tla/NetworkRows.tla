---------------------------- MODULE NetworkRows ----------------------------
(***************************************************************************)
(* The rows of the network menu (NetworkMainMenu.m -init) and the walks    *)
(* over the network interfaces behind them (UIDevice-Reachability.m,       *)
(* UIDevice-Hardware.m). Each row asks the kernel anew, one after another, *)
(* with two pages fetched in between; interfaces and their addresses come  *)
(* and go meanwhile. A walk goes over the list that getifaddrs made for it.*)
(* The hardware menu (HardwareMainMenu.m -init) begins with the same two   *)
(* walks and asks the interfaces no more.                                  *)
(***************************************************************************)
EXTENDS Naturals, Sequences

CONSTANTS
  Addresses,   \* IPv4 addresses
  Entries,     \* what a list of getifaddrs may hold
  MaxEntries,  \* bound: its length
  MaxChanges   \* bound: changes of the interfaces

Names == {"en0", "en1", "pdp_ip0", "lo0"}
Families == {"inet", "inet6", "link", "none"}   \* none: ifa_addr is NULL

(* What a row may say instead of an address. A page that has the four parts*)
(* of an address is "page", any other one "text".                          *)
Words == {"", "error", "nil", "0.0.0.0", "text", "page", "garbage", "unread"}

ASSUME EntriesAssumption ==
  /\ Entries \subseteq [name : Names, family : Families, address : Addresses \cup {"nil"}]
  /\ \A e \in Entries : e.family = "inet" => e.address \in Addresses
  /\ Addresses \cap (Words \cup Names) = {}
  /\ MaxEntries \in Nat
  /\ MaxChanges \in Nat

(* The rows that ask about interfaces, in the order of -init, and          *)
(* -localWiFiIPAddress, which other code may call.                         *)
Rows == {"port", "lan", "mac", "macW", "isp", "ip"}
Walks == {"port", "lan", "isp", "ip", "wifi"}
Readings == Rows \cup {"wifi"}
Values == Addresses \cup Names \cup Words

VARIABLES
  interfaces,  \* the kernel's list
  changes,     \* of it, so far
  moved,       \* history: it changed since the menu was opened
  step,        \* the reading under way
  at,          \* where in that reading
  list,        \* the list the walk goes over
  cursor,      \* where in the list
  found,       \* address, name or wifiAddress: what the walk found so far
  cell,        \* cellAddress of -getIPAddress
  left,        \* history: the interface has been away since if_nametoindex
  rows,        \* _names, and the last answer of -localWiFiIPAddress
  (* Since the menu was opened; what earlier ones left behind adds up.     *)
  held,        \* the steps that allocated what nobody has freed
  hit,         \* history: -localWiFiIPAddress has found an address
  refused      \* history: the readings whose second sysctl has failed

kernel == <<interfaces, changes, moved>>
walk == <<list, cursor, found, cell>>
past == <<hit, refused>>
vars == <<kernel, step, at, walk, left, rows, held, past>>

Lists == UNION {[1..n -> Entries] : n \in 0..MaxEntries}
Unread == [r \in Readings |-> "unread"]

TypeOK ==
  /\ interfaces \in Seq(Entries)
  /\ changes \in 0..MaxChanges
  /\ moved \in BOOLEAN /\ left \in BOOLEAN /\ hit \in BOOLEAN
  /\ step \in Readings \cup {"names", "check", "none", "down"}
  /\ at \in {"begin", "get", "walk", "size", "fill"}
  /\ list \in Seq(Entries)
  /\ cursor \in 1..(Len(list) + 1)
  /\ found \in Values /\ cell \in Values
  /\ rows \in [Readings -> Values]
  /\ held \subseteq Readings \cup {"names"}
  /\ refused \subseteq {"mac", "macW"}

Init ==
  /\ interfaces \in Lists
  /\ changes = 0
  /\ moved = FALSE
  /\ step = "none"
  /\ at = "begin"
  /\ list = <<>>
  /\ cursor = 1
  /\ found = "nil"
  /\ cell = "nil"
  /\ left = FALSE
  /\ rows = Unread
  /\ held = {}
  /\ hit = FALSE
  /\ refused = {}
-----------------------------------------------------------------------------
(* inet_ntoa of the sockaddr_in that an entry is taken for. In an IPv6     *)
(* address the flow information is in that place, 0 for an interface.      *)
ReadLong(e) == IF e.family = "inet" THEN e.address ELSE "fe80::1"
Read(e) == IF e.family = "inet" THEN e.address ELSE "0.0.0.0"

(* Slip: both hardware addresses are asked of en0.                         *)
PortSame(r) == "en0"
Port(r) == IF r = "mac" THEN "en1" ELSE "en0"
Present(name) == \E k \in DOMAIN interfaces : interfaces[k].name = name

(* What follows a reading of -init.                                        *)
After(r) ==
  CASE r = "port" -> "lan"
    [] r = "lan" -> "names"
    [] r = "mac" -> "macW"
    [] r = "macW" -> "isp"
    [] r = "isp" -> "ip"
    [] OTHER -> "none"

(* A reading returns; the walk's variables are gone.                       *)
Answers(x) ==
  /\ rows' = [rows EXCEPT ![step] = x]
  /\ step' = After(step)
  /\ at' = "begin"
  /\ list' = <<>>
  /\ cursor' = 1
  /\ found' = "nil"
  /\ cell' = "nil"

OpenMenu ==
  /\ step = "none"
  /\ step' = "port"
  /\ rows' = Unread
  /\ moved' = FALSE
  /\ held' = {}
  /\ hit' = FALSE
  /\ refused' = {}
  /\ UNCHANGED <<interfaces, changes, at, walk, left>>

CallLocalWiFi ==
  /\ step = "none"
  /\ step' = "wifi"
  /\ UNCHANGED <<kernel, at, walk, left, rows, held, past>>

(* The two property lists of -init, each read into a dictionary that is    *)
(* never released, or nil when its file cannot be read.                    *)
ReadNames ==
  /\ step = "names"
  /\ step' = "check"
  /\ held' \in {held, held \cup {"names"}}
  /\ UNCHANGED <<kernel, at, walk, left, rows, past>>

(* It was the hardware menu, which reads no such file and lists neither of *)
(* the two answers.                                                        *)
HardwareEnds ==
  /\ step = "names"
  /\ step' = "none"
  /\ rows' = Unread
  /\ UNCHANGED <<kernel, at, walk, left, held, past>>

(* -networkAvailable, and an NSError that nobody set: the notice, or rows. *)
CheckNetwork ==
  /\ step = "check"
  /\ step' \in {"none", "mac"}
  /\ UNCHANGED <<kernel, at, walk, left, rows, held, past>>

(* The page comes, or an error: nil. A page with four parts is the answer. *)
FetchPage ==
  /\ step = "isp"
  /\ at = "begin"
  /\ \/ Answers("page")
     \/ /\ found' \in {"nil", "text"}
        /\ at' = "get"
        /\ UNCHANGED <<step, list, cursor, cell, rows>>
  /\ UNCHANGED <<kernel, left, held, past>>

(* What a walk answers when it finds nothing.                              *)
Default(r) ==
  CASE r = "port" -> ""
    [] r = "lan" -> "error"
    [] OTHER -> "nil"

(* getifaddrs copies the kernel's list; where it fails there is none.      *)
GetIfAddrs ==
  /\ \/ step \in Walks \ {"isp"} /\ at = "begin" /\ found' = Default(step)
     \/ step = "isp" /\ at = "get" /\ UNCHANGED found
  /\ at' = "walk"
  /\ \/ list' = interfaces /\ held' = held \cup {step}
     \/ UNCHANGED <<list, held>>
  /\ UNCHANGED <<kernel, step, cursor, cell, left, rows, past>>

(* The entries that a walk stores over what it found before. The test of   *)
(* IFF_LOOPBACK in -localWiFiIPAddress says no more than the name does.    *)
Picks(r, e) ==
  CASE r = "port" -> TRUE
    [] r = "lan" -> e.name = "en1" /\ e.family = "inet"
    [] r = "isp" -> e.name = "en0" /\ e.family = "inet"
    [] r = "ip" -> e.name = "en0" /\ e.family \in {"inet", "inet6"}
    [] r = "wifi" -> e.name = "en1" /\ e.family = "inet"

(* What is stored of an entry.                                             *)
Stored(e) ==
  /\ found' = IF ~Picks(step, e) THEN found ELSE IF step = "port" THEN e.name ELSE Read(e)
  /\ cell' = IF step = "ip" /\ e.name = "pdp_ip0" /\ e.family \in {"inet", "inet6"}
             THEN Read(e) ELSE cell

(* Slips: the first entry wins; the cursor moves on inside the test of the *)
(* family.                                                                 *)
WalkOnFirstWins ==
  /\ at = "walk"
  /\ cursor \in DOMAIN list
  /\ LET e == list[cursor] IN
     /\ e.family # "none"
     /\ ~(step = "wifi" /\ Picks(step, e))
     /\ IF found = Default(step) THEN Stored(e) ELSE UNCHANGED <<found, cell>>
  /\ cursor' = cursor + 1
  /\ UNCHANGED <<kernel, step, at, list, left, rows, held, past>>

WalkOnAddressesOnly ==
  /\ at = "walk"
  /\ cursor \in DOMAIN list
  /\ LET e == list[cursor] IN
     /\ e.family # "none"
     /\ ~(step = "wifi" /\ Picks(step, e))
     /\ Stored(e)
     /\ cursor' = IF e.family \in {"inet", "inet6"} THEN cursor + 1 ELSE cursor
  /\ UNCHANGED <<kernel, step, at, list, left, rows, held, past>>

WalkOn ==
  /\ at = "walk"
  /\ cursor \in DOMAIN list
  /\ LET e == list[cursor] IN
     /\ e.family # "none"
     /\ ~(step = "wifi" /\ Picks(step, e))
     /\ Stored(e)
  /\ cursor' = cursor + 1
  /\ UNCHANGED <<kernel, step, at, list, left, rows, held, past>>

(* -localWiFiIPAddress returns from within the loop.                       *)
WalkHits ==
  /\ step = "wifi"
  /\ at = "walk"
  /\ cursor \in DOMAIN list
  /\ Picks(step, list[cursor])
  /\ Answers(Read(list[cursor]))
  /\ hit' = TRUE
  /\ UNCHANGED <<kernel, left, held, refused>>

(* An entry without an address: AppleTV.app ends, and its memory with it.  *)
WalkCrashes ==
  /\ at = "walk"
  /\ cursor \in DOMAIN list
  /\ list[cursor].family = "none"
  /\ step' = "down"
  /\ at' = "begin"
  /\ list' = <<>>
  /\ cursor' = 1
  /\ found' = "nil"
  /\ cell' = "nil"
  /\ rows' = Unread
  /\ held' = {}
  /\ hit' = FALSE
  /\ refused' = {}
  /\ UNCHANGED <<kernel, left>>

(* The end of -getIPAddress: Wi-Fi, else cellular, else 0.0.0.0.           *)
OwnAddress ==
  IF found # "nil" THEN found ELSE IF cell # "nil" THEN cell ELSE "0.0.0.0"

(* Slip: the list is freed only when something was found.                  *)
WalkEndsFreeingFound ==
  /\ at = "walk"
  /\ cursor \notin DOMAIN list
  /\ Answers(IF step = "ip" THEN OwnAddress ELSE found)
  /\ held' = IF step = "lan" \/ found = Default(step) THEN held ELSE held \ {step}
  /\ UNCHANGED <<kernel, left, past>>

(* The list is freed, but for those of line 118 of NetworkMainMenu.m and   *)
(* line 117 of HardwareMainMenu.m.                                         *)
WalkEnds ==
  /\ at = "walk"
  /\ cursor \notin DOMAIN list
  /\ Answers(IF step = "ip" THEN OwnAddress ELSE found)
  /\ held' = IF step = "lan" THEN held ELSE held \ {step}
  /\ UNCHANGED <<kernel, left, past>>

(* if_nametoindex, 0 when there is no such interface.                      *)
MacIndex ==
  /\ step \in {"mac", "macW"}
  /\ at = "begin"
  /\ IF Present(Port(step))
     THEN at' = "size" /\ UNCHANGED <<step, walk, rows>>
     ELSE Answers("nil")
  /\ UNCHANGED <<kernel, left, held, past>>

(* The first sysctl and the malloc of as many bytes; each may fail.        *)
MacSize ==
  /\ at = "size"
  /\ \/ /\ at' = "fill" /\ held' = held \cup {step}
        /\ UNCHANGED <<step, walk, rows>>
     \/ Answers("nil") /\ UNCHANGED held
  /\ left' = (at' = "fill" /\ left)
  /\ UNCHANGED <<kernel, past>>

(* The second sysctl fails, as for a list that has grown: the buffer stays.*)
(* It succeeds for an index that is gone too, and writes nothing; an index *)
(* that came back may be another one. The address is read in either case.  *)
MacFill ==
  /\ at = "fill"
  /\ \/ Answers("nil") /\ refused' = refused \cup {step} /\ UNCHANGED held
     \/ /\ \/ Answers(Port(step)) /\ Present(Port(step))
           \/ Answers("garbage") /\ left
        /\ held' = held \ {step}
        /\ UNCHANGED refused
  /\ left' = FALSE
  /\ UNCHANGED <<kernel, hit>>

Restart ==
  /\ step = "down"
  /\ step' = "none"
  /\ UNCHANGED <<kernel, at, walk, left, rows, held, past>>

(* An address is added to an interface, or one entry goes.                 *)
InterfacesChange ==
  /\ changes < MaxChanges
  /\ \/ \E e \in Entries : Len(interfaces) < MaxEntries /\ interfaces' = Append(interfaces, e)
     \/ \E k \in DOMAIN interfaces :
          interfaces' = SubSeq(interfaces, 1, k - 1) \o SubSeq(interfaces, k + 1, Len(interfaces))
  /\ changes' = changes + 1
  /\ moved' = TRUE
  /\ UNCHANGED <<step, at, walk, rows, held, past>>
  /\ left' = (left \/ (at \in {"size", "fill"} /\ ~Present(Port(step))'))
-----------------------------------------------------------------------------
(* What the thread of -init does by itself.                                *)
RunsOn == \/ ReadNames \/ HardwareEnds \/ CheckNetwork \/ FetchPage
          \/ GetIfAddrs \/ WalkOn \/ WalkHits \/ WalkCrashes \/ WalkEnds
          \/ MacIndex \/ MacSize \/ MacFill

Next ==
  \/ OpenMenu \/ CallLocalWiFi
  \/ ReadNames \/ HardwareEnds \/ CheckNetwork \/ FetchPage
  \/ GetIfAddrs \/ WalkOn \/ WalkHits \/ WalkCrashes \/ WalkEnds
  \/ MacIndex \/ MacSize \/ MacFill
  \/ Restart
  \/ InterfacesChange

Spec == Init /\ [][Next]_vars /\ WF_vars(RunsOn)
-----------------------------------------------------------------------------
(* The entries of a list for an interface and some families.               *)
EntriesFor(name, families, l) ==
  {k \in DOMAIN l : l[k].name = name /\ l[k].family \in families}

IsLast(S, l, x) == \E k \in S : (\A j \in S : j <= k) /\ x = Read(l[k])
IsFirst(S, l, x) == \E k \in S : (\A j \in S : k <= j) /\ x = Read(l[k])

(* What each reading is to answer, given the list it went over.            *)
Fits(r, x, l) ==
  LET lan == EntriesFor("en1", {"inet"}, l)
      wireless == EntriesFor("en0", {"inet"}, l)
      ip == EntriesFor("en0", {"inet", "inet6"}, l)
      cellular == EntriesFor("pdp_ip0", {"inet", "inet6"}, l)
  IN
  CASE r = "port" -> x = IF l = <<>> THEN "" ELSE l[Len(l)].name
    [] r = "lan" -> IF lan = {} THEN x = "error" ELSE IsLast(lan, l, x)
    [] r = "isp" -> IF wireless = {} THEN x \in {"nil", "text"} ELSE IsLast(wireless, l, x)
    [] r = "ip" -> IF ip # {} THEN IsLast(ip, l, x)
                   ELSE IF cellular # {} THEN IsLast(cellular, l, x)
                   ELSE x = "0.0.0.0"
    [] r = "wifi" -> IF lan = {} THEN x = "nil" ELSE IsFirst(lan, l, x)

(* A walk that returns has answered for the list it was given, whatever    *)
(* the interfaces became meanwhile: the last address in -init and the page *)
(* reading, the first in -localWiFiIPAddress, and Wi-Fi before cellular    *)
(* with 0.0.0.0 for an IPv6 address or for none (lines 99-108, 144-154,    *)
(* 177-198 of UIDevice-Reachability.m; 87-109, 122-132 of NetworkMainMenu).*)
RowsFit ==
  [][at = "walk" /\ step' \notin {step, "down"} => Fits(step, rows'[step], list)]_vars

(* The rows of one menu agree when the interfaces stood still while it was *)
(* made: two rows that tell the address of en0 tell the same one, and the  *)
(* hardware addresses are those of the interfaces (lines 190-198).         *)
RowsAgree ==
  ~moved =>
    /\ {rows["isp"], rows["ip"]} \subseteq Addresses => rows["isp"] = rows["ip"]
    /\ rows["mac"] \in {"en1", "nil", "unread"}
    /\ rows["macW"] \in {"en0", "nil", "unread"}
    /\ rows["lan"] \in Addresses => Present("en1")

(* Of what the readings and -init allocate with getifaddrs, malloc and     *)
(* alloc, this stays behind: the second list of every opening (line 118 of *)
(* NetworkMainMenu.m, 117 of HardwareMainMenu.m), the two dictionaries     *)
(* (lines 139 and 146), the list of a -localWiFiIPAddress that found its   *)
(* address (106 of UIDevice-Reachability.m), and the buffer of a second    *)
(* sysctl that failed (611 and 659 of UIDevice-Hardware.m). Every other    *)
(* list and buffer is gone when its reading has returned, by any way out.  *)
LeaksAreKnown ==
  held \ {step} \subseteq
    {"lan", "names"} \cup (IF hit THEN {"wifi"} ELSE {}) \cup refused

(* Opening the menu ends, with the list or with the host, although the     *)
(* interfaces change under the walks.                                      *)
OpeningEnds == step = "port" ~> step \in {"none", "down"}
=============================================================================
