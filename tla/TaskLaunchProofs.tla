-------------------------- MODULE TaskLaunchProofs --------------------------
(***************************************************************************)
(* Theorems about TaskLaunch, for any arguments, directories and size of a *)
(* short: what -launch gives back on each way out, and what it gives the   *)
(* tool.                                                                   *)
(***************************************************************************)
EXTENDS TaskLaunch, SequenceTheorems, TLAPS

Deciding == {"copyRights", "build", "getcwd", "chdir", "execute"}
Unnamed == {"copyRights", "build", "getcwd"}
Executed == {"restore", "free", "finish"}

(* Each call that has got so far ends in a refusal, a tool, or nothing,    *)
(* and has got a path from getcwd or is still to ask for one, or neither.  *)
Counts ==
  /\ launches \in Nat /\ denials \in Nat /\ tools \in Nat /\ launches <= MaxLaunches
  /\ paths \in Nat /\ streams = tools
  /\ denials + tools + (IF pc \in Deciding THEN 1 ELSE 0) <= launches
  /\ denials + paths + (IF pc \in Unnamed THEN 1 ELSE 0) <= launches
  /\ authRefs = denials + (IF pc \in {"idle", "finish"} THEN 0 ELSE 1)
  /\ authRefs <= launches

(* The strings of the loop are allocated before and freed after.           *)
StringsKept ==
  /\ allocated \subseteq Looped
  /\ pc \in {"idle", "copyRights", "finish"} => allocated = {}

(* The loop has filled what it passed; once i has wrapped, all it ever can.*)
Filled ==
  /\ pc = "copyRights" => i = 0
  /\ pc = "build" => \A k \in Looped : i < 0 \/ k < i => args[k] = Written(arguments[k + 1])
  /\ pc \in {"getcwd", "chdir", "execute"} =>
       \A k \in Looped : args[k] = Written(arguments[k + 1])

(* What is known to lead back to the host's directory.                     *)
NoWayBack == unnamed \/ HostDirectory \notin reachable

Directory ==
  /\ pc \notin {"execute", "restore"} => directory = HostDirectory \/ NoWayBack
  /\ pc \in {"chdir", "execute", "restore"} => prevCwd = HostDirectory \/ NoWayBack
  /\ pc = "execute" => directory = cwd \/ cwd \notin reachable

IvarsMatch ==
  /\ pid = tools /\ outputFileHandle = tools /\ checkStatusTimer = tools
  /\ isRunning <=> tools > 0

Ivars ==
  /\ pc \notin Executed \/ failed => IvarsMatch
  /\ pc \in Executed /\ ~failed => tools = pid + 1 /\ checkStatusTimer = pid

IInv == TypeOK /\ Counts /\ StringsKept /\ Filled /\ Directory /\ Ivars

(* The type invariant in three parts, each for the provers to take alone.  *)
TypesOfCall ==
  /\ pc \in {"idle", "copyRights", "build", "getcwd", "chdir", "execute", "restore",
             "free", "finish"}
  /\ launches \in 0..MaxLaunches /\ authRefs \in 0..MaxLaunches
  /\ denials \in 0..MaxLaunches /\ tools \in 0..MaxLaunches
  /\ paths \in 0..MaxLaunches /\ streams \in 0..MaxLaunches
  /\ failed \in BOOLEAN /\ isRunning \in BOOLEAN
  /\ outputFileHandle \in 0..MaxLaunches /\ pid \in 0..MaxLaunches
  /\ checkStatusTimer \in 0..MaxLaunches

TypesOfArguments ==
  /\ arguments \in Seq(Strings) /\ Len(arguments) <= MaxArguments
  /\ i \in (-ShortMax - 1)..ShortMax
  /\ args \in [Slots -> Nat \cup {-1}]
  /\ allocated \subseteq Slots

TypesOfDirectories ==
  /\ cwd \in Directories /\ directory \in Directories
  /\ reachable \subseteq Directories
  /\ prevCwd \in Directories \cup {NoPath}
  /\ unnamed \in BOOLEAN

LEMMA TypeParts == TypeOK <=> TypesOfCall /\ TypesOfArguments /\ TypesOfDirectories
  BY DEF TypeOK, TypesOfCall, TypesOfArguments, TypesOfDirectories

LEMMA InitIInv == Init => IInv
<1> SUFFICES ASSUME Init PROVE IInv
  OBVIOUS
<1> USE LaunchAssumption DEF Init
<1>1. arguments \in Seq(Strings) /\ Len(arguments) = 0
  OBVIOUS
<1>2. TypesOfCall
  <2>1. 0 \in 0..MaxLaunches
    OBVIOUS
  <2> HIDE LaunchAssumption
  <2> QED
    BY <2>1 DEF TypesOfCall
<1>3. i \in (-ShortMax - 1)..ShortMax /\ args \in [Slots -> Nat \cup {-1}]
  OBVIOUS
<1>4. TypesOfArguments
  BY <1>1, <1>3 DEF TypesOfArguments
<1>5. TypesOfDirectories
  BY DEF TypesOfDirectories
<1>6. Counts
  BY DEF Counts, Deciding, Unnamed
<1>7. StringsKept /\ Filled
  BY DEF StringsKept, Filled
<1>8. Directory /\ Ivars
  BY DEF Directory, Ivars, IvarsMatch, Executed
<1> QED
  BY <1>2, <1>4, <1>5, <1>6, <1>7, <1>8, TypeParts DEF IInv

(* The string a turn of the loop builds is one it frees, and fits.         *)
LEMMA BuiltArgument ==
  ASSUME TypeOK, InLoop(i)
  PROVE  /\ i \in Looped /\ i \in Slots
         /\ arguments[i + 1] \in Strings
         /\ Written(arguments[i + 1]) \in Nat
<1>1. i \in 0..ShortMax /\ i < Len(arguments) /\ Len(arguments) \in Nat
  BY LaunchAssumption DEF TypeOK, InLoop
<1>2. i \in Looped /\ i \in Slots
  BY <1>1, LaunchAssumption DEF TypeOK, Looped, Slots
<1>3. arguments \in Seq(Strings) /\ i + 1 \in 1..Len(arguments)
  BY <1>1, LaunchAssumption DEF TypeOK
<1>4. arguments[i + 1] \in Strings
  BY <1>3
<1> QED
  BY <1>2, <1>4, LaunchAssumption DEF Written

(* Every action keeps the invariant.                                       *)
LEMMA NextIInv == IInv /\ [Next]_vars => IInv'
<1> SUFFICES ASSUME IInv, [Next]_vars PROVE IInv'
  OBVIOUS
<1> USE DEF leaks, local, world, ivars
<1>1. TypesOfCall /\ TypesOfArguments /\ TypesOfDirectories
  BY TypeParts DEF IInv
<1>2. Counts /\ StringsKept /\ Filled /\ Directory /\ Ivars
  BY DEF IInv
<1>3. (TypesOfCall /\ TypesOfArguments /\ TypesOfDirectories)' => TypeOK'
  BY TypeParts, PTL
<1> HIDE DEF IInv
<1>4. CASE SetArguments
  <2>1. TypesOfCall' /\ TypesOfArguments' /\ TypesOfDirectories'
    BY <1>1, <1>2, <1>4 DEF TypesOfCall, Counts, Deciding, Unnamed, TypesOfArguments,
       TypesOfDirectories, SetArguments
  <2>2. Counts'
    BY <1>1, <1>2, <1>4 DEF Counts, Deciding, Unnamed, SetArguments
  <2>3. StringsKept' /\ Filled'
    BY <1>1, <1>2, <1>4 DEF StringsKept, Looped, Filled, SetArguments
  <2>4. Directory'
    BY <1>1, <1>2, <1>4 DEF Directory, NoWayBack, SetArguments
  <2>5. Ivars'
    BY <1>1, <1>2, <1>4 DEF Ivars, IvarsMatch, Executed, SetArguments
  <2> QED
    BY <2>1, <2>2, <2>3, <2>4, <2>5, <1>3 DEF IInv
<1>5. CASE Launch
  <2>1. TypesOfCall'
    <3>1. MaxLaunches \in Nat /\ launches' \in 0..MaxLaunches
      BY <1>1, <1>5, LaunchAssumption DEF TypesOfCall, Launch
    <3>2. authRefs' \in 0..MaxLaunches
      BY <1>1, <1>2, <3>1, <1>5 DEF TypesOfCall, Counts, Launch
    <3> QED
      BY <1>1, <3>1, <3>2, <1>5 DEF TypesOfCall, Launch
  <2>2. TypesOfArguments'
    <3>1. i' \in (-ShortMax - 1)..ShortMax
      BY <1>5, LaunchAssumption DEF Launch
    <3>2. args' \in [Slots -> Nat \cup {-1}]
      BY <1>5 DEF Launch
    <3> QED
      BY <1>1, <3>1, <3>2, <1>5 DEF TypesOfArguments, Launch
  <2>3. TypesOfDirectories'
    BY <1>1, <1>2, <1>5 DEF TypesOfDirectories, Launch
  <2>4. Counts'
    <3>1. MaxLaunches \in Nat /\ authRefs \in Nat
      BY <1>1, LaunchAssumption DEF TypesOfCall
    <3>2. /\ launches' = launches + 1 /\ launches < MaxLaunches
          /\ denials' = denials /\ tools' = tools /\ pc = "idle"
          /\ paths' = paths /\ streams' = streams
          /\ \/ pc' = "copyRights" /\ authRefs' = authRefs + 1
             \/ pc' = pc /\ authRefs' = authRefs
      BY <1>5 DEF Launch
    <3> QED
      BY <1>2, <3>1, <3>2 DEF Counts, Deciding, Unnamed
  <2>5. StringsKept' /\ Filled'
    BY <1>1, <1>2, <1>5 DEF StringsKept, Looped, Filled, Launch
  <2>6. Directory'
    BY <1>1, <1>2, <1>5 DEF Directory, NoWayBack, Launch
  <2>7. Ivars'
    BY <1>1, <1>2, <1>5 DEF Ivars, IvarsMatch, Executed, Launch
  <2> QED
    BY <2>1, <2>2, <2>3, <2>4, <2>5, <2>6, <2>7, <1>3 DEF IInv
<1>6. CASE CopyRights
  <2>1. TypesOfCall' /\ TypesOfArguments' /\ TypesOfDirectories'
    BY <1>1, <1>2, <1>6 DEF TypesOfCall, Counts, Deciding, Unnamed, TypesOfArguments,
       TypesOfDirectories, CopyRights
  <2>2. Counts'
    BY <1>1, <1>2, <1>6 DEF Counts, Deciding, Unnamed, CopyRights
  <2>3. Filled'
    <3>1. pc = "copyRights" /\ pc' \in {"build", "idle"} /\ i' = i /\ args' = args /\ i = 0
      BY <1>2, <1>6 DEF Filled, CopyRights
    <3>2. \A k \in Looped' : ~(i' < 0) /\ ~(k < i')
      BY <3>1 DEF Looped, Slots
    <3> QED
      BY <3>1, <3>2 DEF Filled
  <2>4. StringsKept'
    BY <1>1, <1>2, <1>6 DEF StringsKept, Looped, CopyRights
  <2>5. Directory'
    BY <1>1, <1>2, <1>6 DEF Directory, NoWayBack, CopyRights
  <2>6. Ivars'
    BY <1>1, <1>2, <1>6 DEF Ivars, IvarsMatch, Executed, CopyRights
  <2> QED
    BY <2>1, <2>2, <2>3, <2>4, <2>5, <2>6, <1>3 DEF IInv
<1>7. CASE BuildArgument
  <2>1. TypesOfArguments'
    <3>1. i' \in (-ShortMax - 1)..ShortMax
      BY <1>1, <1>7, LaunchAssumption DEF TypesOfArguments, BuildArgument, Incremented
    <3>2. /\ args' = [args EXCEPT ![i] = Written(arguments[i + 1])]
          /\ allocated' = allocated \cup {i} /\ arguments' = arguments
      BY <1>7 DEF BuildArgument
    <3>3. Written(arguments[i + 1]) \in Nat /\ i \in Slots
      BY <1>7, BuiltArgument, TypeParts, <1>1 DEF BuildArgument
    <3> QED
      BY <1>1, <3>1, <3>2, <3>3 DEF TypesOfArguments
  <2>2. TypesOfCall' /\ TypesOfDirectories'
    BY <1>1, <1>2, <1>7 DEF TypesOfCall, Counts, Deciding, Unnamed, TypesOfDirectories,
       BuildArgument
  <2>3. Counts'
    BY <1>1, <1>2, <1>7 DEF Counts, Deciding, Unnamed, BuildArgument
  <2>4. StringsKept'
    <3>1. allocated' = allocated \cup {i} /\ arguments' = arguments /\ pc = "build" /\ pc' = pc
      BY <1>7 DEF BuildArgument
    <3>2. i \in Looped
      BY <1>7, BuiltArgument, TypeParts, <1>1 DEF BuildArgument
    <3>3. Looped' = Looped
      BY <3>1 DEF Looped
    <3> QED
      BY <1>2, <3>1, <3>2, <3>3 DEF StringsKept
  <2>5. Filled'
    <3>1. /\ args' = [args EXCEPT ![i] = Written(arguments[i + 1])] /\ i' = Incremented(i)
          /\ arguments' = arguments /\ pc = "build" /\ pc' = pc
      BY <1>7 DEF BuildArgument
    <3>2. i \in Looped /\ Looped' = Looped /\ InLoop(i)
      BY <1>7, <3>1, BuiltArgument, TypeParts, <1>1 DEF BuildArgument, Looped
    <3>3. args \in [Slots -> Nat \cup {-1}] /\ i \in Nat
      BY <1>1, <3>2 DEF TypesOfArguments, Looped, Slots
    <3>4. ASSUME NEW k \in Looped, i' < 0 \/ k < i' PROVE args'[k] = Written(arguments[k + 1])
      <4>1. k \in Nat /\ k \in Slots /\ k <= ShortMax /\ ShortMax \in Nat
        BY LaunchAssumption DEF Looped, Slots
      <4>2. k <= i
        BY <3>1, <3>3, <3>4, <4>1 DEF Incremented
      <4>3. CASE k = i
        BY <3>1, <3>2, <3>3, <4>1, <4>3
      <4>4. CASE k < i
        BY <1>2, <3>1, <3>2, <3>3, <4>1, <4>4 DEF Filled
      <4> QED
        BY <3>3, <4>1, <4>2, <4>3, <4>4
    <3> QED
      BY <3>1, <3>2, <3>4 DEF Filled
  <2>6. Directory'
    BY <1>1, <1>2, <1>7 DEF Directory, NoWayBack, BuildArgument
  <2>7. Ivars'
    BY <1>1, <1>2, <1>7 DEF Ivars, IvarsMatch, Executed, BuildArgument
  <2> QED
    BY <2>1, <2>2, <2>3, <2>4, <2>5, <2>6, <2>7, <1>3 DEF IInv
<1>8. CASE BuildEnds
  <2>1. TypesOfCall' /\ TypesOfArguments' /\ TypesOfDirectories'
    BY <1>1, <1>2, <1>8 DEF TypesOfCall, Counts, Deciding, Unnamed, TypesOfArguments,
       TypesOfDirectories, BuildEnds
  <2>2. Counts'
    BY <1>1, <1>2, <1>8 DEF Counts, Deciding, Unnamed, BuildEnds
  <2>3. Filled'
    <3>1. /\ pc = "build" /\ ~InLoop(i) /\ pc' = "getcwd"
          /\ i' = i /\ args' = args /\ arguments' = arguments
      BY <1>8 DEF BuildEnds
    <3>2. i \in Int /\ Len(arguments) \in Nat
      BY <1>1, LaunchAssumption DEF TypesOfArguments
    <3>3. \A k \in Looped : i < 0 \/ k < i
      BY <3>1, <3>2, LaunchAssumption DEF Looped, Slots, InLoop
    <3>4. Looped' = Looped
      BY <3>1 DEF Looped
    <3> QED
      BY <1>2, <3>1, <3>3, <3>4 DEF Filled
  <2>4. StringsKept'
    BY <1>1, <1>2, <1>8 DEF StringsKept, Looped, BuildEnds
  <2>5. Directory'
    BY <1>1, <1>2, <1>8 DEF Directory, NoWayBack, BuildEnds
  <2>6. Ivars'
    BY <1>1, <1>2, <1>8 DEF Ivars, IvarsMatch, Executed, BuildEnds
  <2> QED
    BY <2>1, <2>2, <2>3, <2>4, <2>5, <2>6, <1>3 DEF IInv
<1>9. CASE GetCwd
  <2>1. TypesOfCall'
    <3>1. /\ pc = "getcwd" /\ paths' \in {paths, paths + 1} /\ paths \in Nat
          /\ denials + paths + 1 <= launches
      BY <1>2, <1>9 DEF GetCwd, Counts, Unnamed
    <3>2. paths' \in 0..MaxLaunches
      BY <1>1, <1>2, <3>1, LaunchAssumption DEF Counts, TypesOfCall
    <3> QED
      BY <1>1, <3>2, <1>9 DEF TypesOfCall, GetCwd
  <2>6. TypesOfArguments' /\ TypesOfDirectories'
    BY <1>1, <1>2, <1>9 DEF TypesOfArguments, TypesOfDirectories, GetCwd
  <2>2. Counts'
    BY <1>1, <1>2, <1>9 DEF Counts, Deciding, Unnamed, GetCwd
  <2>3. StringsKept' /\ Filled'
    BY <1>1, <1>2, <1>9 DEF StringsKept, Looped, Filled, GetCwd
  <2>4. Directory'
    BY <1>1, <1>2, <1>9 DEF Directory, NoWayBack, GetCwd
  <2>5. Ivars'
    BY <1>1, <1>2, <1>9 DEF Ivars, IvarsMatch, Executed, GetCwd
  <2> QED
    BY <2>1, <2>2, <2>3, <2>4, <2>5, <2>6, <1>3 DEF IInv
<1>10. CASE ChangeDirectory
  <2>1. TypesOfCall' /\ TypesOfArguments' /\ TypesOfDirectories'
    BY <1>1, <1>2, <1>10 DEF TypesOfCall, Counts, Deciding, Unnamed, TypesOfArguments,
       TypesOfDirectories, ChangeDirectory, ChDir
  <2>2. Counts'
    BY <1>1, <1>2, <1>10 DEF Counts, Deciding, Unnamed, ChangeDirectory, ChDir
  <2>3. StringsKept' /\ Filled'
    BY <1>1, <1>2, <1>10 DEF StringsKept, Looped, Filled, ChangeDirectory, ChDir
  <2>4. Directory'
    BY <1>1, <1>2, <1>10 DEF Directory, NoWayBack, ChangeDirectory, ChDir
  <2>5. Ivars'
    BY <1>1, <1>2, <1>10 DEF Ivars, IvarsMatch, Executed, ChangeDirectory, ChDir
  <2> QED
    BY <2>1, <2>2, <2>3, <2>4, <2>5, <1>3 DEF IInv
<1>11. CASE Execute
  <2>1. TypesOfCall'
    <3>1. pc = "execute" /\ tools \in Nat /\ denials \in Nat /\ tools + 1 <= launches
      BY <1>2, <1>11 DEF Execute, Counts, Deciding, Unnamed
    <3>2. MaxLaunches \in Nat /\ tools + 1 \in 0..MaxLaunches
      BY <1>1, <1>2, <3>1, LaunchAssumption DEF Counts, TypesOfCall
    <3>3. tools' \in {tools, tools + 1} /\ streams' = tools'
      BY <1>2, <1>11 DEF Execute, Counts
    <3> QED
      BY <1>1, <3>2, <3>3, <1>11 DEF TypesOfCall, Execute
  <2>2. TypesOfArguments' /\ TypesOfDirectories'
    BY <1>1, <1>2, <1>11 DEF TypesOfArguments, TypesOfDirectories, Execute
  <2>3. Counts'
    BY <1>1, <1>2, <1>11 DEF Counts, Deciding, Unnamed, Execute
  <2>4. StringsKept' /\ Filled'
    BY <1>1, <1>2, <1>11 DEF StringsKept, Looped, Filled, Execute
  <2>5. Directory'
    BY <1>1, <1>2, <1>11 DEF Directory, NoWayBack, Execute
  <2>6. Ivars'
    <3>1. pc = "execute" /\ pc' = "restore" /\ tools \in Nat /\ IvarsMatch /\ UNCHANGED ivars
      BY <1>2, <1>11 DEF Execute, Counts, Ivars, Executed
    <3>2. CASE tools' = tools + 1 /\ failed' = FALSE
      BY <3>1, <3>2 DEF Ivars, IvarsMatch, Executed
    <3>3. CASE failed' = TRUE /\ UNCHANGED tools
      BY <3>1, <3>3 DEF Ivars, Executed, IvarsMatch
    <3> QED
      BY <3>2, <3>3, <1>11 DEF Execute
  <2> QED
    BY <2>1, <2>2, <2>3, <2>4, <2>5, <2>6, <1>3 DEF IInv
<1>12. CASE Restore
  <2>1. TypesOfCall' /\ TypesOfArguments' /\ TypesOfDirectories'
    BY <1>1, <1>2, <1>12 DEF TypesOfCall, Counts, Deciding, Unnamed, TypesOfArguments,
       TypesOfDirectories, Restore, ChDir
  <2>2. Counts'
    BY <1>1, <1>2, <1>12 DEF Counts, Deciding, Unnamed, Restore, ChDir
  <2>3. StringsKept' /\ Filled'
    BY <1>1, <1>2, <1>12 DEF StringsKept, Looped, Filled, Restore, ChDir
  <2>4. Directory'
    BY <1>1, <1>2, <1>12 DEF Directory, NoWayBack, Restore, ChDir
  <2>5. Ivars'
    BY <1>1, <1>2, <1>12 DEF Ivars, IvarsMatch, Executed, Restore, ChDir
  <2> QED
    BY <2>1, <2>2, <2>3, <2>4, <2>5, <1>3 DEF IInv
<1>13. CASE Free
  <2>1. TypesOfCall' /\ TypesOfArguments' /\ TypesOfDirectories'
    BY <1>1, <1>2, <1>13 DEF TypesOfCall, Counts, Deciding, Unnamed, TypesOfArguments,
       TypesOfDirectories, Free
  <2>2. Counts'
    BY <1>1, <1>2, <1>13 DEF Counts, Deciding, Unnamed, Free
  <2>3. StringsKept' /\ Filled'
    BY <1>1, <1>2, <1>13 DEF StringsKept, Looped, Filled, Free
  <2>4. Directory'
    BY <1>1, <1>2, <1>13 DEF Directory, NoWayBack, Free
  <2>5. Ivars'
    BY <1>1, <1>2, <1>13 DEF Ivars, IvarsMatch, Executed, Free
  <2> QED
    BY <2>1, <2>2, <2>3, <2>4, <2>5, <1>3 DEF IInv
<1>14. CASE Finish
  <2>1. TypesOfCall' /\ TypesOfArguments' /\ TypesOfDirectories'
    BY <1>1, <1>2, <1>14 DEF TypesOfCall, Counts, Deciding, Unnamed, TypesOfArguments,
       TypesOfDirectories, Finish
  <2>2. Counts'
    BY <1>1, <1>2, <1>14 DEF Counts, Deciding, Unnamed, Finish
  <2>3. StringsKept' /\ Filled'
    BY <1>1, <1>2, <1>14 DEF StringsKept, Looped, Filled, Finish
  <2>4. Directory'
    BY <1>1, <1>2, <1>14 DEF Directory, NoWayBack, Finish
  <2>5. Ivars'
    BY <1>1, <1>2, <1>14 DEF Ivars, IvarsMatch, Executed, Finish, TypesOfCall
  <2> QED
    BY <2>1, <2>2, <2>3, <2>4, <2>5, <1>3 DEF IInv
<1>15. ASSUME NEW d \in Directories, SetCurrentDirectoryPath(d) PROVE IInv'
  <2>1. TypesOfCall' /\ TypesOfArguments' /\ TypesOfDirectories'
    BY <1>1, <1>2, <1>15 DEF TypesOfCall, Counts, Deciding, Unnamed, TypesOfArguments,
       TypesOfDirectories, SetCurrentDirectoryPath
  <2>2. Counts'
    BY <1>1, <1>2, <1>15 DEF Counts, Deciding, Unnamed, SetCurrentDirectoryPath
  <2>3. StringsKept' /\ Filled'
    BY <1>1, <1>2, <1>15 DEF StringsKept, Looped, Filled, SetCurrentDirectoryPath
  <2>4. Directory'
    BY <1>1, <1>2, <1>15 DEF Directory, NoWayBack, SetCurrentDirectoryPath
  <2>5. Ivars'
    BY <1>1, <1>2, <1>15 DEF Ivars, IvarsMatch, Executed, SetCurrentDirectoryPath
  <2> QED
    BY <2>1, <2>2, <2>3, <2>4, <2>5, <1>3 DEF IInv
<1>16. ASSUME NEW d \in Directories, DirectoryGoes(d) PROVE IInv'
  <2>1. TypesOfCall' /\ TypesOfArguments' /\ TypesOfDirectories'
    BY <1>1, <1>2, <1>16 DEF TypesOfCall, Counts, Deciding, Unnamed, TypesOfArguments,
       TypesOfDirectories, DirectoryGoes
  <2>2. Counts'
    BY <1>1, <1>2, <1>16 DEF Counts, Deciding, Unnamed, DirectoryGoes
  <2>3. StringsKept' /\ Filled'
    BY <1>1, <1>2, <1>16 DEF StringsKept, Looped, Filled, DirectoryGoes
  <2>4. Directory'
    BY <1>1, <1>2, <1>16 DEF Directory, NoWayBack, DirectoryGoes
  <2>5. Ivars'
    BY <1>1, <1>2, <1>16 DEF Ivars, IvarsMatch, Executed, DirectoryGoes
  <2> QED
    BY <2>1, <2>2, <2>3, <2>4, <2>5, <1>3 DEF IInv
<1>17. CASE UNCHANGED vars
  <2>1. TypesOfCall' /\ TypesOfArguments' /\ TypesOfDirectories'
    BY <1>1, <1>2, <1>17 DEF TypesOfCall, Counts, Deciding, Unnamed, TypesOfArguments,
       TypesOfDirectories, vars
  <2>2. Counts'
    BY <1>1, <1>2, <1>17 DEF Counts, Deciding, Unnamed, vars
  <2>3. StringsKept' /\ Filled'
    BY <1>1, <1>2, <1>17 DEF StringsKept, Looped, Filled, vars
  <2>4. Directory'
    BY <1>1, <1>2, <1>17 DEF Directory, NoWayBack, vars
  <2>5. Ivars'
    BY <1>1, <1>2, <1>17 DEF Ivars, IvarsMatch, Executed, vars
  <2> QED
    BY <2>1, <2>2, <2>3, <2>4, <2>5, <1>3 DEF IInv
<1> QED
  BY <1>4, <1>5, <1>6, <1>7, <1>8, <1>9, <1>10, <1>11,
     <1>12, <1>13, <1>14, <1>15, <1>16, <1>17 DEF Next
-----------------------------------------------------------------------------
(* The invariant holds in every reachable state.                           *)
LEMMA Inductive == Spec => []IInv
<1> QED
  BY InitIInv, NextIInv, PTL DEF Spec

(* Every variable keeps its type: no string is written below its buffer or *)
(* outside the argument array, no count leaves its range.                  *)
THEOREM TypeCorrect == Spec => []TypeOK
<1>1. IInv => TypeOK
  BY DEF IInv
<1> QED
  BY <1>1, Inductive, PTL

(* -launch gives the process its directory back, unless it was gone or had *)
(* no name (lines 200-207).                                                *)
THEOREM DirectoryGivenBack == Spec => []DirectoryBorrowed
<1>1. IInv => DirectoryBorrowed
  BY DEF IInv, Directory, NoWayBack, DirectoryBorrowed
<1> QED
  BY <1>1, Inductive, PTL

(* A return from -launch leaves behind what LeaksAreKnown names and nothing*)
(* else: a reference if refused, a path buffer if not, a FILE for a tool   *)
(* (lines 183, 200, 204, 210-214, 223).                                    *)
THEOREM LeaksAccounted == Spec => []LeaksAreKnown
<1>1. IInv => LeaksAreKnown
  BY DEF IInv, TypeOK, Counts, Unnamed, StringsKept, Ivars, IvarsMatch, Executed, LeaksAreKnown
<1> QED
  BY <1>1, Inductive, PTL

(* Between two calls the ivars name the last tool there is (lines 217-227).*)
THEOREM LastToolNamed == Spec => []IvarsNameLastTool
<1>1. IInv => IvarsNameLastTool
  BY DEF IInv, Ivars, Executed, IvarsMatch, IvarsNameLastTool
<1> QED
  BY <1>1, Inductive, PTL

(* Only the execution makes a tool.                                        *)
LEMMA ToolsComeFromExecute ==
  ASSUME IInv, [Next]_vars, tools' # tools
  PROVE  pc = "execute"
<1> USE DEF leaks, local, world, ivars
<1> QED
  BY DEF Next, vars, SetArguments, Launch, CopyRights, BuildArgument, BuildEnds, GetCwd,
    ChangeDirectory, Execute, Restore, Free, Finish, SetCurrentDirectoryPath, DirectoryGoes

(* Every tool starts in the directory of its task, or that one is gone     *)
(* (lines 201, 204).                                                       *)
THEOREM StartsInDirectory == Spec => StartedInItsDirectory
<1>1. ASSUME IInv, [Next]_vars
      PROVE  [tools' # tools => directory = cwd \/ cwd \notin reachable]_vars
  <2>1. CASE tools' # tools
    BY <1>1, <2>1, ToolsComeFromExecute DEF IInv, Directory
  <2> QED
    BY <2>1
<1> QED
  BY <1>1, Inductive, PTL DEF Spec, StartedInItsDirectory

(* A string in the buffer of its length: whole in ASCII, within it always. *)
LEMMA WrittenFits ==
  ASSUME NEW s \in Strings
  PROVE  Written(s) \in 0..s.units /\ (s.bytes = s.units => Written(s) = s.bytes)
  BY LaunchAssumption DEF Written

(* A tool gets its arguments, if a short can count them (lines 189-196).   *)
THEOREM ArgumentsWhole == Spec => ArgumentsArrive
<1> DEFINE Arrive == tools' # tools /\ Len(arguments) <= ShortMax + 1 =>
             \A k \in 1..Len(arguments) :
               LET s == arguments[k] IN
               /\ s.bytes = s.units => args[k - 1] = s.bytes
               /\ args[k - 1] \in 0..s.units
<1>1. ASSUME IInv, [Next]_vars PROVE [Arrive]_vars
  <2>1. SUFFICES ASSUME tools' # tools, Len(arguments) <= ShortMax + 1,
                        NEW k \in 1..Len(arguments)
                 PROVE  /\ arguments[k].bytes = arguments[k].units =>
                             args[k - 1] = arguments[k].bytes
                        /\ args[k - 1] \in 0..arguments[k].units
    OBVIOUS
  <2>2. pc = "execute"
    BY <1>1, <2>1, ToolsComeFromExecute
  <2>3. /\ arguments \in Seq(Strings) /\ Len(arguments) <= MaxArguments
        /\ Len(arguments) \in Nat
    BY <1>1 DEF IInv, TypeOK
  <2>4. k - 1 \in Looped /\ (k - 1) + 1 = k
    BY <2>1, <2>3, LaunchAssumption DEF Looped, Slots
  <2>5. args[k - 1] = Written(arguments[k])
    BY <1>1, <2>2, <2>4 DEF IInv, Filled
  <2>6. arguments[k] \in Strings
    BY <2>1, <2>3
  <2> QED
    BY <2>5, <2>6, WrittenFits
<1> QED
  BY <1>1, Inductive, PTL DEF Spec, ArgumentsArrive

(* Both: what the ivars of a task ask for is what its tool gets.           *)
THEOREM StartsAsAsked == Spec => StartedAsAsked
  BY StartsInDirectory, ArgumentsWhole DEF StartedAsAsked
-----------------------------------------------------------------------------
(* The ivars change in the step that returns from a launch that went well. *)
LEMMA IvarsComeFromFinish ==
  ASSUME [Next]_vars
  PROVE  (Finish /\ ~failed) \/ UNCHANGED <<isRunning, pid, checkStatusTimer>>
<1> USE DEF leaks, local, world, ivars
<1> QED
  BY DEF Next, vars, SetArguments, Launch, CopyRights, BuildArgument, BuildEnds, GetCwd,
    ChangeDirectory, Execute, Restore, Free, Finish, SetCurrentDirectoryPath, DirectoryGoes

(* That step forks the next child of the task, as PrivilegedTask has it.   *)
LEMMA FinishForks ==
  ASSUME IInv, IInv', Finish, ~failed
  PROVE  Task!Next
<1>1. /\ pc = "finish" /\ isRunning' = TRUE /\ pid' = tools /\ checkStatusTimer' = tools
      /\ tools = pid + 1 /\ checkStatusTimer = pid
      /\ pid \in Nat /\ tools \in 1..MaxLaunches /\ MaxLaunches \in Nat
  BY LaunchAssumption DEF Finish, IInv, TypeOK, Ivars, Executed
<1> DEFINE
  Child(n) == [c \in 1..MaxLaunches |-> IF c <= n THEN "running" ELSE "unused"]
  Target(n) == [c \in 1..MaxLaunches |-> IF c <= n THEN "task" ELSE "none"]
  Timer(n) == [c \in 1..MaxLaunches |-> IF c <= n THEN "valid" ELSE "none"]
  Pid(n) == [t \in {"task"} |-> n]
<1>2. /\ Child(tools) = [Child(pid) EXCEPT ![tools] = "running"]
      /\ Target(tools) = [Target(pid) EXCEPT ![tools] = "task"]
      /\ Timer(tools) = [Timer(pid) EXCEPT ![tools] = "valid"]
      /\ Child(pid)[tools] = "unused"
  <2>1. \A c \in 1..MaxLaunches : c <= tools <=> c <= pid \/ c = tools
    BY <1>1
  <2>2. ~(tools <= pid)
    BY <1>1
  <2> QED
    BY <1>1, <2>1, <2>2, Zenon
<1>3. Pid(tools) = [Pid(pid) EXCEPT !["task"] = tools]
  OBVIOUS
<1>4. [t \in {"task"} |-> TRUE] = [[t \in {"task"} |-> isRunning] EXCEPT !["task"] = TRUE]
  OBVIOUS
<1>5. /\ Child(pid') = Child(tools) /\ Target(pid') = Target(tools)
      /\ Timer(checkStatusTimer') = Timer(tools) /\ Timer(checkStatusTimer) = Timer(pid)
      /\ Pid(pid') = Pid(tools) /\ tools \in 1..MaxLaunches
  BY <1>1
<1>6. \E c \in 1..MaxLaunches :
        /\ Child(pid)[c] = "unused"
        /\ Child(pid') = [Child(pid) EXCEPT ![c] = "running"]
        /\ Target(pid') = [Target(pid) EXCEPT ![c] = "task"]
        /\ Timer(checkStatusTimer') = [Timer(checkStatusTimer) EXCEPT ![c] = "valid"]
        /\ Pid(pid') = [Pid(pid) EXCEPT !["task"] = c]
  <2> HIDE DEF Child, Target, Timer, Pid
  <2> QED
    BY <1>2, <1>3, <1>5
<1>7. [t \in {"task"} |-> isRunning'] = [[t \in {"task"} |-> isRunning] EXCEPT !["task"] = TRUE]
  BY <1>1, <1>4, Zenon
<1>8. Task!Fork("task")
  BY <1>6, <1>7, Zenon DEF Task!Fork, Launched
<1>9. Task!ClientRuns("task")
  BY DEF Task!ClientRuns
<1> QED
  BY <1>8, <1>9 DEF Task!Next, Task!Launch

(* All of -launch is the one step of PrivilegedTask, or none: the fork and *)
(* the assignments stand or fall together, at every call (lines 156-230).  *)
THEOREM LaunchIsAtomic == Spec => LaunchIsOneStep
<1>1. Init => Task!Init
  <2>1. \A c \in 1..MaxLaunches : ~(c <= 0)
    OBVIOUS
  <2> QED
    BY <2>1, Zenon DEF Init, Task!Init, Launched
<1>2. ASSUME IInv, IInv', [Next]_vars
      PROVE  [Task!Next]_(Task!vars)
  <2>1. CASE Finish /\ ~failed
    BY <1>2, <2>1, FinishForks
  <2>2. CASE UNCHANGED <<isRunning, pid, checkStatusTimer>>
    BY <2>2 DEF Task!vars, Task!taskVars, Task!kernelVars, Launched
  <2> QED
    BY <1>2, <2>1, <2>2, IvarsComeFromFinish
<1> QED
  BY <1>1, <1>2, Inductive, PTL DEF Spec, LaunchIsOneStep
-----------------------------------------------------------------------------
(* How far a call is from its return. The loop of lines 189-197 has a turn *)
(* left for each argument, as many as a short can count, and none once i   *)
(* has wrapped.                                                            *)
Busy == pc \notin {"idle", "copyRights"}

Turns == IF Len(arguments) <= ShortMax THEN Len(arguments) ELSE ShortMax + 1

TurnsLeft == IF InLoop(i) THEN Turns - i ELSE 0

StepsLeft ==
  CASE pc = "build" -> TurnsLeft + 7
    [] pc = "getcwd" -> 6
    [] pc = "chdir" -> 5
    [] pc = "execute" -> 4
    [] pc = "restore" -> 3
    [] pc = "free" -> 2
    [] pc = "finish" -> 1
    [] OTHER -> 0

LEMMA TurnsLeftType ==
  ASSUME TypeOK
  PROVE  /\ Turns \in Nat /\ Turns <= MaxArguments
         /\ TurnsLeft \in 0..MaxArguments
         /\ i = 0 => TurnsLeft = Turns
<1>1. /\ Len(arguments) \in Nat /\ Len(arguments) <= MaxArguments
      /\ i \in Int /\ i <= ShortMax /\ ShortMax \in Nat /\ MaxArguments \in Nat
  <2>1. arguments \in Seq(Strings) /\ Len(arguments) <= MaxArguments
        /\ i \in (-ShortMax - 1)..ShortMax
    BY TypeParts DEF TypesOfArguments
  <2> QED
    BY <2>1, LaunchAssumption
<1> QED
  BY <1>1 DEF Turns, TurnsLeft, InLoop

(* A turn of the loop, the one included after which i wraps.               *)
LEMMA TurnTaken ==
  ASSUME TypeOK, BuildArgument
  PROVE  TurnsLeft' = TurnsLeft - 1
<1>1. /\ Len(arguments) \in Nat /\ i \in Int /\ i <= ShortMax /\ ShortMax \in Nat
      /\ 0 <= i /\ i < Len(arguments)
      /\ i' = IF i = ShortMax THEN -ShortMax - 1 ELSE i + 1
      /\ arguments' = arguments
  <2>1. arguments \in Seq(Strings) /\ i \in (-ShortMax - 1)..ShortMax
    BY TypeParts DEF TypesOfArguments
  <2> QED
    BY <2>1, LaunchAssumption DEF BuildArgument, InLoop, Incremented
<1>2. Turns' = Turns
  BY <1>1 DEF Turns
<1>3. CASE i = ShortMax
  <2>1. Turns = ShortMax + 1 /\ TurnsLeft = 1
    BY <1>1, <1>3 DEF Turns, TurnsLeft, InLoop
  <2>2. ~(0 <= i')
    BY <1>1, <1>3
  <2>3. TurnsLeft' = 0
    BY <2>2 DEF TurnsLeft, InLoop
  <2> QED
    BY <2>1, <2>3
<1>4. CASE i # ShortMax
  BY <1>1, <1>2, <1>4 DEF Turns, TurnsLeft, InLoop
<1> QED
  BY <1>3, <1>4

(* Every step of the thread brings the return nearer by one, no other step *)
(* takes it away, and a call that the user lets through begins with as many*)
(* steps as it has arguments to copy, and seven.                           *)
LEMMA StepCounted ==
  ASSUME IInv, [Next]_vars
  PROVE  /\ RunsOn => StepsLeft' = StepsLeft - 1
         /\ Busy /\ ~RunsOn => UNCHANGED <<pc, StepsLeft>>
         /\ CopyRights => StepsLeft' \in {0, Turns + 7}
<1> USE DEF leaks, local, world, ivars
<1>t. TypeOK /\ TurnsLeft \in Nat
  BY TurnsLeftType, LaunchAssumption DEF IInv
<1>1. ASSUME RunsOn PROVE StepsLeft' = StepsLeft - 1
  <2>1. CASE BuildArgument
    <3>1. pc = "build" /\ pc' = "build"
      BY <2>1 DEF BuildArgument
    <3> QED
      BY <1>t, <2>1, <3>1, TurnTaken DEF StepsLeft
  <2>2. CASE BuildEnds
    <3>1. pc = "build" /\ pc' = "getcwd" /\ TurnsLeft = 0
      BY <2>2 DEF BuildEnds, TurnsLeft
    <3> QED
      BY <3>1 DEF StepsLeft
  <2>3. CASE GetCwd \/ ChangeDirectory \/ Execute
    <3>1. \/ pc = "getcwd" /\ pc' = "chdir"
          \/ pc = "chdir" /\ pc' = "execute"
          \/ pc = "execute" /\ pc' = "restore"
      BY <2>3 DEF GetCwd, ChangeDirectory, Execute
    <3> QED
      BY <3>1 DEF StepsLeft
  <2>4. CASE Restore \/ Free \/ Finish
    <3>1. \/ pc = "restore" /\ pc' = "free"
          \/ pc = "free" /\ pc' = "finish"
          \/ pc = "finish" /\ pc' = "idle"
      BY <2>4 DEF Restore, Free, Finish
    <3> QED
      BY <3>1 DEF StepsLeft
  <2> QED
    BY <1>1, <2>1, <2>2, <2>3, <2>4 DEF RunsOn
<1>2. ASSUME Busy, ~RunsOn PROVE UNCHANGED <<pc, StepsLeft>>
  <2>1. UNCHANGED <<pc, i, arguments>>
    BY <1>2 DEF RunsOn, Busy, Next, vars, SetArguments, Launch, CopyRights,
      SetCurrentDirectoryPath, DirectoryGoes
  <2> QED
    BY <2>1 DEF StepsLeft, TurnsLeft, Turns, InLoop
<1>3. ASSUME CopyRights PROVE StepsLeft' \in {0, Turns + 7}
  <2>1. i = 0 /\ UNCHANGED <<i, arguments>> /\ pc' \in {"build", "idle"}
    BY <1>3 DEF CopyRights, IInv, Filled
  <2>2. TurnsLeft' = Turns
    BY <1>t, <2>1, TurnsLeftType DEF TurnsLeft, Turns, InLoop
  <2> QED
    BY <2>1, <2>2 DEF StepsLeft
<1> QED
  BY <1>1, <1>2, <1>3

(* A call that the user has let through is a bounded number of steps from  *)
(* its return, comes one nearer with each, and is never thrown back: no    *)
(* count of arguments makes the loop of a short run on (lines 189-211).    *)
THEOREM LaunchRunsDown ==
  Spec => /\ [](StepsLeft \in 0..(MaxArguments + 7) /\ (Busy <=> StepsLeft > 0))
          /\ [][/\ RunsOn => StepsLeft' = StepsLeft - 1
                /\ Busy /\ ~RunsOn => UNCHANGED <<pc, StepsLeft>>
                /\ CopyRights => StepsLeft' \in {0, Turns + 7}]_vars
<1>1. IInv => StepsLeft \in 0..(MaxArguments + 7) /\ (Busy <=> StepsLeft > 0)
  <2> SUFFICES ASSUME IInv
               PROVE  StepsLeft \in 0..(MaxArguments + 7) /\ (Busy <=> StepsLeft > 0)
    OBVIOUS
  <2>1. TypeOK /\ TurnsLeft \in 0..MaxArguments /\ MaxArguments \in Nat
    BY TurnsLeftType, LaunchAssumption DEF IInv
  <2>2. pc \in {"idle", "copyRights", "build", "getcwd", "chdir", "execute", "restore",
                "free", "finish"}
    BY <2>1, TypeParts DEF TypesOfCall
  <2> QED
    BY <2>1, <2>2 DEF StepsLeft, Busy
<1>2. IInv /\ [Next]_vars =>
        [/\ RunsOn => StepsLeft' = StepsLeft - 1
         /\ Busy /\ ~RunsOn => UNCHANGED <<pc, StepsLeft>>
         /\ CopyRights => StepsLeft' \in {0, Turns + 7}]_vars
  BY StepCounted
<1> QED
  BY <1>1, <1>2, Inductive, PTL DEF Spec
=============================================================================
