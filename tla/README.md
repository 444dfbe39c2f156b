# A specification of ATV2 Utils

ATV2 Utils is a plug-in (`.frappliance`) for the second generation Apple TV. The
host application `AppleTV.app` loads it; it adds a category to the main menu with
lists about the software, hardware, network, memory and log of the device, and a
list of rows that restart or halt it. Beside the lists it carries classes for
running tools as root, for watching the network, and for forcing a cellular
connection.

The directory holds TLA+ modules that model these parts, TLC configurations that
check them on small instances, and proofs, checked by TLAPS, of what matters
most for instances of every size. Paths below are relative to
`src/Utilities/helloWorld/Classes/` unless they start with `src/`.

## 1. The system

### Components

| Component | Source | State it keeps | Operations | Module |
|---|---|---|---|---|
| Privileged tasks | `STPrivilegedTask.m` | `isRunning`, `pid`, `terminationStatus`, a polling timer, an output handle | launch, wait, poll, notify, release, read the output | `PrivilegedTask`, `TaskPromise`, `TaskOutput`, `TaskLaunch` |
| Cellular connection | `src/Utilities/Apple Sample Code/wwanconnect.c`, end of `UIDevice-Reachability.m` | a block per connection, the global `myInfoPtr`, nested run loops | force, shut down, stream events | `WWANConnect`, `WWANPromise` |
| Reachability | `UIDevice-Reachability.m` 239-376 | the global object and flags, the callback and its watcher | check, watch, stop watching, be called back | `Reachability`, `WatchPromise` |
| Memory menu | `MemoryMainMenu.m` | rows, dividers, accessories | build, draw, select | `MemoryMenu` |
| Appliance, navigation, the other menus | `ATV2Appliance.mm`, `HardwareMainMenu.m`, `NetworkMainMenu.m`, `SoftwareMainMenu.m`, `PowerMainMenu.m`, `LogMainMenu.m` | the host's stack of controllers, the handlers that have not returned, the processes they started | open a category, select a row, Menu button | `Appliance` |
| Addresses and host names | `UIDevice-Reachability.m` 38-199, `NetworkMainMenu.m` 83-198, `HardwareMainMenu.m` 82-132, `UIDevice-Hardware.m` 580-674 | none beyond the lists and buffers under way | walks over the interfaces, hardware addresses, fetches | `NetworkRows`; the time they take, in `Appliance` |
| Disk, file and log readings | `UIDevice-Hardware.m` | none | ask and format | only the size of the syslog, in `MemoryMenu` |
| Kernel readings, uptime | `UIDevice-KERN.m`, `UIDevice-Uptime.m` | none | ask and format | no |
| Bluetooth manager | `BTstack/` | a state that never changes | all commented out | no |
| Top shelf, Logos variants, headers, project | `TopShelfController.m`, `*.xm`, `src/Utilities/include`, ... | none | | no |

### How they interact

Everything runs on one thread, the run loop of `AppleTV.app`. That does not make
it sequential. Control leaves a method half way in four places, and each of them
is where the interesting interleavings are:

1. **A notification or callback runs client code inside the method.**
   `-_checkTaskStatus` posts its notification before it invalidates its timer
   (`STPrivilegedTask.m:258`), and the observer may launch the task again.
2. **A method runs the run loop itself.** `StartWWAN` calls `CFRunLoopRun`
   (`wwanconnect.c:192`), and `-[NSTask waitUntilExit]`
   (`LogMainMenu.m:210`, `230`) does the same: the remote is served, menus are
   left and opened, and further handlers start inside the first.
3. **A method holds the thread.** `waitpid` in `-waitUntilExit`
   (`STPrivilegedTask.m:244`), `system()`, `-readDataToEndOfFile`
   (`PowerMainMenu.m:147`) and the fetches of the network menu
   (`NetworkMainMenu.m:194-197`): only other processes make progress. They do:
   a tool fills its pipe while the one thread that could read it waits for the
   tool, and addresses change between two rows of the same menu.
4. **Other processes act at any time**: children exit, `killall` ends the host
   and launchd restarts it, `syslogd` writes the file whose size is being read,
   and the network comes and goes between two questions about it.

The classes are joined less than their number suggests: no menu uses
`STPrivilegedTask` or `wwanconnect.c`, and the menus ask reachability only
whether the network is available. What they share is the thread and the
processes, and this is what `Appliance` composes: navigation, every menu's
handler, the commands they run and the life of the host. The memory menu occurs
twice, in detail in `MemoryMenu` and as a list with one effective row in
`Appliance`.

### What makes each component correct

* *Privileged tasks*: whichever of timer and wait sees the end of the child, the
  task reports it once, with its own child's status; a task that says it runs is
  polled; nothing is polled for ever; no freed timer is messaged.
* *Cellular connection*: callbacks point to live blocks, a call in progress keeps
  its block unless the client shuts a connection down twice, results are true,
  and the nested loop ends.
* *Reachability*: the global is retained, forgotten objects keep no callback,
  watchers that take turns are not messaged after they are gone and do hear of
  changes.
* *Memory menu*: text, divider and arrow are decided by separate reads of a file
  that others write, and agree unless the file really crossed the limit.
* *Addresses*: each row answers for the list of interfaces it was given, the rows
  of one menu agree if nothing moved while they were read one after another, and
  of what is allocated on the way only what the code never frees stays behind.
* *Appliance*: under any nesting of handlers none starts under one that holds the
  thread, no menu is opened under a fetch that will push its own, waits return
  and the remote is served again.

`PROJECT.json` lists the hazards line by line with the properties that cover
them, and for those not covered the reason.

## 2. Modules and how they correspond to the code

Each module states in comments which lines an action stands for; the `map` of
`PROJECT.json` gives the lines of every definition. In all modules an action is
a whole handler, cut only where the code gives the thread away. Definitions
whose comment begins with "Slip" are not part of any specification: each is the
neighbouring definition with a plausible mistake, used to confirm that the
properties notice it.

### `PrivilegedTask`

One variable per ivar (`isRunning`, `pid`, `terminationStatus`), the kernel's
view of the children, the run loop's view of the timers, and where the thread
is: inside a notification (`handler`) or inside a wait (`waiting`). A launch
forks one child, stores one pid and schedules one timer; the three share an
identity, a member of `Children`.

`Launch`, `LaunchedPrivilegedTask`, `WaitUntilExit` and `Release` are the
client's calls. `WaitReturns` is the return of the blocking `waitpid`.
`CheckTaskStatus` is a fired timer up to the notification, `InvalidateTimer` the
rest of the same method after the observers returned; between the two the client
may do anything. `Reap` and `NoSuchChild` are the outcomes of `waitpid`;
`Awaited` keeps the meaning of a first argument of 0, every child of the
program, which is what the pid of a task that never launched is.

A message to a freed timer is undefined behaviour: it crashes or does nothing.

`WaitUnlaunched` and `RelaunchEarly` say what clients do. The code forbids
neither; the properties that need a discipline are checked and proved under it
and are false without (the comments say which lines break them).

`TaskPromise` is the abstract specification: a job runs, exits, and is then, in
the end, reported with its own result; its liveness is a leads-to
(`Reported`), because a promise says what comes and not which step is fair.
`KeepsPromise` states that `PrivilegedTask`
implements it, by a mapping that reads the job's state off `isRunning`, `pid`
and the kernel.

The tool's output is in `TaskOutput`, and what `-launch` does inside in
`TaskLaunch`.

### `TaskOutput`

`PrivilegedTask` with the pipe of `AuthorizationExecuteWithPrivileges`: what each
tool has yet to write, what its pipe holds, and the descriptor of the program's
end. It extends the module and its actions are conjunctions: a launch also opens
a pipe (`PipeOpens`), a step that may take the last reference of a task also
closes the descriptors its handle owns (`HandlesClose`). An overwritten
`outputFileHandle` is owned by nobody, so its descriptor stays open for good. A
tool that finds its pipe full waits (`WriteOutput` is disabled), and one that
still has to write does not exit (`ToolExits`), except by SIGPIPE.
`DescriptorsKnown` says what has become of every descriptor: closed with the
task that reads from it and never before, or lost with an overwritten handle.

### `TaskLaunch`

The inside of `-launch`, which the other two modules take as one step: `pc` is
the statement, `args` and `allocated` the argument array, `directory` the
working directory of the process. `DirectoryGoes` lets other processes remove a
directory between any two statements; `getcwd` and `chdir` fail accordingly, and
as in the code nobody looks. A string is two numbers: its UTF-16 units, by which
line 194 sizes the buffer, and the bytes of the file system representation that
line 195 writes into it. The loop's `short` wraps at `ShortMax`; compared with
an unsigned count a negative one ends the loop. `authRefs`, `paths` and
`streams` count what the method creates and does not give back: the reference of
a refused authorization, the buffer that `getcwd(nil, 0)` allocates on line 200,
and the `FILE` of a tool, of which `-dealloc` closes only the descriptor.

`LaunchIsOneStep` ties it to `PrivilegedTask`: with the ivars mapped to a single
task whose tools run on, `Finish` after a successful execution is `Launch`, and
every other statement is a stutter.

### `WWANConnect`

One record of fields per block (`memory`, `isConnected`, `errorOccurred`,
`isClientSet`, `stream`, and `value`, whether the local variable that its refCon
points to still exists), the global `myInfoPtr`, and `frames`, the activations
of `CFRunLoopRun` in progress, innermost last. `CFRunLoopStop` ends the
innermost, whose ever it is; with no frame it stops the application's own loop
(`outerStopped`). A block is free or live, and `Allocate` may hand out any free
one, that which the global still names after `-shutdownWWAN` included; what a
call finds in a block that was freed under it is open. `ForceWWAN` is `StartWWAN` up to its loop, `StartReturns` what
follows it; `OpenCompleted`, `ErrorOccurred` and `EndEncountered` are the cases
of the stream callback; an open also walks the interfaces (`TestGetIFAddrs`),
may crash there (`WalkCrashes`) and leaves the list allocated (`listLeft`). The failure paths release references they have just set
to NULL, and are modelled as the crash that is. The client calls in any order,
also from inside a call; the history variable `careless` records that it has
called inside a call, forced a second connection, or shut down one it does not
hold, and the properties that need a careful client are conditions on it. One
needs less: `StartKeepsBlock` holds for every client that does not shut down
twice (`shutTwice`), and is false for others, because the block that the second
`-shutdownWWAN` frees may by then be that of a call in progress.

`WWANPromise` is what is left without blocks, streams and loops: one connection,
idle, being forced or held, and what is forced leads to held. `KeepsConnection`
states that `WWANConnect`
implements it until the client is careless or the program crashed.

### `Reachability`

The globals `reachability` and `connectionFlags`, and per object the references
this file holds, the watcher in its callback, how often it is scheduled, and
whether its source is signalled. `Ping` is `-pingReachabilityInternal`, part of
every other operation as in the code, with the failing retrieval that leaves old
flags. The watcher is not retained by the callback (`alive`). A change signals
all scheduled objects and is served later by `Callback`. Watchers come in any
order; the history variable `overlapped` records that one has started while
another watched, and `wasAvailable` that the network has been available.

`WatchPromise` is one watcher at a time that is told of a change, in the end, or
stops;
`KeepsWatch` states that `Reachability` implements it until watchers overlap or
the program crashed.

### `MemoryMenu`

`-init` reads the network once and the size of the syslog three times (row text,
notice, usage divider), and `-itemForRow:` reads it again at every drawing. Each
read is a step, with `SyslogGrows`, `SyslogRotates` and `NetworkChanges` between
any two. Rows have names, dividers are kept per index, and `crossed` records
whether the file went over the limit in either direction since `-init` began:
without it nothing could be promised.

### `Appliance`

`stack` is the host's stack of controllers over the main menu, each with its
rows; `calls` the handlers that have not returned, innermost last, each of a
kind: `wait` runs the run loop, `block` and `fetch` hold the thread; `child`
what each started process is about to do; `host` and `device` whether they are
up.

`ListOf` is what each `-init` puts into `_names` (a row is the number of its
picture in the source's comments), with the brace-less `if` of the hardware and
memory menus that makes the list one row shorter offline. `HardwareEffect`,
`SoftwareEffect`, `MemoryEffect`, `PowerEffect` and `LogEffect` are the
`-itemSelected:` methods: which rows run a command to its end, wait in a run
loop, start a task, raise, reboot, halt, kill the host, or open the log menu.
`RowBlocks`, `RowWaits`, `RowLaunches`, `RowRaises`, `RowLaunchesThenRaises`,
`RowReboots` and `RowOpensLog` are the effects. `MenuButton` is every menu's
`-brEventAction:`; it also pops a controller whose own handler is waiting.
`InterfacesCrash` is an `-init` that meets an interface without an address
(`NetworkRows` has the walk). `FetchReturns` pushes the network menu over
whatever is open when the answers are there.
`CallReturns` lets only the innermost call return, so that an outer wait whose
process is long gone stays open under the inner ones; a process that ended and
that no call waits for is collected by `ChildCollected`. `HostStarts` is launchd.

### `NetworkRows`

The rows of the network menu that ask about interfaces, in the order of `-init`:
`step` is the reading under way, `at` the place in it. A walk copies the list of
the kernel (`GetIfAddrs`, which may fail), goes over its copy entry by entry
(`WalkOn`) and answers (`WalkEnds`, or `WalkHits` from inside the loop);
`InterfacesChange` may come between any two steps. `Picks` and `Stored` say which
entries each of the five loops stores and what it reads of them: an `AF_INET6`
address is read as a `sockaddr_in` and gives 0.0.0.0. An entry without an
address ends the host (`WalkCrashes`). The hardware addresses are three system
calls (`MacIndex`, `MacSize`, `MacFill`) between which the interface may go; the
buffer is then read as `malloc` left it. `ReadNames` reads the two property lists
of lines 137 to 148 into dictionaries that nobody releases. `HardwareEnds` is the
hardware menu, which makes the same two walks and asks no more. `held` is what
has been allocated since the menu was opened and nobody has freed. The walks of lines 83 to 133 and of
`-whatismyipdotcom2`, `-getIPAddress` and `-localWiFiIPAddress` are five loops in
the source and one action here. `Appliance` keeps the time that opening the menu
takes as one call that holds the thread.

External assumptions, taken from how the code uses them: an exception no handler
of the plug-in catches ends the host; launchd restarts it; `halt` and `reboot`
take effect or are refused for lack of privilege; `killall -9 AppleTV` works
("Deze werkt", `PowerMainMenu.m:251`); `-waitUntilExit` turns the run loop in a
mode in which the remote is served.

## 3. What is checked

| Run | Instance | Shows | States |
|---|---|---|---|
| `task_output` | 2 tasks, 2 children, undisciplined clients, tools that write up to 2 into pipes of 1 | a running task is polled, no tool's pipe is broken, each descriptor is closed with its task and not before, only a tool that filled its pipe keeps a wait for ever, descriptors come back but for a relaunch | 69,304 |
| `task_careful` | 2 tasks, 3 children, both disciplines | no orphan timer, one notification, every exit notified, released tasks freed, implements `TaskPromise` (and so reports its own child's status); nothing that fairness speaks of is blocked (`NothingBlocks`) | 21,616 |
| `task_steals` | expected violation | a wait on a task that never launched takes another's child | |
| `task_launch` | 3 directories, 0-3 arguments of 2 kinds, `ShortMax` 1, 2 launches | the working directory is given back, what is never given back is one reference for each refusal, at most one path for each launch that was not refused, and one `FILE` for each tool, tools start in their directory with their arguments (`StartedAsAsked`), the method returns, all of it is one step of `PrivilegedTask` or none | 195,912 |
| `wwan` | 3 blocks that are used again, calls nested 2 deep, any client | live callbacks; blocks of calls in progress kept unless the client shuts down twice; until the client is careless: no dead frame read, outer loop safe, implements `WWANPromise` (true results, nothing lost, calls return); no call is left without a step (`ForcingGoesOn`) | 2,137,315 |
| `wwan_null` | expected violation | an unsuccessful connection crashes before NULL is returned | |
| `reach` | 3 objects, 2 watchers in any order | no callback on a forgotten object, no invented network; until watchers overlap: no message to the dead, implements `WatchPromise` (a change is told, or the watcher stops); a signalled object can be served (`NewsIsDue`) | 212,312 |
| `menu` | limit 2, sizes 0-3 | text, divider and arrow agree; the sections fit the rows | 3,320 |
| `menu_race` | expected violation | two dividers, or none, when the file changes between two reads | |
| `menu_offline` | expected violation | offline the log menu opens from the wrong row | |
| `appliance` | 3 processes | no menu is opened under a fetch that pushes its own (`LogOverMemory`), waits return, the remote is served again; what holds the thread can end (`RemoteCanReturn`) | 7,598 |
| `network_rows` | 7 kinds of entries, lists of 0-2 that change once | each row fits its list, rows agree when nothing moved, only what the code never frees stays allocated, opening ends | 945,949 |

Each run asks one question of its instance. Properties that a theorem of
section 4 proves for every instance, or that a refinement checked in the run
implies, are not asked again: `OwnStatus`, `FinishedMeansReaped`,
`WaitsForOwnTask`, `StuckForGood`, `IvarsNameLastTool`, `ConnectedWasOpened`,
`ResultMeansConnected`, `NothingLost`, `CurrentIsRetained`, `OnlineLogRow`,
`BlockedIsInnermost`, and the type invariants of all modules but
`NetworkRows`. They stand in the modules with their
theorems. `WaitsForOwnTask` is also the property `task_steals` violates, for
clients that do what its theorem excludes.

### The four violations

* `task_steals`: `STPrivilegedTask.m:241` says `-waitUntilExit` hangs "until task
  is done"; with pid 0 `waitpid` hangs until any child is done, and takes it.
* `wwan_null`: `wwanconnect.h:53` promises NULL for an unsuccessful connection;
  the error path calls `CFRelease` on references it has just nulled.
* `menu_race`: the comments of `MemoryMainMenu.m:124` and `129` describe one
  divider or the other; the size is asked twice.
* `menu_offline`: `MemoryMainMenu.m:186` and `256` call row 8 the log's; offline
  the first row is missing and row 8 is that of the cached rentals.

### Why the bounds are enough

* *Tasks*: two tasks are needed for one to take another's child, and three
  children for a task to be relaunched while a second task runs. Where the pipe
  is added two children do: a relaunch of one task, or a task beside another. A
  pipe of 1 and an output of 2 is the smallest tool that has to wait. `Statuses` has
  0, which an unset ivar also holds, and one that cannot be mistaken for it.
  `MaxPosts = 2` tells once from more than once.
* *Launch*: with `ShortMax = 1` the third argument is the one the counter cannot
  reach; two launches show what the first leaves for the second. Three
  directories are the host's, the task's and another.
* *Blocks*: two calls of `StartWWAN` may be nested, and the third block is a
  connection made before, held or lost, or a block that is free to be handed out
  again. The theorems have no bound on either.
* *Reachability*: an object is forgotten at each stop; three objects give a
  watch, a forgotten one and a third. Two watchers overlap or take turns;
  `MaxScheduled = 2` has both scheduled on one object.
* *Memory menu*: sizes 0 to 3 around a limit of 2 give an empty file, one below,
  the limit itself and one above it.
* *Network rows*: two entries are what first and last differ by; the kinds are an
  IPv4 address of each interface, a second address of `en1` and of `en0`
  (IPv6), a link entry, a cellular one and one without an address. One change is
  enough for a row to be read before and another after it; the theorems have no
  bound on either.
* *Appliance*: three processes give a wait inside a wait and a launched process
  beside both. The rows are those of the program.

Deadlock is not checked where the system may stop: children are used
up, clients release everything, the program has crashed. It is checked in the
runs of `MemoryMenu`, `Appliance` and `NetworkRows`, where the environment never
ends.

### Fairness

Clients, users, peers and the network owe nothing; fairness is on what runs by
itself. Each module has it in operators of their own, one for each task, child,
block or object (`ChildFairness(c)`, `OpenFairness(i)`, `CallbackFairness(r)`,
...), so that a proof about one of them takes only what that one is owed.

* A tool that was started exits, and code that was started runs on
  (`WF ChildExits`, `WaitReturns`, `StartReturns`, `FetchReturns`). A fetch is
  bounded by the URL loader's time-out, an opening stream by TCP's
  (`OpenEnds`: `WF OpenCompleted or ErrorOccurred`).
* The run loop fires a due timer on one of its next passes, however busy the
  client keeps the thread between them: `SF CheckTaskStatus`, and for the second
  half of the same method `SF InvalidateTimer`.
* With the pipe a tool writes on while there is room and exits when it has
  written everything (`WF WriteOutput`, `ToolExits`). Nobody has to read.
* Inside `-launch` and the readings of the network menu, code that runs on its
  own runs on (`WF RunsOn`); nothing is assumed of the user in the authorization
  dialog, of other processes or of the interfaces.
* The run loop serves a signalled source: `WF Callback`.
* `-waitUntilExit` tests its process before every further turn of the run loop,
  so a call that is innermost again and again with its process gone returns:
  `SF CallReturns`. Weak fairness would not do, because the user can start
  another wait inside it each time.
* launchd restarts the host: `WF HostStarts`.

## 4. What is proved

All theorems hold for every value of the constants under the named assumptions
of the modules: the null values are not members of the sets, 0 is a status,
bounds are natural numbers. No theorem assumes that a set is finite.

`PrivilegedTaskProofs`
: `TypeCorrect`, `AlwaysMonitored`, `FinishedIsReaped` for every client;
  `ReportsOwnStatus` and `WaitsForOwn` for clients that do not wait on unlaunched
  tasks; `TimersStop` and `PostsOnce` for clients that relaunch only after the
  timer stopped; for clients of both disciplines `ImplementsPromise`, the safety
  half of the refinement, and `EveryExitNotified`, `ReleasedAreFreed` and
  `ImplementsWholePromise`, its liveness. The invariants are not inductive alone. `Links`
  ties child, pid and timer to their task; `InHandler` says that inside a
  notification the timer is still valid and its task not running unless it was
  launched again. With these, what the second invalidate hits can be decided.
  `OwnChild` adds that only its own task collects a child, and `OneTimer` that a
  disciplined task has at most the timer its ivar names. The liveness proofs go
  along the life of one timer: its child exits, a wait that holds the thread
  ends, the poll notices, the handler invalidates; strong fairness is used where
  the client may take the thread again and again in between.

`TaskOutputProofs`
: `ImplementsPrivilegedTask`: every step with the pipe is one without, so that
  the theorems above hold of `TaskOutput` as well, and `OutputKeepsPromise` is
  what they give a disciplined client there: a full pipe may put a report off,
  but makes none early, twice or with another status.
  `PipesTyped` and `OTypeCorrect`, the types of both modules; `PipesStayOpen`,
  because a running child is that of a task whose timer retains it (from
  `Links` of the module above) or of a handle nobody owns any more; `StuckStays`.
  `DescriptorsAccounted` rests on `OwnerIsTarget`, also from `Links`: what a
  handle reads from is the tool its task launched last, so that a step which
  deallocates one task closes that descriptor and no other; and a launch is a
  message to a task somebody holds, so that what it opens is not closed yet.
  `FreedTaskReturnsAll` follows for a task that was launched once; that only
  finitely many tools have been launched so far (`LaunchedFinite`) is proved and
  not assumed. `WaitRunsDown`: while a wait holds the thread no tool is started,
  read, or given more to write, and every step but the return brings one nearer
  to its end.

`TaskLaunchProofs`
: `TypeCorrect`, `DirectoryGivenBack`, `LeaksAccounted`, `LastToolNamed`,
  `StartsInDirectory`, `ArgumentsWhole` (together `StartsAsAsked`) for any
  number of arguments, launches and directories and any width of the counter. The
  invariant counts the references, paths and `FILE`s statement by statement (`Counts`), ties the strings in use to the loop
  variable (`StringsKept`, `Filled`), and says that from line 200 to 207 the
  former directory is the host's, or has no name (`Directory`). `LaunchIsAtomic`
  is the refinement of `PrivilegedTask`, from `Ivars`: between the execution and
  the return exactly one tool is not yet in the ivars. `LaunchRunsDown` counts the
  statements that are left: the count is at most the number of arguments and
  seven, goes down by one with every statement, and nothing sends the method
  back. That the loop ends although its counter may wrap is part of it.

`WWANConnectProofs`
: `TypeCorrect`, `CallbacksLive`, `ConnectedOpened` for every client;
  `BlocksKept` for clients that do not shut down twice, although `malloc` may
  hand out again the block that the global names: while it names a block that
  was not shut down, that block is live and of no call in progress, and blocks of
  calls in progress are live and different. A new block is not connected.
  `ResultTrue`, `RefConAlive`, `NoConnectionLost`, `OuterLoopKept` and `KeepsConnectionSafely`, the safety half of the refinement,
  until the client is careless, from `OneConnection`: at most one block is
  alive, it is the innermost call's or the global's, and the streams of all
  others have come to their end. `WaitsForItsOpen` says what a call in its
  nested loop waits for, its own open, and from it follows
  `KeepsConnectionAlways`, the whole refinement.

`ReachabilityProofs`
: `TypeCorrect`, `NoForgottenCallback`, `CurrentRetained` for all watchers, from
  `References` (an unused object has no reference, the current two, a forgotten
  one); `NoInventedNetwork`, from what has been seen of the network so far;
  `TurnsSafe` and `KeepsWatchSafely`, the safety half of the refinement, while
  watchers take turns. `NoNewsLost` says where a change is that its watcher has
  not heard of, signalled on the object with its callback, and from it follows
  `KeepsWatchAlways`, the whole refinement.

`MemoryMenuProofs`
: `TypeCorrect`, `DividersAgree`, `ArrowsAgree`, `LogRowOnline` for every limit,
  from an invariant that says, stage by stage, which side of the limit the reads
  so far have seen; `SectionsFitRows`, from `Fixed`, which has the rows of a list
  built online and the indices of the dividers decided so far.

`NetworkRowsProofs`
: `TypeCorrect`, `RowsFitLists`, `RowsAgreeStill`, `LeaksKnown` for lists of any
  length and any number of changes. `Walked` is the invariant of the five loops:
  what was found so far is the last (for one loop the first) of the entries
  before the cursor that the loop stores (`SoFar`, with a lemma each for how a
  loop begins, goes on and ends). `Still` says that while nothing moved every
  list is the kernel's and what the rows already say is true of it; that two
  rows agree follows because the last entry is unique. `Held` says who holds
  what at which place. `OpeningRunsDown`: each step of the thread finishes a part
  of a reading or an entry of the list it walks over, in this lexicographic
  order, and no change of the interfaces puts the end off, because a walk goes
  over a copy.

`ApplianceProofs`
: `TypeCorrect`, `OnlyInnermostBlocks`, `MenusStack` for any number of
  processes. The key facts are that an event,
  which needs the innermost call to wait, finds waits only, and that a fetch is
  open only while no controller is pushed (`FetchAtRoot`). `RemoteServedAgain`
  is a liveness theorem without a bound on the nesting: only the innermost call
  can hold the thread, so that one process, fetch or restart stands between any
  state and a served remote.

### Liveness, and what its theorems rest on

A proof of liveness has a part the prover does (what each step keeps, what the
helpful step achieves, and the temporal reasoning from fairness to leads-to) and
a part it cannot do: that the helpful step is possible, `ENABLED`. That part is
one state predicate for each module, `NothingBlocks`, `ForcingGoesOn`,
`NewsIsDue` and `RemoteCanReturn`, and the theorems are stated with it:
`Spec /\ []NothingBlocks => ExitNotified`, and so on. The runs check the four as
invariants; they say where nothing may be stuck (that a wait for a child which
the timer has already collected returns, for one), and each fails for a mistake
of the code it is about. So these theorems hold without condition for the checked
instances, and for all others as far as enabledness there is as in these.

### Only model-checked

* The four enabledness invariants above, because the provers do not reason about
  `ENABLED`.
* `LaunchReturns`, `OpeningEnds` and `WaitEnds`. The steps of their countdowns
  are theorems (`LaunchRunsDown`, `OpeningRunsDown`, `WaitRunsDown`); what is
  missing is that the next step is possible, which is enabledness, and the
  induction over the number.
* `DescriptorsReturned`: `FreedTaskReturnsAll` is its safety half, that a
  deallocated task has given everything back. That it is deallocated in time is
  an induction over what its tool has yet to write.
* `WaitsReturn`: there is no number that only goes down, because the user may
  start another wait inside the innermost again and again; it needs the strong
  fairness of `CallReturns` at every depth.

Every safety property of a passing run other than the four has its theorem, and
so have the six other liveness properties and refinements.

## 5. What is not modelled

* Texts of rows, fonts and images. By reading alone: in a hardware list built
  offline every row previews the picture of the one before it
  (`HardwareMainMenu.m:184`); the pictures of the network menu are off by one
  from row 4 on (`NetworkMainMenu.m:227-261`), and those of the software menu
  from row 5 on; the guard of `-itemForRow:` (`MemoryMainMenu.m:279`) lets row =
  count pass, which the list never asks for.
* `UIDevice-KERN.m`, `UIDevice-Uptime.m` and the readings of
  `UIDevice-Hardware.m` other than the hardware addresses: each asks the system
  once and formats the answer, most of them with floating point numbers. There
  is no state, no order and no second question that could disagree with the
  first. By reading alone: line 45 of `UIDevice-KERN.m` shows an uninitialised
  int after a failed `sysctl`; line 374 of `UIDevice-Hardware.m` uses the
  variable it initialises as the key.
* `-addressFromString:`, `-stringFromAddress:`, `-hostAvailable:`,
  `-localIPAddress`: single calls of the system that nothing calls. By reading
  alone: the arguments of `memset` on line 44 of `UIDevice-Reachability.m` are
  swapped.
* The Bluetooth manager: activation, discovery and packet handling are commented
  out, so there is no behaviour to model.
* `MemoryMenu` as an instance inside `Appliance`: in the code `-init` of the
  memory menu reads network and syslog before the host pushes the controller,
  and `Appliance` opens a menu in one step; the two overlap only in the rows of
  the list and in `RowOpensLog`, which both modules state from the same lines.
* The `.xm` files, partial translations of files modelled here, the Xcode
  project, and everything under `src/Utilities/sys32` and
  `src/Utilities/include`: headers, compilers and kernel sources of third parties,
  over two million lines against a few thousand of the plug-in. A share of the
  whole tree therefore says nothing about the plug-in: of its own files, those
  with state and control are the components above.

## 6. What could follow

The plan of the first version is carried out: pipe, launch, both promises, the
sections of the memory menu, the readings of the network menu. What is left is
smaller:

1. The dialog of the authorization, in which the run loop may turn: `TaskLaunch`
   refines `PrivilegedTask` for one task whose client does nothing meanwhile.
2. The previews of the network and software menus as a property against the
   numbering the comments of those files would have to be given first.
