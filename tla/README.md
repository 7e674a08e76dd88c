# Formal models of Minecraft Server Daemon

The repository is a daemon that starts, stops, updates and backs up Minecraft
servers, each a `java` child process, on behalf of clients that talk to it over
a Unix-domain socket. This directory holds TLA+ models of it, TLC
configurations that check them on small instances, and TLAPS proofs for
instances of any size. Paths below are relative to `src/daemon/` and
`src/client/` of the repository.

    tlc -config Lifecycle.cfg MCServerLifecycle.tla      # a run
    tlapm ServerLifecycleProofs.tla                      # a proof

## 1. The system

| Component | State | Operations | Talks to |
|---|---|---|---|
| `daemon.cpp`, `SetupServers.cpp` | the vector of `Server*`, working directory | launch, construct and start each configured server | Server classes |
| `MainLoop.cpp` `receiveCommand()` | the accepted connection | one callback per edge on the listening socket: accept, read fields, loop over the servers, answer; SIGINT | clients, servers |
| `Server.{hpp,cpp}` | `serverPID`, pipes, `event_base` | `isRunning()` (reaps every child), `operator<<`, `launchServerProcess()`, `outputListenerThread()` | kernel, `java` |
| `VanillaServer` ... `ForgeServer` | configuration fields | start, stop (with a countdown and a poll), restart, send, update, backup, list | `Server`, files |
| `IPC.cpp` / client `Socket.cpp`, `ParseOptions.cpp` | a connection | length-prefixed fields, one answer | each other |
| client `MasterLoop.cpp`, `*Mode.cpp`, `QuitPrompt.cpp`, `WindowWrapper.hpp` | mode, selection, tree of windows | keys, redraw, quit | ncurses only |
| `ConfigFileParser`, `ServerPropertyFileParser`, `Help` | none that lives on | parse, print | libraries |

Everything the daemon does for clients happens on **one thread**, in a libevent
callback that blocks in `recv()`, `sleep()`, `system()`, `curl` and in the poll
of `stopServer()`. Around it run the server processes, the listener threads
(one per launch, all on the server's one `event_base`), the kernel and signals.
Nothing is locked. What is hard is:

* facts that go stale between a check and its use: a server exits between
  `isRunning()` and a write; a pid is reaped on behalf of one server and reused
  before another asks; the working directory moves;
* ends that leave something behind: SIGINT, SIGPIPE, `exit(-1)` in mid-command
  or mid-set-up, and a new daemon that knows nothing of the old one's servers;
* an edge-triggered event whose callback takes one connection;
* two sides that read and write a different number of fields, and an empty one;
* descriptors that every server process inherits, and keeps when its daemon ends;
* a wait without a timeout for another process, whose own progress depends on
  a thread that reads its output;
* a C library function that several threads call and that keeps its place in
  one static variable, and an event base that they share without a lock.

What makes each part correct, in one line:

* lifecycle: no child is lost, no world is opened by two processes, what is
  answered as stopped is down, a read-only server becomes writable again;
* control socket: a command runs with its client's own fields, once, before it
  is answered; daemon and client never wait for each other;
* a field is read as it was sent, whoever reads it;
* the two together: what a client asked for happens to the server it named, and
  nothing else; what it is told is true; it returns;
* listener: one thread at a time reads a server's output as long as it writes, and
  each callback comes to its end in the text that it read;
* files: an update changes the jar it is for, and the server then runs it;
* interface: a key finds its windows, and shows the user where he is.

## 2. The modules

| Module | Models | Extends / uses |
|---|---|---|
| `ServerTypes` | the six classes as records of the points where their bodies differ | |
| `ServerRegistry` | abstract: a server is down, up, or told to stop | |
| `ServerLifecycle` | main thread and server processes, launch to end, over several daemon runs | `ServerTypes`; instantiates `ServerRegistry` |
| `ServerLifecycleProofs` | theorems about it | `ServerLifecycle` |
| `CommandService` | abstract: what the control interface promises a client | |
| `ControlSocket` | clients, backlog, edges, fields, answers, descriptors | instantiates `CommandService` |
| `ControlSocketProofs` | theorems about it | `ControlSocket` |
| `Framing` | how one field crosses the socket: prefix, text, short reads | |
| `FramingProofs` | theorems about it | `Framing` |
| `Daemon` | the composition: commands from the socket, executed on the servers | instantiates `ServerLifecycle`, `ControlSocket` |
| `DaemonProofs` | theorems about it | `Daemon`; instantiates the proof modules of the parts |
| `OutputListener` | pipes, listener threads and the shared `event_base` of one server | |
| `OutputListenerProofs` | theorems about it | `OutputListener` |
| `OutputLines` | the callbacks of several servers taking their buffers apart with `strtok()` | |
| `OutputLinesProofs` | theorems about it | `OutputLines` |
| `ServerFiles` | jar files, the working directory, updates | |
| `ServerFilesProofs` | theorems about it | `ServerFiles` |
| `ClientUI` | the terminal interface | |
| `ClientUIProofs` | theorems about it | `ClientUI` |

The `MC...` modules give the constants values that a configuration file cannot.

**ServerLifecycle.** `pc` is where the main thread is, `op` the command, `cur`
the position of the loop over the server vector. `StartCheck`, `Launch`,
`StopCheck`, `CountDown`, `Halt`, `Poll`, `SendCheck`, `Send`, `BackupBegins`
and `BackupEnds` are the stretches of `startServer()`, `stopServer()`,
`sendCommand()` and `backupServer()` between two points where another process
can act (a check, a `sleep`, a `system`, a `fork`). `proc` and `owner` are the
kernel's process table: a pid is free, a child, a zombie, an orphan of an ended
daemon, or foreign. `isRunning()` is `ReapFor` (reap *all* zombies) and then
`Running` (`kill(serverPID, 0)`), as in the code. A daemon ends as "exited",
"brokenpipe", "interrupted", "aborted" and so on (`Dead`); its children become orphans; `Relaunch`
starts another, which remembers nothing. `halting` are the processes with the
stop command in their stdin, `readonly` those whose last save command is
`save-off`. `reader` is who reads what is written to the number that a server
object keeps for its stdin: a process, nobody (`Gone`, where a write is SIGPIPE),
or, once a failed `fork()` has closed the pipe and left the number, nothing
(`Closed`). Such a number goes to a descriptor that is opened later, an
accepted connection or a pipe of another server: `Launch` may give the new
pipe's to any of the servers in `Dangling`. Histories: `clean` (each earlier daemon ended through stopDaemon)
and `unforeseen` (a server exited by itself, or a pid that a server remembers was
taken by another process). `ImplementsRegistry` maps the
process table to the `status` of `ServerRegistry`: a server whose `serverPID` is
its child is up, or told if that child has the stop command.

**ControlSocket.** `backlog` and `ready` are the listening socket and its
edge; `Accept` takes one connection per edge, `Read` one field; `ReadsMore`
says from the fields read so far whether the branch of `receiveCommand()` reads
another; `Run` is the command, one step here; `Reply` writes the answer. A
closed peer reads as the string "error" and makes an answer raise SIGPIPE.
Descriptors of connections are never closed, and every server process inherits
them with the listening socket. So when the daemon has ended, `listening` and
`held` say what its servers keep open: clients still get into a queue that nobody
takes them from, and those that were being served see no end-of-file, until
`ServersExit`. A client is `parseOptions()`: connect, write, wait, return; it may
be killed at any point.

**Framing.** A text is a sequence of bytes that are no digits, and remember which
message they are of. `PrefixOf` is `setw(4) << setfill('0')` and `Number` is
`atoi()` on the four bytes and what lies behind them on the stack, both digit by digit
(`Left`, `Value`: recursive functions, in any base); `Received` is
what one `recv()` takes. `checked` tells the daemon's function, which looks at the
result of the first `recv()`, from the client's, which does not. `ControlSocket`
takes a field for one message; `FieldsIntact` says when that is right.

**Daemon.** The variables are those of `ServerLifecycle` and `ControlSocket`, and
`inherits`, the connections each process has got. No action is written twice:
`Work` is a step of the servers' main thread in mid-command, `Serve` a step of the
socket, and where one moves both (`EnterLoop`, `Execute`, `Finish`, `Answer`,
`DaemonEnds`) it is the conjunction of the two modules' actions: the fields read
decide the command and the server it is for (`Called`), the end of the loop over
the servers is the socket's `Run`, and what ends one ends the other. That the
composition is a behaviour of `ServerLifecycle` and of `ControlSocket` is proved
(`PartsImplemented`); that it has the fairness of `ControlSocket` too is for TLC
(`ImplementsSocket`): a command of many steps, among them a poll that waits for
another process, has to end like the one step it is there.

**OutputLines.** Each running server has one thread in its callback, with a buffer
of its own; `saved` is the static variable of `strtok()`, a pointer into
somebody's buffer. `NextToken` loads it and `Scan` stores it, with other threads
in between. The race is undefined behaviour; what is modelled is what the C
library in use does with it.

**OutputListener.** Launches are numbered; each has a pipe (`unread`), a thread
and perhaps an event in the base (`registered`). libevent and the server process are
external; `Dispatch`, `Enter`, `FindNothing`, `Wait` and `Leave` are what
`event_base_dispatch()` does, `ServerOutputEvent` is the callback: the events found ready
are served one by one until one breaks the loop, and those left over wait for the next.
A second dispatch returns, if it finds the flag `running` set; but the code calls no
`evthread_use_pthreads()`, so that the flag is tested (`Dispatch`) and set (`Enter`) in two
steps. `torn` says that two threads have used the base at once, one of them in its loop;
with the fault "race" the lists and flags of a torn base may then be anything that
loses or invents a break, keeps an event active, or ends the daemon (`BaseBreaks`). A
failed `fork()` leaves a thread whose descriptor is closed; its number is refused, or is
another file's by then, whose events the thread serves, and whose output it may take.
`hurried` is a history: some launch came before the thread of an earlier one was in
its loop, with an event to wait for.

**ServerFiles.** `JarPath(s)` is what the launch runs, `UpdatePath(s)` what the
update unlinks and writes: the same name, in the working directory. `StartServer`
changes that directory for the whole daemon. A `Broken` file is any that java cannot
run: none, the empty one that `fopen()` has made, or what a failed download leaves, which may
be the same and which nobody checks for. `writer` and `again` are histories.

**ClientUI.** One key is one action. `mainMode`, `pluginsMode`,
`configurationMode` and `managementMode` are the functions of those names, from
one key to the next; `EnterMode` is the way from one through `masterLoop()`'s
redraw to the next one's locals. `deleteAllSubWindows()` increments an erased
iterator, which is undefined: `Redraw` lets any set of panels be missed, and a
`Crash` is possible wherever `redraw()` runs, or where the quit prompt uses the
windows a resize has freed (`dangling`). `~WindowWrapper()` walks in the same way: an `Exit`,
through `cleanup()`, may end in a crash too.

## 3. What the runs check

| Run | Instance | Properties and what they show |
|---|---|---|
| `Lifecycle` | 2 servers (a Generic one and a Vanilla one), 4 pids, 2 daemon runs, all faults incl. pid reuse | `TypeOK`; `NoLostChild`: every unreaped child is the `serverPID` of its server; `AtMostOneProcess`: no world is opened twice, given clean ends; `AnsweredMeansDown`; `StopDaemonLeavesNone`; `ReadonlyOnlyInBackup`; `SigpipeOnlyFromBackup`: the `isRunning()` guards suffice as long as nothing `unforeseen` happens; `ImplementsRegistry`: a server goes down before it comes up, and one is told to stop at a time |
| `LifecycleInterrupt` | 2 servers, SIGINT | **violated** `InterruptKillsChildren` |
| `Socket` | 2 concurrent clients, every option, 3 names, kills, daemon deaths, descriptors that run out | `TypeOK`; `NoMutualWait`; `SigpipeOnlyByLeaving`; `ExecutedAsAsked`; `AcceptFindsOne`: no callback without a connection; `LeftBehind`: exactly the connections whose edge was merged or wasted stay in the queue; `ImplementsService`: refinement of `CommandService` |
| `SocketUpdate` | 1 client | **violated** `UpdateReturns` |
| `Framing` | 3 messages, base 2, 2 digits, lengths 0 to 5 | `FieldsIntact`; `WaitsOnlyForEmpty`: a reader that waits in mid-message has read the prefix of an empty text; `FieldsArrive` |
| `Daemon` | 2 clients, 2 servers (a BungeeCord one, and a Generic one called "error"), 2 pids, clients killed, servers that exit, no descriptors left | `ServersActOnRequest`: a command reaches the server it names, and only one called "error" is reached by a client that leaves before it has named any; `ToldTheTruth`; `ImplementsSocket`; `CommandsEnd`: each command gets back to the loop or ends the daemon; `ClientsReturn` |
| `Listener` | 3 launches, some forks fail, pipes of 2 chunks, a base without a lock | `TypeOK`; `TwoLoopsOnlyInHurry`: two threads serve one base only after a launch that did not wait for the thread before; `LeftOnlyAtEof`: otherwise the last one leaves it only at an end-of-file; `FirstOutputIsRead`; `FirstStopEnds` |
| `ListenerHang` | 2 launches | **violated** `StopEnds` |
| `Lines` | 2 servers that write 4 and 2 characters | `TypeOK`; `AloneLogsItsLines`; `StaysInText`: no callback reads what nobody wrote, whosever text it is in; `CallbacksReturn` |
| `Files` | 3 servers: two in one directory with one jar, a third with a jar of that name elsewhere; exits and failed downloads | `TypeOK`; `StaleOnlyByOthers`; `FreshAfterRestart`; `RetryTakesEffect`: an update that follows an update or a restart of the same server reaches its own jar |
| `FilesUpdate` | the same, no faults | **violated** `UpdateTakesEffect` |
| `Client` | all of it | `TypeOK`; `WindowsExist`; `HighlightsSelection`; `StaysInBar` |

### The disagreements

* **SIGINT leaves the servers running** (`MainLoop.cpp:36`). The comment says
  the handler kills the children; it waits for one and ends the daemon.
* **update never returns** (`ParseOptions.cpp:74`, `MainLoop.cpp:196`). The daemon
  reads a version that the client does not send; both wait for ever.
* **A restarted server's output is not read** (`Server.cpp:67`). The event of the
  first launch stays in the base at end-of-file and breaks every later loop.
  The server blocks on its full pipe and `stopServer()` polls for ever.
* **update writes the wrong jar** (`VanillaServer.cpp:84`): the one of that name in
  the directory of the server started last.

Four more need no interleaving, or follow from a property that holds, and have
no run of their own: the second of two
connections that share an edge stays in the queue of an idle daemon
(`MainLoop.cpp:58` and `:72`; `LeftBehind` says exactly which); `listplayers` constructs a
`std::string` from a null pointer and aborts the daemon; `status`, and any
command for an unknown name, is never answered; Enter in the quit prompt quits
when "No" is highlighted (`QuitPrompt.cpp:81`). The models include all of this behaviour.

### Bounds, and why they are enough

* `Countdown = 1` of 10: each second is the same loop body, and TLC sees a
  server exit before, in and after it.
* Two servers: every property relates one server to at most one other (whose
  `isRunning()` reaps for it, or whose launch takes its pid). The theorems need
  no bound.
* Four pids with two daemon runs: two orphans and two children at once, and
  with reuse also a foreign process on a stale pid. `MaxRuns = 2`: a daemon and its successor.
* Two clients, interchangeable in `Socket` (symmetry), show each interference of
  two connections: a merged edge, a wasted one after a failed accept, one client
  that leaves while the other waits. A field belongs to one connection, so a third
  adds nothing to what the daemon reads from the second.
* `Daemon` has two clients, two servers and two pids: enough for each client to
  ask for another server, for a command over both, and for a stop that waits in
  one while a client comes or goes. One server has the name that the daemon takes for a
  field that never came. Its options are those that are answered, and
  `updateall`, which never reads on. Interrupts, failing forks and pid reuse are left to
  `Lifecycle`; there is one daemon run, since a new daemon has no clients of the old.
* `Framing`: base 2 and 2 digits for 10 and 4. Lengths 0, 1, 3 are the empty text, a
  short one and the longest that fits; 5 takes a third digit. Three messages: one that
  is read, one that strays into the next.
* `Lines`: four characters hold two lines, or a line with empty ones around it, and two more
  another thread's line; `strtok()` treats all other characters alike.
* Three launches: the first, one whose loop meets an old event or an old thread, and one
  that meets two. `Capacity = 2` tells empty, part-full and full pipes apart.
* Three servers in `Files` realise each relation two servers can have there:
  same directory and jar, same jar name only. Two versions tell old from new.
* `ClientUI` is finite as it is.

### Fairness

* `ServerLifecycle`: `WF(DaemonStep)`, because the kernel schedules the thread;
  `WF(HonourStop(p))`, the assumption that a server that reads `stop` stops.
* `ControlSocket`: weak fairness of the daemon's and of each client's own steps.
* `Daemon`: weak fairness of the main thread, of each client's own steps, and of a
  server that has been told to stop.
* `Framing`: weak fairness of the reader, no fairness of the writer. `OutputLines`: weak
  fairness of each callback.
* `OutputListener`: weak fairness of each thread; *strong* fairness of
  `StopsItself`, since a write to a pipe that is drained and filled again and
  again by the same process gets its turn.

No fairness is assumed of users, crashes, SIGINT or of clients that come.
`CHECK_DEADLOCK FALSE` stands in `SocketUpdate` (the hang is the subject) and in
`Client` (the program exits). Elsewhere the states in which nothing is left to do
have a stuttering action with a guard of its own (`Quiescent`, `Over`,
`AtRest`, `AllLogged`), so that any other standstill would be reported.

## 4. What is proved

The theorems hold for every value of the constants that the `ConstantsAssumption` of
a module allows: any positive number of servers, any clients, names, pids, classes,
faults, lengths. These assumptions say what the constants are, and that the values
which stand for "no client", "closed" and the like are different from the rest; they
restrict no configuration. No theorem has a hypothesis besides. Each proof is an
inductive invariant in layers, each inductive given those before it.

### The servers

`ServerLifecycleProofs`:

1. `TypeCorrect`: `TypeOK` is inductive.
2. `NoChildIsLost`. `NoLostChild` is not inductive: `Launch` overwrites
   `serverPID`. `LaunchClear` adds that at the launch no child of that server is
   left, which follows from `isRunning()` having said no: a child is not
   free, and its pid is `serverPID`, so `kill` would have found it.
3. `AnswersAreTrue`. `StopPlace` limits where a stop command can be, and
   `StopProgress` says which servers are already down at each place of the loop; that they stay
   down needs that nothing but `Launch` makes a child.
4. `OneProcessPerServer`, `StopDaemonStopsAll`. `CleanInv`: after clean ends
   there are no orphans; with layer 2 two processes of a server have one pid.
5. `BackupsRestoreSaving`. `PipeInv` ties `reader` to the current process;
   `ReadonlyInv` adds that the signal handler is only entered when SIGINT can come.
6. `GuardsSuffice`. As long as nothing `unforeseen` happens: `KnownPids` (a pid that a server
   remembers is its own, or nobody's), `HaltingWaited` (only the server being waited for
   has been told to stop), `GuardHolds` (between a check and its writes the
   process lives), `WritePlace` (the unguarded writes belong to backups).
7. `RegistryImplemented`: the refinement of `ServerRegistry`, step by step. `StatusIs`
   (a server has one child at most) is layer 2 again; a launch is the registry's
   `Start` because of `LaunchClear`, and `Halt` is its `Tell` because `HaltingWaited`
   says that nobody else has been told.

### The control socket

`ControlSocketProofs`:

1. `Types`: the domains, and that no client has sent more fields than its request has.
2. `Counting` (`EdgesFindConnections`, `MergedEdgesLeaveBehind`): the edges that
   wait, the callbacks that were spent in vain and the connections in the queue add up. That `accept()`
   finds a connection is the case of one edge; that exactly the connections of merged and
   wasted edges stay behind is the sum itself.
3. `Reading` says how many fields have been read at each place of the callback, and
   `Requests` how many fields a command has, and that a client waits only when it has
   written them all. With `Faithful` (5) they give `NobodyWaitsInCircles`: a callback that
   wants a field of a client who waits has read all of them, and wants one more than the
   command has. Only the two update commands do.
4. `Once`: a connection is queued, served, executed and answered once, and its client is
   a different one from those before. The refinement (7) rests on it, since a request that is
   in two places has no one status.
5. `Faithful` (`RunsWhatWasAsked`): the fields read are those of the client being
   served, with "error" from where he left. The invariant speaks of the fields on the way
   (`args`) as well as of those executed, since a client may leave in between.
6. `Leaving` (`SigpipeNeedsInterrupt`): nobody closes his connection unanswered by himself,
   so that an answer into a closed connection has a killed client behind it.
7. `ServiceImplemented`: the refinement of `CommandService`. `StatusOf` maps a client's place, the
   queue and the connection being served to the states of a request; `OneGoesOn` says that a
   step moves one request on and leaves the others where they are, and layer 4 says that it
   does not move back.

### A field

`FramingProofs`. The bytes in the socket are a concatenation of frames, of which the
reader knows only what it has read. Induction over the messages is avoided by a function from a
message to the place where it starts (`Lie`, `Rising`): sending extends it (`OneMore`), receiving
moves all places to the front (`Taken`). The invariant says that the reader stands
`Between` two messages, `Amid` one whose length it has read right, or that all has `Ended`.
`FieldsStayIntact` and `OnlyEmptyTextsWait` follow, for any number and lengths of messages.

They rest on `PrefixesAreRead`: `atoi()` of the prefix of a length is that length, for any base and
any width, if the length has not a digit too many. This is induction over the digits. The
library's induction theorems take a predicate, and its theorems about recursive functions a
step, as operators, which no prover here can instantiate; `Induction` therefore takes the
set of numbers that have the property, and `Recursion` a function from a value to the next,
and both are proved from the well-foundedness of `<` (`WellFoundedInduction`). `LeftDef` and
`ValueDef` then give the defining equations of the two recursive functions, `WidthFits` the number of digits that `setw()` makes,
`DecimalValue` that the first k digits of a prefix make the number without its
other digits, and `LeadingDigits` where `atoi()` stops.

### The two together

`DaemonProofs` instantiates the two proof modules just as `Daemon` instantiates the
modules. `PartsAssumptions` shows that the parts' assumptions hold,
the `...Alike` lemmas that a step of the one instance is a step of the other, so that every
layer above holds of the daemon as it is (`LifeInv`, `SocketInv`; `Kept` adds which connections an ended
daemon leaves open in its servers, where `ControlSocket` has a guess). What is new is
`Glue`: at each place of the one main thread, where it is for either part, and that the command being executed and the server
it is for are those of the fields read (`Commanded`). From it:

* `PartsImplemented`: a daemon is a `ServerLifecycle` and a `ControlSocket`.
* `ServersActAsAsked`: what happens to a server was asked for by a client, of it; or
  it is called "error", the string that the daemon takes for a field that never came, and the
  client left between the command and the name.
* `AnswersAreHonest`: a client is told that a server is stopped only when it is.

### Output

`OutputListenerProofs`: `OneThreadServes` (`TwoLoopsOnlyInHurry`) and `LoopLeftAtEof`
(`LeftOnlyAtEof`). Both are about a `Calm` base, one that has seen no hurried launch. In the first
the flag alone does not help, being tested before it is set: `Loops` says that only the thread
of the last launch can be before its test or between the two, that the flag is set exactly
while a thread is inside, and that nobody is inside while another is about to set it. For the second, `Events`
says where the events are in the care of somebody: a thread on its way or in the loop, or one that
has left, or is leaving, behind a pipe at its end (`Attended`, `LeavingLeaves`). A thread that
finds no event may leave without; `BusyHasEvents` says that no other can be on its way then, to add an event
that the one leaving would miss. When threads disturb each other, a pipe is at its end
already (`AwryHasEnd`), because the event that the older thread waits for is of a process that is gone.

`OutputLinesProofs`. `Safe`: every pointer that a callback is about to follow stands before a
terminator, with nothing unwritten in between (`Terminated`), whosever buffer it points into. Another
thread may put a terminator there, or read a new text over it; neither takes the last
terminator away (`StaysTerminated`, `ReadTerminates`). This gives `NobodyReadsBeyond`, and that the pointers
stay in their buffers. `Alone` follows a callback that has `strtok()` for itself from line to
line: up to where it goes on, its lines are logged (`AreLinesBefore`), from there on its
buffer is what was read (`Unsplit`). `AloneAllIsLogged` is its end. The
least element of a set of places, which `strtok()` looks for, exists because `<` on the naturals is well founded.

### Files

`ServerFilesProofs`: `FilesInv` joins the properties with `Steps` (which
command is at which step), `Down` (from the stop to the start of an update or
restart the server is down), `Writing` (the file being downloaded is the one
unlinked), `SettingUp` and `AtHome` (behind a command that has started a server the
daemon is in its directory, and still is when the next one comes), and `OwnJar`. `StaleOnlyByOthers`
and `FreshAfterRestart` are not inductive: a download would make its own server's
process stale if `Down` did not say that there is none. `RetryTakesEffect` needs `AtHome` from the
command before to the download, and then `OwnJar` to the answer. Theorems
`StaleProved`, `FreshProved`, `RetryProved`, `FilesTypes`.

### The interface

`ClientUIProofs`: `UITypes`, `KeysFindTheirWindows`, `OnlySelectionShines`, `BarStays`. `WindowsExist` is not
inductive, since the windows that exist depend on the mode, and the tree walk may have missed any of
them. `Places` adds that the main mode has all its windows, since a redraw there creates what
is missing, and that outside it the selection never leaves the bar (`ModeEntered` for a
change of mode, `Redrawn` for any outcome of the walk). `ClientUI` has no parameters, and TLC sees all
its states: the theorems add why its properties hold.

### Only model-checked

All liveness, which is outside the prover's reach: `FieldsArrive`, `CommandsEnd`, `ClientsReturn`,
`FirstOutputIsRead`, `FirstStopEnds`, `CallbacksReturn`, and the fairness in
`ImplementsSocket`, whose steps are proved. The four disagreements are behaviours that TLC shows.

## 5. Assumptions and limits

* A server that reads `stop` exits sooner or later. (`operator<<` of a string
  literal also writes its NUL byte; that servers take it in stride is assumed.)
* `'\0'` is a null pointer constant, as in the compilers the Makefiles were
  written for; a newer compiler rejects the file.
* SIGINT is delivered to the main thread.
* libevent has no lock here. What threads that use one base at once may do to it is
  modelled as the fault "race", not derived from libevent's lists: two threads in the loop
  serve the same active events, a break may be lost or taken by the wrong one, an event
  may stay active, the loop may end for no event, and the daemon may die. The properties
  about a base in this state say no more than this allows.
* `CommandsEnd` and `ClientsReturn` assume that a server that is told to stop does
  (`WF(HonourStop)`). `StopEnds` shows that this can fail once a server has been started
  again, so that both speak of servers in their first launch; the `Daemon` run has no other
  fault of this kind, and no failing forks.
* A server may be called "error", and is then stopped or restarted by a client
  that leaves too early (`IPC.cpp:92`). `ServersActOnRequest` allows this, and no other server
  to be reached by a client that did not name it.
* There is at least one server. (The `config.json` in the repository lacks a
  comma, and so describes none until it is repaired.)
* In `ControlSocket` a field is one message. `Framing` shows this to be so for texts
  that are not empty and have at most 9999 characters. An empty one keeps the daemon in
  `recv()` until its client writes more or leaves; `NoMutualWait` and
  `ClientsReturn` are about clients that write no empty field.
* The bytes of one `send()` arrive together, which holds for what fits in a
  kernel buffer.
* In `OutputLines` what one `read()` delivers is a text of its own (a line split
  over two reads is logged as two). It is about servers that run: the thread of
  one that has exited ends, and its buffer with it, which is not modelled.
* The descriptors of a process that has exited are closed with it. Two numbers of pipes
  closed after a failed `fork()` go on being used. That of the stdin pipe is
  in `ServerLifecycle`. That of the stdout pipe is handed to a listener thread
  (`VanillaServer.cpp:171`), and in `OutputListener` its event may be for the pipe of a later launch of the same
  server, or for any other file. It could also read what a client wrote to the daemon, or another
  server's output: `ControlSocket`, `Framing` and `OutputLines` have no such reader beside their own.
* In `OutputLines` a `read()` does not fail. `Server.cpp:62-71` goes on behind a
  failed one with `buf[-1]` and an unset buffer; the one reader of a pipe does not
  meet this. A reused number, as above, might; that is left out.
* Not modelled: the java argument vector (`Server.cpp:186`: one slot stays
  uninitialised; nothing concurrent about it); the archives and copies of a backup,
  which nothing reads; the `Listener` vector, which stays empty because
  `listOnlinePlayers()` throws first; a second daemon beside a running one, which
  unlinks the first one's socket (`IPC.cpp:50`); the JSON and the `server.properties`
  parsers (the latter has no caller); help; logging.

## 6. Plan

Done: the modules above, each with its runs, and the eight proof modules. Every invariant, every
action property and every step of a refinement that a passing run checks is a theorem.

What is left: the java argument vector (`Server.cpp:186`), as a function each slot of which is written
once. It is a property of one sequential loop, and comes last.
