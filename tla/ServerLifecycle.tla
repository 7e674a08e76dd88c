-------------------------- MODULE ServerLifecycle --------------------------
(***************************************************************************)
(* The daemon's main thread and the game-server processes it starts.       *)
(*                                                                         *)
(* The main thread runs setupServers() and then one control command after  *)
(* another; a command calls the virtual functions of one server or of      *)
(* every server in vector order.  Each call of isRunning(), each group of  *)
(* writes to a server's stdin between two sleeps, and each fork is a step, *)
(* so that processes exit, and signals arrive, between them.               *)
(*                                                                         *)
(* The environment is the kernel and the server processes.  Faults names   *)
(* what may go wrong in a behaviour:                                       *)
(*   "entry"      a configuration entry has an unknown serverType          *)
(*   "exit"       a server process exits without having been told to       *)
(*   "fork"       fork() fails             "pipe"    pipe() fails          *)
(*   "account"    getpwnam_r() finds no such account                       *)
(*   "hangup"     the client is gone when its reply is written             *)
(*   "interrupt"  the daemon receives SIGINT                               *)
(*   "reuse"      the kernel reuses the pid of a reaped server process     *)
(***************************************************************************)
EXTENDS Naturals, ServerTypes

CONSTANTS
    N,          \* number of entries of "servers" in the configuration
    Pids,       \* process ids
    NoPid,      \* serverPID == -1
    Gone,       \* the read end of a pipe whose reader has exited
    Closed,     \* no pipe: the numbers of one that is closed
    Names,      \* the server names a client may send
    Name,       \* serverName of each entry, in vector order
    Class,      \* class of each entry
    Countdown,  \* seconds stopServer() counts down (10 in the code)
    MaxRuns,    \* bound: how often the daemon is launched
    Faults

Servers == 1..N

ASSUME ConstantsAssumption ==
    /\ N \in Nat \ {0}
    /\ NoPid \notin Pids
    /\ Gone \notin Pids \cup {NoPid}
    /\ Closed \notin Pids \cup {NoPid, Gone}
    /\ Name \in [Servers -> Names]
    /\ Class \in [Servers -> ServerClasses]
    /\ Countdown \in Nat
    /\ MaxRuns \in Nat
    /\ Faults \subseteq {"entry", "exit", "fork", "pipe", "account",
                         "hangup", "interrupt", "reuse"}

VARIABLES
    pc,         \* where the main thread is
    op,         \* the command it executes
    cur,        \* the server the command is at: position of the iterator
    count,      \* i of the countdown in stopServer()
    serverPID,  \* Server::serverPID of each server
    reader,     \* who reads what is written to childProcessStdin[PIPE_WRITE]
    proc,       \* kernel: what each pid is
    owner,      \* kernel: the server whose process has this pid, 0 if none
    halting,    \* processes that find the stop command in their stdin
    readonly,   \* processes whose last save command is "save-off"
    runs,       \* how often the daemon has been launched
    clean,      \* history: every earlier daemon ended through stopDaemon
    unforeseen  \* history: a child exited without having been told to, or a pid
                \* that a server remembers was taken by another process

daemonVars  == <<pc, op, cur, count, serverPID, reader>>
processVars == <<proc, owner, halting, readonly>>
historyVars == <<runs, clean, unforeseen>>
vars == <<pc, op, cur, count, serverPID, reader,
          proc, owner, halting, readonly, runs, clean, unforeseen>>

-----------------------------------------------------------------------------
(* Commands *)

Single  == {"startServer", "stopServer", "restartServer", "sendCommand",
            "listOnlinePlayers", "listOnlinePlayersFiltered",
            "updateServer", "backupServer"}
ForEach == {"startAll", "stopAll", "restartAll", "backupAll", "stopDaemon"}
Commands == Single \cup ForEach \cup {"updateAll", "listServers"}

Starting   == {"startServer", "startAll"}
Stopping   == {"stopServer", "stopAll", "stopDaemon"}
Updating   == {"updateServer", "updateAll"}
Restarting == {"restartServer", "restartAll"}
BackingUp  == {"backupServer", "backupAll"}
Listing    == {"listOnlinePlayers", "listOnlinePlayersFiltered"}

\* Commands that find their server or loop to the end without an answer.
Silent == Listing

\* Where the function a command calls on a server begins.
Entry(c) ==
    CASE c = "setup"       -> "construct"
      [] c \in Starting    -> "start"
      [] c \in Stopping    -> "stop"
      [] c \in Updating    -> "stop"
      [] c \in Restarting  -> "restart"
      [] c \in BackingUp   -> "backup"
      [] c \in Listing     -> "list"
      [] c = "sendCommand" -> "check"

\* What follows stopServer(): restartServer() and updateServer() go on to
\* startServer(); elsewhere the loop over the servers continues.
AfterStop(c) == IF c \in Restarting \cup Updating THEN "start" ELSE "next"

\* Does the loop of command c over the servers stop at server s for name n?
\* updateServer and updateAll leave the loop at VANILLA servers only.
Matches(c, n, s) ==
    /\ c # "updateAll" => Name[s] = n
    /\ c \in Updating => Class[s].type = "VANILLA"

First(c, n, s) ==
    Matches(c, n, s) /\ \A t \in 1..(s - 1) : ~ Matches(c, n, t)

-----------------------------------------------------------------------------
(* Processes *)

Children == {p \in Pids : proc[p] \in {"child", "zombie"}}

\* waitpid(-1, 0, WNOHANG) until it finds no more: all zombies are reaped.
Reaped(status) ==
    [p \in Pids |-> IF status[p] = "zombie" THEN "free" ELSE status[p]]
OwnersAfterReap ==
    [p \in Pids |-> IF proc[p] = "zombie" THEN 0 ELSE owner[p]]

\* The side effect of isRunning(): only a server that was launched reaps.
ReapFor(s) ==
    IF serverPID[s] = NoPid
    THEN UNCHANGED <<proc, owner>>
    ELSE proc' = Reaped(proc) /\ owner' = OwnersAfterReap

\* The answer of isRunning(), after the reaping: kill(serverPID, 0) == 0.
Running(s) ==
    serverPID[s] # NoPid /\ Reaped(proc)[serverPID[s]] # "free"

\* The daemon process ends.  init adopts its children and reaps the zombies;
\* the daemon's ends of the pipes close; its memory is lost.
Die(how) ==
    /\ pc' = how
    /\ serverPID' = [s \in Servers |-> NoPid]
    /\ reader' = [s \in Servers |-> NoPid]
    /\ proc' = [p \in Pids |->
                  CASE proc[p] = "zombie" -> "free"
                    [] proc[p] = "child"  -> "orphan"
                    [] OTHER              -> proc[p]]
    /\ owner' = OwnersAfterReap
    /\ clean' = (clean /\ how = "exited")
    /\ UNCHANGED <<op, cur, count, halting, readonly, runs, unforeseen>>

Dead == {"exited", "failed", "aborted", "brokenpipe", "hangup", "interrupted"}
Busy == {"construct", "start", "launch", "stop", "count", "poll", "restart",
         "check", "send", "backup", "archive", "list", "next", "reply"}

-----------------------------------------------------------------------------
(* The daemon starts *)

Init ==
    /\ pc = "construct" /\ op = "setup" /\ cur = 1 /\ count = 0
    /\ serverPID = [s \in Servers |-> NoPid]
    /\ reader = [s \in Servers |-> NoPid]
    /\ proc = [p \in Pids |-> "free"]
    /\ owner = [p \in Pids |-> 0]
    /\ halting = {} /\ readonly = {}
    /\ runs = 1 /\ clean = TRUE /\ unforeseen = FALSE

\* The administrator launches minecraftd again after it ended.
Relaunch ==
    /\ pc \in Dead
    /\ runs < MaxRuns
    /\ pc' = "construct" /\ op' = "setup" /\ cur' = 1 /\ count' = 0
    /\ runs' = runs + 1
    /\ UNCHANGED <<serverPID, reader, processVars, clean, unforeseen>>

\* setupServers(): the next entry; exit(-1) for an unknown serverType, with
\* the servers of the entries before it running.
Construct ==
    /\ pc = "construct"
    /\ pc' = "start"
    /\ UNCHANGED <<op, cur, count, serverPID, reader, processVars, historyVars>>

ConstructFails ==
    /\ "entry" \in Faults
    /\ pc = "construct"
    /\ Die("failed")

-----------------------------------------------------------------------------
(* receiveCommand() *)

Begin(c, s, l) ==
    /\ pc' = l /\ op' = c /\ cur' = s
    /\ UNCHANGED <<count, serverPID, reader, processVars, historyVars>>

\* A command that names no server it can use leaves no trace; nor does
\* serverStatus.
ReceiveSingle ==
    /\ pc = "idle"
    /\ \E c \in Single, n \in Names, s \in Servers :
         First(c, n, s) /\ Begin(c, s, Entry(c))

ReceiveForEach ==
    /\ pc = "idle"
    /\ \E c \in ForEach : Begin(c, 1, Entry(c))

\* updateAll leaves its loop after the first VANILLA server.
ReceiveUpdateAll ==
    /\ pc = "idle"
    /\ \/ \E n \in Names, s \in Servers :
            First("updateAll", n, s) /\ Begin("updateAll", s, "stop")
       \/ /\ \A s \in Servers : Class[s].type # "VANILLA"
          /\ Begin("updateAll", 1, "reply")

\* listServers answers with names and types, and looks at nothing else.
ReceiveList == pc = "idle" /\ Begin("listServers", 1, "reply")

NextServer ==
    /\ pc = "next"
    /\ op \in ForEach \cup {"setup"}
    /\ cur < N
    /\ cur' = cur + 1
    /\ pc' = Entry(op)
    /\ UNCHANGED <<op, count, serverPID, reader, processVars, historyVars>>

\* Mutant: the loop over the servers ends at any server.
LoopEndsEarly ==
    /\ pc = "next"
    /\ IF op \in {"setup"} \cup Silent
       THEN pc' = "idle" /\ op' = "none" /\ cur' = 1
       ELSE pc' = "reply" /\ UNCHANGED <<op, cur>>
    /\ UNCHANGED <<count, serverPID, reader, processVars, historyVars>>

LoopEnds ==
    /\ pc = "next"
    /\ op \in ForEach \cup {"setup"} => cur = N
    /\ IF op \in {"setup"} \cup Silent
       THEN pc' = "idle" /\ op' = "none" /\ cur' = 1
       ELSE pc' = "reply" /\ UNCHANGED <<op, cur>>
    /\ UNCHANGED <<count, serverPID, reader, processVars, historyVars>>

\* writeToSocket() and return to the event loop.
Reply ==
    /\ pc = "reply"
    /\ op # "stopDaemon"
    /\ pc' = "idle" /\ op' = "none" /\ cur' = 1
    /\ UNCHANGED <<count, serverPID, reader, processVars, historyVars>>

\* stopDaemon answers "Stopped" and calls exit(0).
Exit0 ==
    /\ pc = "reply"
    /\ op = "stopDaemon"
    /\ Die("exited")

\* The client closed its socket: writing the reply raises SIGPIPE.
ReplyHangup ==
    /\ "hangup" \in Faults
    /\ pc = "reply"
    /\ Die("hangup")

-----------------------------------------------------------------------------
(* startServer() *)

\* Mutant: the server is launched whether it runs or not.
StartUnchecked ==
    /\ pc = "start"
    /\ pc' = "launch"
    /\ ReapFor(cur)
    /\ UNCHANGED <<op, cur, count, serverPID, reader, halting, readonly,
                   historyVars>>

StartCheck ==
    /\ pc = "start"
    /\ pc' = IF Running(cur) THEN "next" ELSE "launch"
    /\ ReapFor(cur)
    /\ UNCHANGED <<op, cur, count, serverPID, reader, halting, readonly,
                   historyVars>>

\* A pid for a new process.  Unless pids are reused, it is none that the
\* serverPID of another server still remembers.
Allocatable(p) ==
    /\ proc[p] = "free"
    /\ "reuse" \in Faults \/ \A s \in Servers \ {cur} : serverPID[s] # p

\* Servers that remember the numbers of a closed pipe.
Dangling == {s \in Servers \ {cur} : reader[s] = Closed}

\* launchServerProcess(): two pipes, fork(), and the parent's bookkeeping.
\* A child whose execv() fails is a child that exits at once.  The new pipe may
\* have the numbers that other servers remember of a closed one.
Launch(p) ==
    /\ pc = "launch"
    /\ Allocatable(p)
    /\ serverPID' = [serverPID EXCEPT ![cur] = p]
    /\ \E shared \in SUBSET Dangling :
         reader' = [s \in Servers |-> IF s \in shared \cup {cur} THEN p ELSE reader[s]]
    /\ proc' = [proc EXCEPT ![p] = "child"]
    /\ owner' = [owner EXCEPT ![p] = cur]
    /\ pc' = "next"
    /\ unforeseen' = (unforeseen \/ \E s \in Servers \ {cur} : serverPID[s] = p)
    /\ UNCHANGED <<op, cur, count, halting, readonly, runs, clean>>

\* fork() returns -1, which is stored; both pipes are closed, and their numbers
\* stay in childProcessStdin and childProcessStdout.
ForkFails ==
    /\ "fork" \in Faults
    /\ pc = "launch"
    /\ serverPID' = [serverPID EXCEPT ![cur] = NoPid]
    /\ reader' = [reader EXCEPT ![cur] = Closed]
    /\ pc' = "next"
    /\ UNCHANGED <<op, cur, count, processVars, historyVars>>

\* pipe() fails: exit(-1).
PipeFails ==
    /\ "pipe" \in Faults
    /\ pc = "launch"
    /\ Die("failed")

\* getUIDAndGIDFromUsername(): "throw;" with no exception being handled.
AccountMissing ==
    /\ "account" \in Faults
    /\ pc = "launch"
    /\ Die("aborted")

-----------------------------------------------------------------------------
(* Server::operator<< : write() to childProcessStdin[PIPE_WRITE] *)

\* The places from which the main thread writes to the current server.
Writing == {"count", "send", "backup", "archive"}

\* The process at the other end has exited, or the number is by now that of a
\* client's connection and the client is gone: SIGPIPE, which nobody catches.
BrokenPipe ==
    /\ pc \in Writing
    /\ \/ reader[cur] = Gone
       \/ reader[cur] = Closed /\ "hangup" \in Faults
    /\ Die("brokenpipe")

\* Otherwise the write reaches the reader; with a closed number it fails with
\* an error nobody looks at, or ends up where no server reads it.
Write == reader[cur] # Gone

\* The set of readers that learn of what is written now.
Reader == {reader[cur]} \cap Pids

-----------------------------------------------------------------------------
(* stopServer(), restartServer(), sendCommand() *)

\* Mutant: the stop command is written whether the server runs or not.
StopUnchecked ==
    /\ pc = "stop"
    /\ pc' = "count"
    /\ count' = 0
    /\ ReapFor(cur)
    /\ UNCHANGED <<op, cur, serverPID, reader, halting, readonly, historyVars>>

StopCheck ==
    /\ pc = "stop"
    /\ IF Running(cur)
       THEN /\ pc' = "count"
            /\ count' = IF Class[cur].countdown THEN Countdown ELSE 0
       ELSE pc' = AfterStop(op) /\ UNCHANGED count
    /\ ReapFor(cur)
    /\ UNCHANGED <<op, cur, serverPID, reader, halting, readonly, historyVars>>

\* Mutant: the countdown has no end.
CountDownPastZero ==
    /\ pc = "count"
    /\ Write
    /\ count' = count - 1
    /\ UNCHANGED <<pc, op, cur, serverPID, reader, processVars, historyVars>>

\* "say i" and one second of sleep; the first "say" announces the shutdown.
CountDown ==
    /\ pc = "count" /\ count > 0
    /\ Write
    /\ count' = count - 1
    /\ UNCHANGED <<pc, op, cur, serverPID, reader, processVars, historyVars>>

\* Mutants: the caller goes on at once; the server does not know the command.
HaltAndReturn ==
    /\ pc = "count" /\ count = 0
    /\ Write
    /\ halting' = halting \cup Reader
    /\ pc' = AfterStop(op)
    /\ UNCHANGED <<op, cur, count, serverPID, reader, proc, owner, readonly,
                   historyVars>>
HaltUnheard ==
    /\ pc = "count" /\ count = 0
    /\ Write
    /\ pc' = "poll"
    /\ UNCHANGED <<op, cur, count, serverPID, reader, processVars, historyVars>>

\* "save-all" and "stop", or BungeeCord's "end".
Halt ==
    /\ pc = "count" /\ count = 0
    /\ Write
    /\ halting' = halting \cup Reader
    /\ pc' = "poll"
    /\ UNCHANGED <<op, cur, count, serverPID, reader, proc, owner, readonly,
                   historyVars>>

\* Mutant: an "if" in the place of the "while".
PollOnce ==
    /\ pc = "poll"
    /\ pc' = AfterStop(op)
    /\ ReapFor(cur)
    /\ UNCHANGED <<op, cur, count, serverPID, reader, halting, readonly,
                   historyVars>>

\* while (isRunning()) sleep(0.5);
Poll ==
    /\ pc = "poll"
    /\ pc' = IF Running(cur) THEN "poll" ELSE AfterStop(op)
    /\ ReapFor(cur)
    /\ UNCHANGED <<op, cur, count, serverPID, reader, halting, readonly,
                   historyVars>>

RestartCheck ==
    /\ pc = "restart"
    /\ pc' = IF Running(cur) THEN "stop" ELSE "next"
    /\ ReapFor(cur)
    /\ UNCHANGED <<op, cur, count, serverPID, reader, halting, readonly,
                   historyVars>>

SendCheck ==
    /\ pc = "check"
    /\ pc' = IF Running(cur) THEN "send" ELSE "next"
    /\ ReapFor(cur)
    /\ UNCHANGED <<op, cur, count, serverPID, reader, halting, readonly,
                   historyVars>>

\* The operator's line is opaque: a server it makes stop is one that exits.
Send ==
    /\ pc = "send"
    /\ Write
    /\ pc' = "next"
    /\ UNCHANGED <<op, cur, count, serverPID, reader, processVars, historyVars>>

-----------------------------------------------------------------------------
(* backupServer(), listOnlinePlayers() *)

\* "say ...", "save-off", "save-all", whether the server runs or not.
BackupBegins ==
    /\ pc = "backup"
    /\ Write
    /\ readonly' = readonly \cup Reader
    /\ pc' = "archive"
    /\ UNCHANGED <<op, cur, count, serverPID, reader, proc, owner, halting,
                   historyVars>>

\* Mutant: "save-on" is forgotten.
BackupEndsReadonly ==
    /\ pc = "archive"
    /\ Write
    /\ pc' = "next"
    /\ UNCHANGED <<op, cur, count, serverPID, reader, processVars, historyVars>>

\* After the shell commands: "save-on", "say ...".
BackupEnds ==
    /\ pc = "archive"
    /\ Write
    /\ readonly' = readonly \ Reader
    /\ pc' = "next"
    /\ UNCHANGED <<op, cur, count, serverPID, reader, proc, owner, halting,
                   historyVars>>

\* std::string output = '\0' constructs from a null pointer: the library
\* throws std::logic_error, and libevent's C frames have no handler.
ListThrows ==
    /\ pc = "list"
    /\ Class[cur].list = "throws"
    /\ Die("aborted")

\* A body with no return statement: the call may come back, or crash.
ListUndefined ==
    /\ pc = "list"
    /\ Class[cur].list = "undefined"
    /\ \/ Die("aborted")
       \/ /\ pc' = "next"
          /\ UNCHANGED <<op, cur, count, serverPID, reader, processVars,
                         historyVars>>

-----------------------------------------------------------------------------
(* SIGINT *)

\* The handler runs on the main thread, which never resumes what it was doing.
Interrupt ==
    /\ "interrupt" \in Faults
    /\ pc \in Busy \cup {"idle"}
    /\ pc' = "handler"
    /\ UNCHANGED <<op, cur, count, serverPID, reader, processVars, historyVars>>

\* wait(NULL) returns when one child has exited or there is none; then the
\* default action of SIGINT ends the daemon.
HandlerEnds ==
    /\ pc = "handler"
    /\ Children # {} => \E p \in Pids : proc[p] = "zombie"
    /\ Die("interrupted")

-----------------------------------------------------------------------------
(* The server processes and the kernel *)

\* Process p of a server ends: its pipe breaks at once; its pid is free when
\* its parent, the daemon or init, has reaped it.
Exit(p) ==
    /\ proc[p] \in {"child", "orphan"}
    /\ proc' = [proc EXCEPT ![p] = IF @ = "child" THEN "zombie" ELSE "free"]
    /\ owner' = [owner EXCEPT ![p] = IF proc[p] = "child" THEN @ ELSE 0]
    /\ unforeseen' = (unforeseen \/ (proc[p] = "child" /\ p \notin halting))
    /\ reader' = [s \in Servers |-> IF reader[s] = p THEN Gone ELSE reader[s]]
    /\ halting' = halting \ {p}
    /\ readonly' = readonly \ {p}
    /\ UNCHANGED <<pc, op, cur, count, serverPID, runs, clean>>

\* A server that reads the stop command exits.
HonourStop(p) == p \in halting /\ Exit(p)

\* A server crashes, is killed, or never got as far as running java.
ExitAlone(p) == "exit" \in Faults /\ Exit(p)

\* A process of somebody else takes a free pid, and leaves it.
ForeignProcess(p) ==
    /\ "reuse" \in Faults
    /\ proc[p] \in {"free", "foreign"}
    /\ proc' = [proc EXCEPT ![p] = IF @ = "free" THEN "foreign" ELSE "free"]
    /\ unforeseen' = (unforeseen \/ \E s \in Servers : serverPID[s] = p)
    /\ UNCHANGED <<daemonVars, owner, halting, readonly, runs, clean>>

-----------------------------------------------------------------------------

\* What the main thread does by itself once a command is received.
DaemonStep ==
    \/ Construct \/ ConstructFails
    \/ NextServer \/ LoopEnds \/ Reply \/ Exit0 \/ ReplyHangup
    \/ StartCheck \/ (\E p \in Pids : Launch(p))
    \/ ForkFails \/ PipeFails \/ AccountMissing
    \/ BrokenPipe
    \/ StopCheck \/ CountDown \/ Halt \/ Poll
    \/ RestartCheck \/ SendCheck \/ Send
    \/ BackupBegins \/ BackupEnds
    \/ ListThrows \/ ListUndefined
    \/ HandlerEnds

Receive == ReceiveSingle \/ ReceiveForEach \/ ReceiveUpdateAll \/ ReceiveList

Environment ==
    \/ Relaunch
    \/ Interrupt
    \/ \E p \in Pids : HonourStop(p) \/ ExitAlone(p) \/ ForeignProcess(p)

\* The daemon has ended for the last time that is explored.
Terminated ==
    /\ pc \in Dead /\ runs = MaxRuns
    /\ UNCHANGED vars

Next == DaemonStep \/ Receive \/ Environment \/ Terminated

Spec == Init /\ [][Next]_vars

\* The main thread is scheduled, and a server told to stop stops.
Fairness ==
    /\ WF_vars(DaemonStep)
    /\ \A p \in Pids : WF_vars(HonourStop(p))

FairSpec == Spec /\ Fairness

-----------------------------------------------------------------------------
(* Properties *)

PcValues == Busy \cup Dead \cup {"idle", "handler"}

\* Every variable stays in its domain; count never goes below zero.
TypeOK ==
    /\ pc \in PcValues
    /\ op \in Commands \cup {"setup", "none"}
    /\ cur \in Servers
    /\ count \in 0..Countdown
    /\ serverPID \in [Servers -> Pids \cup {NoPid}]
    /\ reader \in [Servers -> Pids \cup {NoPid, Gone, Closed}]
    /\ proc \in [Pids -> {"free", "child", "zombie", "orphan", "foreign"}]
    /\ owner \in [Pids -> 0..N]
    /\ halting \subseteq Pids
    /\ readonly \subseteq Pids
    /\ runs \in Nat
    /\ clean \in BOOLEAN
    /\ unforeseen \in BOOLEAN

\* The processes of server s that hold its world open.
ProcessesOf(s) == {p \in Pids : proc[p] \in {"child", "orphan"} /\ owner[p] = s}

\* No child is lost: serverPID of its server is the pid of every process the
\* daemon started and has not reaped.  startServer() overwrites serverPID,
\* isRunning() reaps children of all servers, and pids may be reused.
NoLostChild ==
    \A p \in Children : owner[p] \in Servers /\ serverPID[owner[p]] = p

\* A server never runs twice on the same world, in one daemon or across
\* daemons, as long as every earlier daemon ended through stopDaemon.
AtMostOneProcess ==
    clean => \A s \in Servers : \A p, q \in ProcessesOf(s) : p = q

\* When stopServer, stopAll or stopDaemon answers its client, what it was
\* asked to stop is down: no process of it is left, not even one that still
\* saves its world.
AnsweredMeansDown ==
    pc = "reply" =>
      /\ op = "stopServer" => \A p \in Children : owner[p] = cur => proc[p] = "zombie"
      /\ op \in {"stopAll", "stopDaemon"} => \A p \in Pids : proc[p] # "child"

\* A stopDaemon leaves no server process behind (if the daemons before it
\* left none either).
StopDaemonLeavesNone ==
    clean /\ pc = "exited" => \A s \in Servers : ProcessesOf(s) = {}

\* The isRunning() guards before the writes suffice unless a server exits by
\* itself, or its pid is taken when it has been reaped: without that, only a
\* backup, which has no guard, can kill the daemon with SIGPIPE.
SigpipeOnlyFromBackup ==
    pc = "brokenpipe" /\ ~ unforeseen => op \in BackingUp

\* A server is read-only only while its backup is being taken: that of its own
\* entry, or, after a failed fork(), of one that remembers the numbers of its
\* pipe; each time for as long as that backup runs.  One that survives its
\* daemon may stay so, if SIGINT hit the daemon in mid-backup.
ReadonlyOnlyInBackup ==
    \A p \in readonly :
      \/ /\ proc[p] = "child" /\ pc \in {"archive", "handler"}
         /\ reader[cur] = p
         /\ "fork" \notin Faults => owner[p] = cur
      \/ proc[p] = "orphan" /\ "interrupt" \in Faults

\* The main thread always gets back to its event loop, or ends: the wait for
\* a server to stop, which has no timeout, ends.
CommandsEnd == pc \in Busy ~> pc \notin Busy

\* How the registry sees server s: by the children it has.  (A zombie is down.)
Alive(s) == {p \in Pids : proc[p] = "child" /\ owner[p] = s}
StatusOf(s) ==
    IF Alive(s) = {} THEN "down"
    ELSE IF \E p, q \in Alive(s) : p # q THEN "twice"
    ELSE IF Alive(s) \subseteq halting THEN "told" ELSE "up"

Registry == INSTANCE ServerRegistry WITH status <- [s \in Servers |-> StatusOf(s)]

\* The servers go up and down as the registry promises: one at a time, never
\* twice, and told to stop one after the other.
ImplementsRegistry == Registry!Spec

\* MainLoop.cpp:37 says of the SIGINT handler that it "kills all of the child
\* processes, then sends the SIGINT signal again to kill the program".
InterruptKillsChildren ==
    pc = "interrupted" => \A s \in Servers : ProcessesOf(s) = {}
=============================================================================
