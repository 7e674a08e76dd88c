------------------------------- MODULE Daemon -------------------------------
(***************************************************************************)
(* The daemon as a whole: the control socket of ControlSocket and the      *)
(* servers of ServerLifecycle, driven by the one main thread.              *)
(*                                                                         *)
(* ControlSocket takes a command for one step, ServerLifecycle takes it    *)
(* from nowhere and answers to nobody.  Here the fields a client wrote     *)
(* decide which command the servers see, the command's many steps run with *)
(* the event loop blocked, its end is the answer, and what ends the daemon *)
(* ends both.  Meanwhile clients come, write, give up and leave, and       *)
(* servers exit.  A server process inherits the connections that were      *)
(* accepted before it was launched, and keeps them when the daemon ends.   *)
(***************************************************************************)
EXTENDS Naturals, Sequences, SequencesExt, ServerTypes

CONSTANTS
    N, Pids, NoPid, Gone, Closed, Name, Class, Countdown,
                \* as in ServerLifecycle
    Clients, NoClient, Options, Backlog, Sequential,
                \* as in ControlSocket
    Names,      \* the server names that clients give
    Faults      \* the faults of both

Servers == 1..N

VARIABLES
    pc, op, cur, count, serverPID, reader, proc, owner, halting, readonly,
    runs, clean, unforeseen,
    at, conn, args, ready, backlog, client, request, sent, answers, executed,
    merged, listening, held,
    inherits    \* the connections that each process has inherited

\* A daemon's reply meets a closed connection when its client is gone, and
\* the socket may lose its daemon at any time: here both follow from the rest.
Life ==
    INSTANCE ServerLifecycle WITH
      MaxRuns <- 1,
      Faults  <- (Faults \ {"kill", "emfile"}) \cup {"hangup"}

Socket ==
    INSTANCE ControlSocket WITH
      Known   <- {Name[s] : s \in Servers},
      Vanilla <- {Name[s] : s \in {t \in Servers : Class[t].type = "VANILLA"}},
      Faults  <- (Faults \cap {"kill", "emfile"}) \cup {"die"}

ASSUME ConstantsAssumption ==
    /\ N \in Nat \ {0}
    /\ NoPid \notin Pids
    /\ Gone \notin Pids \cup {NoPid}
    /\ Closed \notin Pids \cup {NoPid, Gone}
    /\ Name \in [Servers -> Names]
    /\ Class \in [Servers -> ServerClasses]
    /\ Countdown \in Nat
    /\ NoClient \notin Clients
    /\ Options \subseteq DOMAIN Socket!CommandOf
    /\ Backlog \in Nat \ {0}
    /\ Sequential \in BOOLEAN
    /\ Faults \subseteq {"entry", "exit", "fork", "pipe", "account", "kill", "emfile"}

lifeVars == <<pc, op, cur, count, serverPID, reader, proc, owner, halting,
              readonly, runs, clean, unforeseen>>
socketVars == <<at, conn, args, ready, backlog, client, request, sent, answers,
                executed, merged, listening, held>>
vars == <<lifeVars, socketVars, inherits>>

Init == Life!Init /\ Socket!Init /\ inherits = [p \in Pids |-> {}]

\* What the processes inherit: a new one all descriptors of the daemon.
Accepted == {c \in Clients : client[c] # "new"} \ Range(backlog)
Inherit ==
    inherits' = [p \in Pids |->
                   IF proc'[p] \notin {"child", "orphan"} THEN {}
                   ELSE IF proc[p] = "free" THEN Accepted ELSE inherits[p]]

\* What a daemon that has ended leaves open: the server processes it has left
\* hold the queue, and the connections they have inherited.
Orphans == {p \in Pids : proc[p] = "orphan"}
Leave ==
    /\ listening' = (Orphans' # {})
    /\ held' = IF Orphans' = {} THEN {}
               ELSE Range(backlog) \cup UNION {inherits'[p] : p \in Orphans'}

-----------------------------------------------------------------------------
(* The main thread *)

\* setupServers() or a command, in the middle: the event loop waits.
Work ==
    /\ at \in {"setup", "run"}
    /\ Life!DaemonStep
    /\ pc' \in Life!Busy \ {"reply"}
    /\ UNCHANGED socketVars /\ Inherit

\* The last server is set up; only now does the daemon look at its socket.
EnterLoop ==
    /\ op = "setup" /\ pc' = "idle"
    /\ Life!LoopEnds /\ Inherit
    /\ Socket!EnterLoop

\* accept() and the reads: the servers are on their own.
Serve ==
    /\ pc = "idle"
    /\ UNCHANGED <<lifeVars, inherits>>
    /\ Socket!Accept \/ Socket!AcceptFails \/ Socket!Read

\* Mutant: the name is that of the first server, whatever the client wrote.
CalledFirst(n, s) == s = 1

\* The server that a field names.
Called(n, s) == Name[s] = n

\* The branch of receiveCommand() for the fields that were read.  listServers
\* and an updateAll that finds no server to update are over at once.
Execute ==
    /\ at = "run" /\ pc = "idle"
    /\ Life!Receive
    /\ op' = args[1]
    /\ op' \in Life!Single => Called(args[2], cur')
    /\ Inherit
    /\ IF pc' = "reply" THEN Socket!Run ELSE UNCHANGED socketVars

\* The command comes back: to its answer, or without one to the event loop.
Finish ==
    /\ at = "run"
    /\ Life!LoopEnds /\ Inherit
    /\ Socket!Run /\ at' # "aborted"

\* writeToSocket(); stopDaemon exits behind it, a departed client kills.
Answer ==
    /\ at = "reply"
    /\ Life!Reply \/ Life!Exit0 \/ Life!ReplyHangup
    /\ Inherit
    /\ Socket!Reply
    /\ <<pc', at'>> \in {<<"idle", "loop">>, <<"exited", "exited">>, <<"hangup", "sigpipe">>}
    /\ pc' # "idle" => Leave

\* The daemon ends elsewhere, and every client sees its connection close.
DaemonEnds ==
    /\ pc # "reply"
    /\ Life!DaemonStep
    /\ pc' \in Life!Dead
    /\ Inherit
    /\ Socket!Die
    /\ Leave

MainThread ==
    \/ Work \/ EnterLoop \/ Serve \/ Execute \/ Finish \/ Answer \/ DaemonEnds

-----------------------------------------------------------------------------
(* Everybody else *)

ClientStep(c) == UNCHANGED <<lifeVars, inherits>> /\ Socket!ClientStep(c)

ComeAndGo ==
    /\ UNCHANGED <<lifeVars, inherits>>
    /\ \E c \in Clients : Socket!Connect(c) \/ Socket!Kill(c)

\* A server process exits; one that has no daemon lets go of its connections.
Released ==
    /\ Inherit
    /\ UNCHANGED <<at, conn, args, ready, backlog, client, request, sent, answers,
                   executed, merged>>
    /\ IF at \in Socket!Ended THEN Leave ELSE UNCHANGED <<listening, held>>

HonourStop(p) == Life!HonourStop(p) /\ Released

ExitsAlone(p) == Life!ExitAlone(p) /\ Released

\* Every client has been served, and the daemon waits for more or has ended.
Quiescent ==
    /\ pc \in Life!Dead \cup {"idle"}
    /\ UNCHANGED <<lifeVars, inherits>>
    /\ Socket!Quiescent

Next ==
    \/ MainThread
    \/ \E c \in Clients : ClientStep(c)
    \/ ComeAndGo
    \/ \E p \in Pids : HonourStop(p) \/ ExitsAlone(p)
    \/ Quiescent

Spec == Init /\ [][Next]_vars

\* Both programs are scheduled, and a server told to stop stops.
FairSpec ==
    /\ Spec
    /\ WF_vars(MainThread)
    /\ \A c \in Clients : WF_vars(ClientStep(c))
    /\ \A p \in Pids : WF_vars(HonourStop(p))

-----------------------------------------------------------------------------
(* Properties *)

\* The clients see a daemon as ControlSocket has it: a command, however many
\* steps it takes, ends like the one step it is there.
ImplementsSocket == Socket!FairSpec

CommandsEnd == Life!CommandsEnd

\* Did the client ask that command's kind be done to the server of process p?  Or
\* was it gone before it had named a server, and p is that of one called "error"?
Asked(c, commands, p) ==
    /\ request[c] # <<>>
    /\ request[c][1] \in commands
    /\ request[c][1] \in Socket!Named =>
         \/ Len(request[c]) > 1 /\ Name[owner[p]] = request[c][2]
         \/ Name[owner[p]] = Socket!Error /\ Socket!Returned(c) /\ sent[c] = 1

\* What happens to a server is what the client being served asked for: its
\* command reaches no other server, and none after the command is over.  Only a
\* client who leaves early reaches a server that it did not name, and only one
\* that is called like the daemon's text for a failed read.
ServersActOnRequest ==
    \A p \in halting \cup readonly :
      proc[p] = "child" =>
        /\ at = "run"
        /\ p \in halting =>
             Asked(conn, Life!Stopping \cup Life!Restarting \cup Life!Updating, p)
        /\ p \in readonly /\ "fork" \notin Faults => Asked(conn, Life!BackingUp, p)

\* The server a client names: the first of that name.
Addressed(n, s) ==
    Name[s] = n /\ \A t \in 1..(s - 1) : Name[t] # n

\* A client that is told its server stopped, or all of them, is told the truth.
ToldTheTruth ==
    [][\A c \in Clients : answers'[c] > answers[c] =>
         \A p \in Pids : proc'[p] = "child" =>
           /\ request[c][1] \notin {"stopAll", "stopDaemon"}
           /\ request[c][1] = "stopServer" => ~ Addressed(request[c][2], owner'[p])]_vars

\* An update keeps the daemon waiting for a version that no client sends.
Hung == at = "read" /\ args # <<>> /\ args[1] \in {"updateServer", "updateAll"}

\* A client returns: the countdown, the wait for its server, servers that exit
\* meanwhile, other clients that give up, and the end of the daemon only delay
\* it.  What can keep it for ever is an edge shared with another connection,
\* somebody's update, or, when the daemon is gone, a server process that has
\* its connection.
ClientsReturn ==
    \A c \in Clients :
      client[c] = "writing" ~> Socket!Returned(c) \/ merged > 0 \/ Hung \/ c \in held
=============================================================================
