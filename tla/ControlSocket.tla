--------------------------- MODULE ControlSocket ---------------------------
(***************************************************************************)
(* The control socket: command-line clients on one side, the daemon's      *)
(* event loop on the other.                                                *)
(*                                                                         *)
(* A client connects, writes the fields of its command one by one, usually *)
(* waits for one answer, and exits.  The daemon listens from before its    *)
(* servers are set up; its event on the listening socket is edge-triggered *)
(* and its callback accepts one connection, reads the fields it expects    *)
(* one by one, runs the command, answers, and forgets the connection       *)
(* without closing it.                                                     *)
(*                                                                         *)
(* A field is one length-prefixed message (Framing).  What a command does  *)
(* to the servers is the subject of ServerLifecycle; here it is one step,  *)
(* and Daemon puts the two together.  The server processes inherit the     *)
(* daemon's descriptors, and those that outlive it keep the listening      *)
(* socket open, and the connections accepted before they were launched.    *)
(* Faults:                                                                 *)
(*   "kill"    a client may be interrupted                                 *)
(*   "emfile"  the daemon may be out of file descriptors                   *)
(*   "die"     the daemon may end wherever it is                           *)
(***************************************************************************)
EXTENDS Naturals, Sequences, SequencesExt

CONSTANTS
    Clients,    \* client processes; each runs one command
    NoClient,   \* no connection has been accepted yet
    Options,    \* the options that clients use
    Names,      \* the server names that clients give
    Known,      \* those that some server has
    Vanilla,    \* those of a VANILLA server
    Backlog,    \* connections the listening socket queues
    Sequential, \* clients come one after another
    Faults

\* The options of the client, and the command each one sends.
CommandOf ==
    [list        |-> "listServers",   start      |-> "startServer",
     stop        |-> "stopServer",    restart    |-> "restartServer",
     sendcommand |-> "sendCommand",   status     |-> "serverStatus",
     update      |-> "updateServer",  backup     |-> "backupServer",
     listplayers |-> "listOnlinePlayers",
     listplayer  |-> "listOnlinePlayersFiltered",
     stopall     |-> "stopAll",       restartall |-> "restartAll",
     updateall   |-> "updateAll",     backupall  |-> "backupAll",
     stopdaemon  |-> "stopDaemon"]

ASSUME ConstantsAssumption ==
    /\ NoClient \notin Clients
    /\ Options \subseteq DOMAIN CommandOf
    /\ Vanilla \subseteq Known /\ Known \subseteq Names
    /\ Backlog \in Nat \ {0}
    /\ Sequential \in BOOLEAN
    /\ Faults \subseteq {"kill", "emfile", "die"}

VARIABLES
    at,         \* where the daemon's main thread is
    conn,       \* the client whose connection the callback accepted last
    args,       \* the fields it has read from that connection
    ready,      \* an edge on the listening socket is not yet delivered
    backlog,    \* connections not yet accepted, oldest first
    client,     \* what each client process is doing
    request,    \* the fields each client means to write
    sent,       \* how many of them it has written
    answers,    \* how many answers were written to it
    listening,  \* some process has the listening socket open
    held,       \* connections that outlive the daemon, in a server process
    executed,   \* history: the commands run, with the fields they were given
    merged      \* history: connections without an edge of their own left

clientVars == <<client, request, sent>>
openVars == <<listening, held>>
vars == <<at, conn, args, ready, backlog, client, request, sent,
          answers, executed, merged, listening, held>>

-----------------------------------------------------------------------------
(* The two ends of the protocol *)

\* The commands whose branch in receiveCommand() reads a server name; those
\* that go on to read a text; those that list players.
Named   == {"startServer", "stopServer", "restartServer", "serverStatus",
            "sendCommand", "listOnlinePlayers", "listOnlinePlayersFiltered",
            "updateServer", "backupServer"}
Texted  == {"sendCommand", "listOnlinePlayersFiltered"}
Players == {"listOnlinePlayers", "listOnlinePlayersFiltered"}

\* parseOptions() writes the command, the server name and the text that the
\* option was given; a version is never among them.
Text == "text"
Fields(option, name) ==
    LET command == CommandOf[option] IN
    <<command>> \o (IF command \in Named  THEN <<name>> ELSE <<>>)
                \o (IF command \in Texted THEN <<Text>> ELSE <<>>)

\* Mutant: sendcommand does not wait either.
WaitsLess(fields) ==
    fields # <<>> /\ fields[1] \notin {"listOnlinePlayersFiltered", "sendCommand"}

\* Having written something, it waits for an answer, but for the player filter.
Waits(fields) == fields # <<>> /\ fields[1] # "listOnlinePlayersFiltered"

\* readFromSocket() returns this string when the peer is gone; as a field it
\* is indistinguishable from one that was sent.
Error == "error"

\* Mutants: sendCommand reads once too often; stopAll reads a server name.
ReadsFour(f) ==
    \/ Len(f) = 0
    \/ Len(f) = 1 /\ f[1] \in Named \cup {"updateAll"}
    \/ Len(f) = 2 /\ f[1] = "updateServer"
    \/ Len(f) \in {2, 3} /\ f[1] \in Texted /\ f[2] \in Known
ReadsName(f) ==
    \/ Len(f) = 0
    \/ Len(f) = 1 /\ f[1] \in Named \cup {"updateAll", "stopAll"}
    \/ Len(f) = 2 /\ f[1] = "updateServer"
    \/ Len(f) = 2 /\ f[1] \in Texted /\ f[2] \in Known

\* The callback, having read the fields f, reads one more.  updateServer reads
\* its version before it looks for the server, the others after they found it.
ReadsMore(f) ==
    \/ Len(f) = 0
    \/ Len(f) = 1 /\ f[1] \in Named \cup {"updateAll"}
    \/ Len(f) = 2 /\ f[1] = "updateServer"
    \/ Len(f) = 2 /\ f[1] \in Texted /\ f[2] \in Known

\* Having read all its fields, it has something to run; otherwise it returns
\* to the event loop without a word to the client.
Runs(f) ==
    /\ f[1] \notin {Error, "serverStatus"}
    /\ f[1] \in Named => f[2] \in (IF f[1] = "updateServer" THEN Vanilla ELSE Known)

Ended == {"exited", "sigpipe", "aborted"}

\* The client's end of its connection is closed.
Returned(c) == client[c] \in {"done", "killed"}

\* The connections nobody has accepted.
Queued == Range(backlog)

\* The daemon's end of its connection is closed as well.
Abandoned(c) == at \in Ended /\ c \notin held

-----------------------------------------------------------------------------
(* The daemon *)

Init ==
    /\ at = "setup" /\ conn = NoClient /\ args = <<>>
    /\ ready = FALSE /\ backlog = <<>>
    /\ client = [c \in Clients |-> "new"]
    /\ request = [c \in Clients |-> <<>>]
    /\ sent = [c \in Clients |-> 0]
    /\ answers = [c \in Clients |-> 0]
    /\ executed = {} /\ merged = 0
    /\ listening = TRUE /\ held = {}

\* The daemon process ends.  A server process that is left has every connection
\* in the queue, and those it inherited.
End(how) ==
    /\ at' = how
    /\ \/ listening' = FALSE /\ held' = {}
       \/ /\ listening' = TRUE
          /\ \E kept \in SUBSET {c \in Clients : client[c] # "new"} :
               held' = kept \cup Queued

\* Mutant: the event does not report the connections that already wait.
EnterLoopDeaf ==
    /\ at = "setup"
    /\ at' = "loop"
    /\ ready' = FALSE
    /\ merged' = IF backlog = <<>> THEN 0 ELSE Len(backlog) - 1
    /\ UNCHANGED <<conn, args, backlog, clientVars, answers, executed, openVars>>

\* setupServers() is over; event_add() on the socket reports the connections
\* that already wait as one event.
EnterLoop ==
    /\ at = "setup"
    /\ at' = "loop"
    /\ ready' = (backlog # <<>>)
    /\ merged' = IF backlog = <<>> THEN 0 ELSE Len(backlog) - 1
    /\ UNCHANGED <<conn, args, backlog, clientVars, answers, executed, openVars>>

\* Mutants: the edge is not used up; the fields of the last command are kept.
AcceptAgain ==
    /\ at = "loop" /\ ready
    /\ backlog # <<>>
    /\ at' = "read" /\ args' = <<>>
    /\ conn' = Head(backlog)
    /\ backlog' = Tail(backlog)
    /\ UNCHANGED <<ready, clientVars, answers, executed, merged,
                   openVars>>
AcceptKeepsFields ==
    /\ at = "loop" /\ ready
    /\ backlog # <<>>
    /\ at' = "read"
    /\ conn' = Head(backlog)
    /\ backlog' = Tail(backlog)
    /\ ready' = FALSE
    /\ UNCHANGED <<args, clientVars, answers, executed, merged,
                   openVars>>

\* One event, one accept().
Accept ==
    /\ at = "loop" /\ ready
    /\ backlog # <<>>
    /\ at' = "read" /\ args' = <<>>
    /\ conn' = Head(backlog)
    /\ backlog' = Tail(backlog)
    /\ ready' = FALSE
    /\ UNCHANGED <<clientVars, answers, executed, merged,
                   openVars>>

\* No connection, or no descriptor for it (those of earlier connections and of
\* the pipes of ended servers are never closed): accept() returns -1, reading
\* from it gives Error, and the callback returns.
AcceptFails ==
    /\ at = "loop" /\ ready
    /\ backlog = <<>> \/ "emfile" \in Faults
    /\ ready' = FALSE
    /\ merged' = merged + 1
    /\ UNCHANGED <<at, conn, args, backlog, clientVars, answers, executed, openVars>>

\* readFromSocket() blocks until there is a field or the client is gone.
Read ==
    /\ at = "read"
    /\ \/ /\ Len(args) < sent[conn]
          /\ args' = Append(args, request[conn][Len(args) + 1])
       \/ /\ Len(args) >= sent[conn] /\ Returned(conn)
          /\ args' = Append(args, Error)
    /\ at' = IF ReadsMore(args') THEN "read"
             ELSE IF Runs(args') THEN "run" ELSE "loop"
    /\ UNCHANGED <<conn, ready, backlog, clientVars, answers, executed, merged,
                   openVars>>

\* Mutant: a command is answered although nothing was done.
RunNothing ==
    /\ at = "run"
    /\ UNCHANGED <<conn, args, ready, backlog, clientVars, answers, executed, merged>>
    /\ \/ at' = (IF args[1] \in Players THEN "loop" ELSE "reply") /\ UNCHANGED openVars
       \/ args[1] \in Players /\ End("aborted")

\* The call into the server objects.  A player list comes back unanswered, or
\* not at all.
Run ==
    /\ at = "run"
    /\ executed' = executed \cup {[client |-> conn, args |-> args]}
    /\ UNCHANGED <<conn, args, ready, backlog, clientVars, answers, merged>>
    /\ \/ at' = (IF args[1] \in Players THEN "loop" ELSE "reply") /\ UNCHANGED openVars
       \/ args[1] \in Players /\ End("aborted")

\* Mutant: the command ends without an answer.
ReplyNothing ==
    /\ at = "reply"
    /\ UNCHANGED <<conn, args, ready, backlog, clientVars, answers, executed, merged>>
    /\ IF args[1] = "stopDaemon" THEN End("exited") ELSE at' = "loop" /\ UNCHANGED openVars

\* writeToSocket(); with the client gone it raises SIGPIPE.  (updateAll writes
\* a second answer, which it never gets to: it runs only when its client left
\* without sending a version.)
Reply ==
    /\ at = "reply"
    /\ UNCHANGED <<conn, args, ready, backlog, clientVars, executed, merged>>
    /\ answers' = IF Returned(conn) THEN answers ELSE [answers EXCEPT ![conn] = @ + 1]
    /\ IF Returned(conn)                 THEN End("sigpipe")
       ELSE IF args[1] = "stopDaemon"  THEN End("exited")
       ELSE at' = "loop" /\ UNCHANGED openVars

\* A signal, an exit(-1), an abort, or SIGPIPE from a server's stdin.
Die ==
    /\ "die" \in Faults
    /\ at \notin Ended
    /\ UNCHANGED <<conn, args, ready, backlog, clientVars, answers, executed, merged>>
    /\ End("aborted")

-----------------------------------------------------------------------------
(* The clients *)

\* openSocket(), as long as the path leads to an open socket with room in its
\* queue.  An option without its arguments will write nothing.
Connect(c) ==
    /\ client[c] = "new"
    /\ listening
    /\ Len(backlog) < Backlog
    /\ Sequential =>
         backlog = <<>> /\ \A d \in Clients : client[d] = "new" \/ Returned(d)
    /\ client' = [client EXCEPT ![c] = "writing"]
    /\ \E o \in Options, n \in Names :
         \/ request' = [request EXCEPT ![c] = Fields(o, n)]
         \/ CommandOf[o] \in Named /\ UNCHANGED request
    /\ backlog' = Append(backlog, c)
    /\ UNCHANGED <<at, conn, args, sent, answers, executed, listening>>
    /\ IF at \in Ended
       THEN held' = held \cup {c} /\ UNCHANGED <<ready, merged>>
       ELSE /\ ready' = (at # "setup")
            /\ merged' = IF ready THEN merged + 1 ELSE merged
            /\ UNCHANGED held

\* writeToSocket() once more; if nobody has the other end, SIGPIPE.
Write(c) ==
    /\ client[c] = "writing"
    /\ sent[c] < Len(request[c])
    /\ IF Abandoned(c)
       THEN client' = [client EXCEPT ![c] = "killed"] /\ UNCHANGED sent
       ELSE sent' = [sent EXCEPT ![c] = @ + 1] /\ UNCHANGED client
    /\ UNCHANGED <<at, conn, args, ready, backlog, request, answers,
                   executed, merged, openVars>>

\* All is written: wait for the answer, or close the socket and exit.
Written(c) ==
    /\ client[c] = "writing"
    /\ sent[c] = Len(request[c])
    /\ client' = [client EXCEPT ![c] = IF Waits(request[c]) THEN "waiting" ELSE "done"]
    /\ UNCHANGED <<at, conn, args, ready, backlog, request, sent, answers,
                   executed, merged, openVars>>

\* readFromSocket() returns with an answer, or because nobody is left to give one.
Return(c) ==
    /\ client[c] = "waiting"
    /\ answers[c] > 0 \/ Abandoned(c)
    /\ client' = [client EXCEPT ![c] = "done"]
    /\ UNCHANGED <<at, conn, args, ready, backlog, request, sent, answers,
                   executed, merged, openVars>>

\* The user interrupts a client that takes too long.
Kill(c) ==
    /\ "kill" \in Faults
    /\ client[c] \in {"writing", "waiting"}
    /\ client' = [client EXCEPT ![c] = "killed"]
    /\ UNCHANGED <<at, conn, args, ready, backlog, request, sent, answers,
                   executed, merged, openVars>>

-----------------------------------------------------------------------------

\* The server processes that a dead daemon left exit, one after another.
ServersExit ==
    /\ at \in Ended /\ listening
    /\ \/ listening' = FALSE /\ held' = {}
       \/ /\ UNCHANGED listening
          /\ \E kept \in SUBSET held : held' = kept \cup (held \cap Queued)
    /\ UNCHANGED <<at, conn, args, ready, backlog, clientVars, answers, executed, merged>>

DaemonStep == EnterLoop \/ Accept \/ AcceptFails \/ Read \/ Run \/ Reply
ClientStep(c) == Write(c) \/ Written(c) \/ Return(c)

\* Nobody has anything left to do: the daemon waits for connections or has
\* ended, and every client has come and gone, can no longer connect, or waits
\* for a server process to let go of its connection.
Quiescent ==
    /\ at \in Ended \/ (at = "loop" /\ ~ ready)
    /\ \A c \in Clients : Returned(c) \/ (at \in Ended /\ client[c] \in {"new", "waiting"})
    /\ UNCHANGED vars

Next ==
    \/ DaemonStep
    \/ Die \/ ServersExit
    \/ \E c \in Clients : Connect(c) \/ ClientStep(c) \/ Kill(c)
    \/ Quiescent

Spec == Init /\ [][Next]_vars

\* Both programs are scheduled; nobody has to start a client or to kill one.
FairSpec ==
    /\ Spec
    /\ WF_vars(DaemonStep)
    /\ \A c \in Clients : WF_vars(ClientStep(c))

-----------------------------------------------------------------------------
(* Properties *)

\* Every variable stays in its domain.
TypeOK ==
    /\ at \in {"setup", "loop", "read", "run", "reply"} \cup Ended
    /\ conn \in Clients \cup {NoClient}
    /\ Len(args) <= 3
    /\ ready \in BOOLEAN
    /\ backlog \in Seq(Clients) /\ Len(backlog) <= Backlog
    /\ client \in [Clients -> {"new", "writing", "waiting", "done", "killed"}]
    /\ \A c \in Clients : sent[c] \in 0..Len(request[c]) /\ answers[c] \in 0..1
    /\ merged \in Nat
    /\ listening \in BOOLEAN /\ held \subseteq Clients
    /\ at \notin Ended => listening /\ held = {}

\* The callback always finds a connection to accept: it is never entered once
\* too often, although it does not look at what accept() returns.
AcceptFindsOne == at = "loop" /\ ready => backlog # <<>>

\* A connection stays in the queue while the daemon is idle only because its
\* edge was merged with an older one, and the callback accepts one per edge;
\* for each such connection one stays behind, whatever comes later.
LeftBehind ==
    at \notin {"setup"} \cup Ended =>
      Len(backlog) = merged + (IF ready THEN 1 ELSE 0)

\* Daemon and client never wait for each other: when the callback blocks for
\* a field, its client will write it or leave.  (The version that the two
\* update commands want, no client writes.)
NoMutualWait ==
    at = "read" /\ (args = <<>> \/ args[1] \notin {"updateServer", "updateAll"})
      => client[conn] # "waiting" \/ Len(args) < sent[conn]

\* SIGPIPE ends the daemon only when the client it was serving has been
\* interrupted: no client leaves by itself before it is answered.
SigpipeOnlyByLeaving == at = "sigpipe" => client[conn] = "killed"

\* What runs on behalf of a client is what that client asked for: its command
\* on its server, with the text it wrote or the error text if it left.
ExecutedAsAsked ==
    \A e \in executed :
      /\ \A i \in 1..Len(e.args) :
           \/ i <= sent[e.client] /\ e.args[i] = request[e.client][i]
           \/ i > sent[e.client] /\ Returned(e.client) /\ e.args[i] = Error
      /\ e.args[1] = request[e.client][1]

\* How far a client has got, and the abstract service that says so of all.
StatusOf(c) ==
    IF client[c] = "new" THEN "silent"
    ELSE IF answers[c] > 0 THEN "answered"
    ELSE IF \E e \in executed : e.client = c THEN "executed"
    ELSE "asked"
Service == INSTANCE CommandService WITH status <- [c \in Clients |-> StatusOf(c)]

\* A client's command runs at most once, after it asked and before it is told.
ImplementsService == Service!Spec

Returns(command) ==
    \A c \in Clients :
      client[c] = "waiting" /\ request[c][1] = command ~> Returned(c)

\* README.md:44 says of update that it "Updates a server".
UpdateReturns == Returns("updateServer")
=============================================================================
