------------------------- MODULE ControlSocketProofs -------------------------
(***************************************************************************)
(* Theorems about ControlSocket, for any clients, names, options, length   *)
(* of the queue and faults.                                                *)
(*                                                                         *)
(* The layers, each inductive given those before it:                       *)
(*   Types        the domains of the variables                             *)
(*   Counting     edges and connections in the queue                       *)
(*   Reading      how many fields have been read, where                    *)
(*   Requests     what a client has written, where it is                   *)
(*   Once         a connection is queued, served and answered once         *)
(*   Faithful     the fields read are those of the client being served     *)
(*   Leaving      nobody leaves unanswered by himself                      *)
(***************************************************************************)
EXTENDS ControlSocket, TLAPS

\* What a field can be.
Values == {CommandOf[o] : o \in Options} \cup Names \cup {Text, Error}

\* The callback has a client.
Serving == {"read", "run", "reply"}

DaemonTypes ==
    /\ at \in {"setup", "loop"} \cup Serving \cup Ended
    /\ conn \in Clients \cup {NoClient}
    /\ at \in Serving => conn \in Clients
    /\ args \in Seq(Values)
    /\ executed \subseteq [client : Clients, args : Seq(Values)]

QueueTypes ==
    /\ ready \in BOOLEAN
    /\ backlog \in Seq(Clients) /\ Len(backlog) <= Backlog
    /\ merged \in Nat
    /\ listening \in BOOLEAN /\ held \subseteq Clients
    /\ at \notin Ended => listening /\ held = {}

ClientTypes ==
    /\ client \in [Clients -> {"new", "writing", "waiting", "done", "killed"}]
    /\ request \in [Clients -> Seq(Values)]
    /\ sent \in [Clients -> Nat]
    /\ answers \in [Clients -> Nat]
    /\ \A c \in Clients : /\ sent[c] <= Len(request[c])
                          /\ client[c] = "new" => request[c] = <<>>

Types == DaemonTypes /\ QueueTypes /\ ClientTypes

\* Every edge that is not delivered stands for a connection, and so does every
\* one that was merged or wasted.
Counting ==
    /\ at = "setup" => ~ ready
    /\ LeftBehind

\* Fields that a client writes for a command.
FieldCount(command) ==
    IF command \in Texted THEN 3 ELSE IF command \in Named THEN 2 ELSE 1

Reading ==
    /\ at = "read" => ReadsMore(args)
    /\ Len(args) <= 3
    /\ at \in {"run", "reply"} => args # <<>> /\ args[1] # Error
    /\ at = "reply" => args[1] \notin Players

Requests ==
    \A c \in Clients :
      /\ request[c] = <<>> \/ Len(request[c]) = FieldCount(request[c][1])
      /\ client[c] = "waiting" => sent[c] = Len(request[c]) /\ Waits(request[c])

\* The clients whose command has been run.
Served == {e.client : e \in executed}

\* No command of the client was run, or answered.
Untouched(c) == c \notin Served /\ answers[c] = 0

Once ==
    /\ \A i, j \in 1..Len(backlog) : backlog[i] = backlog[j] => i = j
    /\ \A i \in 1..Len(backlog) :
         /\ client[backlog[i]] # "new" /\ Untouched(backlog[i])
         /\ at \in Serving => conn # backlog[i]
    /\ \A c \in Clients : client[c] = "new" => Untouched(c)
    /\ at \in Serving => client[conn] # "new" /\ answers[conn] = 0
    /\ at \in {"read", "run"} => conn \notin Served
    /\ at = "reply" => conn \in Served
    /\ \A c \in Clients : answers[c] <= 1

\* The fields f are those that client c wrote, or stand for those it never will.
AsAsked(c, f) ==
    \A i \in 1..Len(f) :
      \/ i <= sent[c] /\ f[i] = request[c][i]
      \/ i > sent[c] /\ Returned(c) /\ f[i] = Error

\* One run of a command, for the client that asked.
Honest(e) == AsAsked(e.client, e.args) /\ e.args[1] = request[e.client][1]

Faithful ==
    /\ at \in Serving => AsAsked(conn, args)
    /\ \A e \in executed : Honest(e)

Leaving ==
    /\ at \notin Ended =>
         \A c \in Clients :
           client[c] = "done" => ~ Waits(request[c]) \/ answers[c] > 0
    /\ at = "sigpipe" => conn \in Clients
    /\ SigpipeOnlyByLeaving

-----------------------------------------------------------------------------
(* Operators *)

LEMMA StatesDistinct ==
    /\ Serving \cap Ended = {}
    /\ {"setup", "loop"} \cap (Serving \cup Ended) = {}
BY DEF Serving, Ended

\* A command has a field count of its own, whatever server and text go with it.
LEMMA FieldsShape ==
    ASSUME NEW o \in Options, NEW n \in Names
    PROVE  /\ Fields(o, n) \in Seq(Values)
           /\ Fields(o, n)[1] = CommandOf[o]
           /\ Len(Fields(o, n)) = FieldCount(CommandOf[o])
<1> DEFINE command == CommandOf[o]
<1>1. command \in Values /\ n \in Values /\ Text \in Values
  BY DEF Values
<1>2. Texted \subseteq Named
  BY DEF Texted, Named
<1> HIDE DEF command
<1>3. Fields(o, n) = <<command>> \o (IF command \in Named  THEN <<n>> ELSE <<>>)
                                 \o (IF command \in Texted THEN <<Text>> ELSE <<>>)
  BY DEF Fields, command
<1>4. CASE command \in Texted
  BY <1>1, <1>2, <1>3, <1>4 DEF FieldCount, command
<1>5. CASE command \in Named \ Texted
  BY <1>1, <1>2, <1>3, <1>5 DEF FieldCount, command
<1>6. CASE command \notin Named
  BY <1>1, <1>2, <1>3, <1>6 DEF FieldCount, command
<1> QED
  BY <1>4, <1>5, <1>6

\* The callback never reads more than three fields.
LEMMA ReadsAtMostThree ==
    ASSUME NEW f \in Seq(Values), ReadsMore(f)
    PROVE  Len(f) <= 2
<1>1. CASE Len(f) = 0
  BY <1>1
<1>2. CASE Len(f) = 1
  BY <1>2
<1>3. CASE Len(f) = 2
  BY <1>3
<1> QED
  BY <1>1, <1>2, <1>3, Zenon DEF ReadsMore

LEMMA RangeOfQueue ==
    ASSUME backlog \in Seq(Clients)
    PROVE  Queued \subseteq Clients /\ Queued = {backlog[i] : i \in 1..Len(backlog)}
BY DEF Queued, Range

-----------------------------------------------------------------------------
(* Layer 1: domains *)

LEMMA TypesInit == Init => Types
<1> SUFFICES ASSUME Init PROVE Types
  OBVIOUS
<1>1. DaemonTypes
  BY DEF Init, DaemonTypes, Serving, Ended
<1>2. QueueTypes
  <2>1. backlog \in Seq(Clients) /\ Len(backlog) <= Backlog
    BY ConstantsAssumption DEF Init
  <2> QED
    BY <2>1 DEF Init, QueueTypes
<1>3. ClientTypes
  BY DEF Init, ClientTypes
<1> QED
  BY <1>1, <1>2, <1>3 DEF Types

LEMMA EndType ==
    ASSUME Types, NEW how \in Ended, End(how)
    PROVE  /\ at' = how /\ at' \in Ended /\ at' \notin Serving
           /\ listening' \in BOOLEAN /\ held' \subseteq Clients
<1>1. Queued \subseteq Clients
  BY RangeOfQueue DEF Types, QueueTypes
<1> QED
  BY <1>1, StatesDistinct DEF End

\* What an action of the daemon does to the thread's own variables.
LEMMA DaemonTypesStep == Types /\ [Next]_vars => DaemonTypes'
<1> SUFFICES ASSUME Types, [Next]_vars PROVE DaemonTypes'
  OBVIOUS
<1> USE DEF openVars, clientVars
<1>1. CASE UNCHANGED <<at, conn, args, executed>>
  BY <1>1 DEF Types, DaemonTypes
<1>2. CASE EnterLoop
  BY <1>2, StatesDistinct DEF EnterLoop, Types, DaemonTypes
<1>3. CASE Accept
  <2>1. Head(backlog) \in Clients
    BY <1>3 DEF Accept, Types, QueueTypes
  <2> QED
    BY <1>3, <2>1, StatesDistinct DEF Accept, Types, DaemonTypes, Serving
<1>4. CASE Read
  <2>1. conn \in Clients
    BY <1>4 DEF Read, Types, DaemonTypes, Serving
  <2>2. args' \in Seq(Values)
    <3>1. CASE Len(args) < sent[conn] /\ args' = Append(args, request[conn][Len(args) + 1])
      <4>1. /\ Len(args) \in Nat /\ sent[conn] \in Nat /\ sent[conn] <= Len(request[conn])
            /\ request[conn] \in Seq(Values)
        BY <2>1 DEF Types, DaemonTypes, ClientTypes
      <4>2. Len(args) + 1 \in 1..Len(request[conn])
        BY <4>1, <3>1
      <4>3. request[conn][Len(args) + 1] \in Values
        BY <4>1, <4>2
      <4> QED
        BY <3>1, <4>3 DEF Types, DaemonTypes
    <3>2. CASE args' = Append(args, Error)
      BY <3>2 DEF Types, DaemonTypes, Values
    <3> QED
      BY <1>4, <3>1, <3>2 DEF Read
  <2>3. at' \in {"read", "run", "loop"}
    BY <1>4 DEF Read
  <2> QED
    BY <1>4, <2>1, <2>2, <2>3 DEF Read, Types, DaemonTypes, Serving
<1>5. CASE Run
  <2>1. conn \in Clients
    BY <1>5 DEF Run, Types, DaemonTypes, Serving
  <2>2. executed' \subseteq [client : Clients, args : Seq(Values)]
    BY <1>5, <2>1 DEF Run, Types, DaemonTypes
  <2>3. CASE at' \in {"loop", "reply"}
    BY <1>5, <2>1, <2>2, <2>3 DEF Run, Types, DaemonTypes, Serving
  <2>4. CASE End("aborted")
    <3>1. at' \in Ended /\ at' \notin Serving
      BY <2>4, EndType DEF Ended
    <3> QED
      BY <1>5, <2>1, <2>2, <3>1 DEF Run, Types, DaemonTypes
  <2> QED
    BY <1>5, <2>3, <2>4 DEF Run
<1>6. CASE Reply
  <2>1. UNCHANGED <<conn, args, executed>>
    BY <1>6 DEF Reply
  <2>2. CASE at' = "loop"
    BY <2>1, <2>2, StatesDistinct DEF Types, DaemonTypes
  <2>3. CASE End("sigpipe") \/ End("exited")
    <3>1. at' \in Ended /\ at' \notin Serving
      BY <2>3, EndType DEF Ended
    <3> QED
      BY <2>1, <3>1 DEF Types, DaemonTypes
  <2> QED
    BY <1>6, <2>2, <2>3 DEF Reply
<1>7. CASE Die
  <2>1. at' \in Ended /\ at' \notin Serving
    BY <1>7, EndType DEF Die, Ended
  <2> QED
    BY <1>7, <2>1 DEF Die, Types, DaemonTypes
<1> QED
  BY <1>1, <1>2, <1>3, <1>4, <1>5, <1>6, <1>7
     DEF Next, DaemonStep, ClientStep, Quiescent, AcceptFails, ServersExit,
         Connect, Write, Written, Return, Kill, vars

LEMMA QueueTypesStep == Types /\ [Next]_vars => QueueTypes'
<1> SUFFICES ASSUME Types, [Next]_vars PROVE QueueTypes'
  OBVIOUS
<1> USE DEF openVars, clientVars
\* The daemon ends, or goes from one state in which it runs to another.
<1>a. ASSUME NEW how \in Ended, End(how), UNCHANGED <<ready, backlog, merged>>
      PROVE  QueueTypes'
  BY <1>a, EndType DEF Types, QueueTypes
<1>b. ASSUME at \notin Ended, UNCHANGED openVars, ready' \in BOOLEAN, merged' \in Nat,
             backlog' \in Seq(Clients), Len(backlog') <= Backlog
      PROVE  QueueTypes'
  BY <1>b DEF Types, QueueTypes
<1>c. Len(backlog) \in Nat /\ merged \in Nat /\ Backlog \in Nat
  BY ConstantsAssumption DEF Types, QueueTypes
<1>1. CASE UNCHANGED <<at, ready, backlog, merged, listening, held>>
  BY <1>1 DEF Types, QueueTypes
<1>2. CASE EnterLoop
  <2>1. at \notin Ended
    BY <1>2, StatesDistinct DEF EnterLoop
  <2>2. merged' \in Nat
    <3>1. CASE backlog = <<>>
      BY <1>2, <3>1 DEF EnterLoop
    <3>2. CASE backlog # <<>>
      <4>1. Len(backlog) > 0
        BY <3>2 DEF Types, QueueTypes
      <4> QED
        BY <1>2, <1>c, <3>2, <4>1 DEF EnterLoop
    <3> QED
      BY <3>1, <3>2
  <2>3. ready' \in BOOLEAN
    BY <1>2 DEF EnterLoop
  <2>4. backlog' \in Seq(Clients) /\ Len(backlog') <= Backlog /\ UNCHANGED openVars
    BY <1>2 DEF EnterLoop, Types, QueueTypes
  <2> QED
    BY <1>b, <2>1, <2>2, <2>3, <2>4
<1>3. CASE Accept
  <2>1. /\ Tail(backlog) \in Seq(Clients) /\ Len(Tail(backlog)) = Len(backlog) - 1
    BY <1>3 DEF Accept, Types, QueueTypes
  <2>2. Len(backlog') <= Backlog
    BY <1>3, <1>c, <2>1 DEF Accept, Types, QueueTypes
  <2> QED
    BY <1>3, <1>b, <2>1, <2>2, StatesDistinct DEF Accept, Types, QueueTypes
<1>4. CASE AcceptFails
  <2>1. merged' \in Nat /\ at \notin Ended
    BY <1>4, <1>c, StatesDistinct DEF AcceptFails
  <2> QED
    BY <1>4, <1>b, <2>1 DEF AcceptFails, Types, QueueTypes
<1>5. CASE Read
  BY <1>5, <1>b, StatesDistinct DEF Read, Types, QueueTypes, Serving
<1>6. CASE Run
  <2>1. at \notin Ended
    BY <1>6, StatesDistinct DEF Run, Serving
  <2> QED
    BY <1>6, <1>a, <1>b, <2>1 DEF Run, Types, QueueTypes, Ended
<1>7. CASE Reply
  <2>1. at \notin Ended
    BY <1>7, StatesDistinct DEF Reply, Serving
  <2>2. UNCHANGED <<ready, backlog, merged>>
    BY <1>7 DEF Reply
  <2>3. CASE UNCHANGED openVars
    BY <2>1, <2>2, <2>3, <1>b DEF Types, QueueTypes
  <2>4. CASE End("sigpipe") \/ End("exited")
    BY <2>2, <2>4, <1>a DEF Ended
  <2> QED
    BY <1>7, <2>3, <2>4 DEF Reply
<1>8. CASE Die
  BY <1>8, <1>a DEF Die, Ended
<1>9. ASSUME NEW c \in Clients, Connect(c) PROVE QueueTypes'
  <2>1. backlog' = Append(backlog, c) /\ Len(backlog) < Backlog /\ at' = at /\ listening' = listening
    BY <1>9 DEF Connect
  <2>2. backlog' \in Seq(Clients) /\ Len(backlog') = Len(backlog) + 1
    BY <2>1 DEF Types, QueueTypes
  <2>3. Len(backlog') <= Backlog
    BY <1>c, <2>1, <2>2
  <2>4. CASE at \in Ended
    BY <1>9, <2>1, <2>2, <2>3, <2>4 DEF Connect, Types, QueueTypes
  <2>5. CASE at \notin Ended
    <3>1. merged' \in Nat
      BY <1>9, <1>c, <2>5 DEF Connect
    <3>2. ready' \in BOOLEAN /\ held' = held
      BY <1>9, <2>5 DEF Connect
    <3> QED
      BY <1>b, <2>1, <2>2, <2>3, <2>5, <3>1, <3>2
  <2> QED
    BY <2>4, <2>5
<1>10. CASE ServersExit
  <2>1. at' \in Ended /\ held' \subseteq Clients /\ listening' \in BOOLEAN
    BY <1>10 DEF ServersExit, Types, QueueTypes
  <2> QED
    BY <1>10, <2>1 DEF ServersExit, Types, QueueTypes
<1> QED
  BY <1>1, <1>2, <1>3, <1>4, <1>5, <1>6, <1>7, <1>8, <1>9, <1>10
     DEF Next, DaemonStep, ClientStep, Quiescent, Write, Written, Return, Kill, vars

LEMMA ClientTypesStep == Types /\ [Next]_vars => ClientTypes'
<1> SUFFICES ASSUME Types, [Next]_vars PROVE ClientTypes'
  OBVIOUS
<1> USE DEF openVars, clientVars
<1>1. CASE UNCHANGED <<client, request, sent, answers>>
  BY <1>1 DEF Types, ClientTypes
<1>2. CASE Reply
  <2>1. conn \in Clients
    BY <1>2 DEF Reply, Types, DaemonTypes, Serving
  <2>2. answers' \in [Clients -> Nat]
    BY <1>2, <2>1 DEF Reply, Types, ClientTypes
  <2> QED
    BY <1>2, <2>2 DEF Reply, Types, ClientTypes
<1>3. ASSUME NEW c \in Clients, Connect(c) PROVE ClientTypes'
  <2>1. /\ client' = [client EXCEPT ![c] = "writing"] /\ client[c] = "new"
        /\ UNCHANGED <<sent, answers>>
    BY <1>3 DEF Connect
  <2>2. PICK o \in Options, n \in Names :
           \/ request' = [request EXCEPT ![c] = Fields(o, n)]
           \/ request' = request
    BY <1>3 DEF Connect
  <2>3. Fields(o, n) \in Seq(Values)
    BY FieldsShape
  <2>4. request' \in [Clients -> Seq(Values)]
    BY <2>2, <2>3 DEF Types, ClientTypes
  <2>5. sent[c] = 0
    <3>1. request[c] = <<>> /\ sent[c] \in Nat /\ sent[c] <= Len(request[c])
      BY <2>1 DEF Types, ClientTypes
    <3> QED
      BY <3>1
  <2>6. ASSUME NEW d \in Clients
        PROVE  sent'[d] <= Len(request'[d]) /\ (client'[d] = "new" => request'[d] = <<>>)
    <3>1. CASE d = c
      BY <2>1, <2>4, <2>5, <3>1 DEF Types, ClientTypes
    <3>2. CASE d # c
      BY <2>1, <2>2, <3>2 DEF Types, ClientTypes
    <3> QED
      BY <3>1, <3>2
  <2> QED
    BY <2>1, <2>4, <2>6 DEF Types, ClientTypes
<1>4. ASSUME NEW c \in Clients, Write(c) PROVE ClientTypes'
  <2>1. CASE client' = [client EXCEPT ![c] = "killed"] /\ sent' = sent
    BY <1>4, <2>1 DEF Write, Types, ClientTypes
  <2>2. CASE sent' = [sent EXCEPT ![c] = @ + 1] /\ client' = client
    <3>1. sent' \in [Clients -> Nat]
      BY <2>2 DEF Types, ClientTypes
    <3>2. ASSUME NEW d \in Clients PROVE sent'[d] <= Len(request[d])
      <4>1. /\ sent[d] \in Nat /\ Len(request[d]) \in Nat /\ sent[d] <= Len(request[d])
            /\ sent[c] < Len(request[c])
        BY <1>4 DEF Write, Types, ClientTypes
      <4>2. sent'[d] = IF d = c THEN sent[d] + 1 ELSE sent[d]
        BY <2>2 DEF Types, ClientTypes
      <4> QED
        BY <4>1, <4>2
    <3> QED
      BY <1>4, <2>2, <3>1, <3>2 DEF Write, Types, ClientTypes
  <2> QED
    BY <1>4, <2>1, <2>2 DEF Write
<1>5. ASSUME NEW c \in Clients, Written(c) \/ Return(c) \/ Kill(c) PROVE ClientTypes'
  <2>1. /\ client' \in [Clients -> {"new", "writing", "waiting", "done", "killed"}]
        /\ \A d \in Clients : client'[d] = "new" => client[d] = "new"
    BY <1>5 DEF Written, Return, Kill, Types, ClientTypes
  <2> QED
    BY <1>5, <2>1 DEF Written, Return, Kill, Types, ClientTypes
<1> QED
  BY <1>1, <1>2, <1>3, <1>4, <1>5
     DEF Next, DaemonStep, ClientStep, Quiescent, EnterLoop, Accept, AcceptFails,
         Read, Run, Die, ServersExit, vars

LEMMA TypesStep == Types /\ [Next]_vars => Types'
BY DaemonTypesStep, QueueTypesStep, ClientTypesStep DEF Types

-----------------------------------------------------------------------------
(* Layer 2: edges and connections *)

LEMMA CountingInit == Init => Counting
BY DEF Init, Counting, LeftBehind

LEMMA CountingStep == Types /\ Counting /\ [Next]_vars => Counting'
<1> SUFFICES ASSUME Types, Counting, [Next]_vars PROVE Counting'
  OBVIOUS
<1> USE DEF openVars, clientVars
<1>a. Len(backlog) \in Nat /\ merged \in Nat /\ ready \in BOOLEAN
  BY DEF Types, QueueTypes
<1>b. CASE at' \in Ended
  BY <1>b, StatesDistinct DEF Counting, LeftBehind
<1>1. CASE UNCHANGED <<at, ready, backlog, merged>>
  BY <1>1 DEF Counting, LeftBehind
<1>2. CASE EnterLoop
  <2>1. CASE backlog = <<>>
    <3>1. at' = "loop" /\ Len(backlog') = 0 /\ ready' = FALSE /\ merged' = 0
      BY <1>2, <2>1 DEF EnterLoop
    <3> QED
      BY <3>1 DEF Counting, LeftBehind
  <2>2. CASE backlog # <<>>
    <3>1. Len(backlog) > 0
      BY <2>2 DEF Types, QueueTypes
    <3>2. /\ at' = "loop" /\ ready' = TRUE
          /\ merged' = Len(backlog) - 1 /\ Len(backlog') = Len(backlog)
      BY <1>2, <2>2 DEF EnterLoop
    <3> QED
      BY <1>a, <3>1, <3>2 DEF Counting, LeftBehind
  <2> QED
    BY <2>1, <2>2
<1>3. CASE Accept
  <2>1. Len(Tail(backlog)) = Len(backlog) - 1
    BY <1>3 DEF Accept, Types, QueueTypes
  <2>2. Len(backlog) = merged + 1
    BY <1>3, StatesDistinct DEF Accept, Counting, LeftBehind
  <2> QED
    BY <1>3, <1>a, <2>1, <2>2 DEF Accept, Counting, LeftBehind
<1>4. CASE AcceptFails
  BY <1>4, <1>a, StatesDistinct DEF AcceptFails, Counting, LeftBehind
<1>5. CASE /\ at \in Serving /\ at' \in Serving \cup {"loop"}
           /\ UNCHANGED <<ready, backlog, merged>>
  BY <1>5, StatesDistinct DEF Counting, LeftBehind
<1>6. CASE Read
  BY <1>6, <1>5 DEF Read, Serving
<1>7. CASE Run
  BY <1>7, <1>5, <1>b DEF Run, End, Serving, Ended
<1>8. CASE Reply
  <2>1. at' = "loop" \/ at' \in Ended
    BY <1>8 DEF Reply, End, Ended
  <2> QED
    BY <1>8, <2>1, <1>5, <1>b DEF Reply, Serving
<1>9. CASE Die
  BY <1>9, <1>b DEF Die, End, Ended
<1>10. ASSUME NEW c \in Clients, Connect(c), at' \notin Ended PROVE Counting'
  <2>1. /\ at' = at /\ Len(backlog') = Len(backlog) + 1
        /\ ready' = (at # "setup")
        /\ merged' = IF ready THEN merged + 1 ELSE merged
    BY <1>10 DEF Connect, Types, QueueTypes
  <2>2. CASE at = "setup"
    BY <2>1, <2>2 DEF Counting, LeftBehind
  <2>3. CASE at # "setup"
    <3>1. Len(backlog) = merged + (IF ready THEN 1 ELSE 0)
      BY <1>10, <2>1, <2>3 DEF Counting, LeftBehind
    <3>2. ready' = TRUE
      BY <2>1, <2>3
    <3>3. CASE ready
      BY <1>a, <2>1, <2>3, <3>1, <3>2, <3>3 DEF Counting, LeftBehind
    <3>4. CASE ~ ready
      BY <1>a, <2>1, <2>3, <3>1, <3>2, <3>4 DEF Counting, LeftBehind
    <3> QED
      BY <3>3, <3>4
  <2> QED
    BY <2>2, <2>3
<1> QED
  BY <1>1, <1>2, <1>3, <1>4, <1>6, <1>7, <1>8, <1>9, <1>10, <1>b
     DEF Next, DaemonStep, ClientStep, Quiescent, Write, Written, Return, Kill,
         ServersExit, vars

LEMMA CountingFindsOne == Types /\ Counting => AcceptFindsOne
BY StatesDistinct DEF Types, QueueTypes, Counting, LeftBehind, AcceptFindsOne

-----------------------------------------------------------------------------
(* Layer 3: the fields read *)

LEMMA ReadingInit == Init => Reading
BY DEF Init, Reading

LEMMA ReadingStep == Types /\ Reading /\ [Next]_vars => Reading'
<1> SUFFICES ASSUME Types, Reading, [Next]_vars PROVE Reading'
  OBVIOUS
<1> USE DEF openVars, clientVars
<1>1. CASE args' = args /\ (at' = at \/ at' \notin Serving)
  BY <1>1 DEF Reading, ReadsMore, Serving
<1>2. CASE Accept
  BY <1>2 DEF Accept, Reading, ReadsMore
<1>3. CASE Read
  <2>1. args \in Seq(Values) /\ Len(args) <= 2
    BY <1>3, ReadsAtMostThree DEF Read, Reading, Types, DaemonTypes
  <2>2. PICK field : args' = Append(args, field)
    BY <1>3 DEF Read
  <2>3. Len(args') <= 3 /\ args' # <<>>
    BY <2>1, <2>2
  <2>4. at' = "read" => ReadsMore(args')
    BY <1>3 DEF Read
  <2>5. at' = "run" => Runs(args')
    BY <1>3 DEF Read
  <2>6. at' \in {"read", "run", "loop"}
    BY <1>3 DEF Read
  <2>7. at' = "run" => args'[1] # Error
    BY <2>5 DEF Runs
  <2> QED
    BY <2>3, <2>4, <2>6, <2>7 DEF Reading, ReadsMore
<1>4. CASE Run
  <2>1. CASE at' = (IF args[1] \in Players THEN "loop" ELSE "reply")
    BY <1>4, <2>1 DEF Run, Reading
  <2>2. CASE End("aborted")
    BY <1>4, <2>2, <1>1 DEF Run, End, Serving
  <2> QED
    BY <1>4, <2>1, <2>2 DEF Run
<1>5. CASE Reply
  BY <1>5, <1>1 DEF Reply, End, Serving
<1> QED
  BY <1>1, <1>2, <1>3, <1>4, <1>5
     DEF Next, DaemonStep, ClientStep, Quiescent, EnterLoop, AcceptFails, Die, End,
         ServersExit, Connect, Write, Written, Return, Kill, vars, Serving, Ended

-----------------------------------------------------------------------------
(* Layer 4: what the clients have written *)

LEMMA RequestsInit == Init => Requests
BY DEF Init, Requests

LEMMA RequestsStep == Types /\ Requests /\ [Next]_vars => Requests'
<1> SUFFICES ASSUME Types, Requests, [Next]_vars PROVE Requests'
  OBVIOUS
<1> USE DEF openVars, clientVars
<1>1. CASE UNCHANGED clientVars
  BY <1>1 DEF Requests
<1>2. ASSUME NEW c \in Clients, Connect(c) PROVE Requests'
  <2>1. client' = [client EXCEPT ![c] = "writing"] /\ sent' = sent
    BY <1>2 DEF Connect
  <2>2. PICK o \in Options, n \in Names :
           \/ request' = [request EXCEPT ![c] = Fields(o, n)]
           \/ request' = request
    BY <1>2 DEF Connect
  <2>3. Fields(o, n)[1] = CommandOf[o] /\ Len(Fields(o, n)) = FieldCount(CommandOf[o])
    BY FieldsShape
  <2>4. ASSUME NEW d \in Clients, d # c
        PROVE  client'[d] = client[d] /\ request'[d] = request[d]
    BY <2>1, <2>2, <2>4 DEF Types, ClientTypes
  <2>5. client'[c] = "writing" /\ (request'[c] = request[c] \/ request'[c] = Fields(o, n))
    BY <2>1, <2>2 DEF Types, ClientTypes
  <2>6. request'[c] = <<>> \/ Len(request'[c]) = FieldCount(request'[c][1])
    BY <2>3, <2>5 DEF Requests
  <2> QED
    BY <2>1, <2>4, <2>5, <2>6 DEF Requests
<1>3. ASSUME NEW c \in Clients, Write(c) PROVE Requests'
  <2>1. client[c] = "writing" /\ request' = request
    BY <1>3 DEF Write
  <2>2. \A d \in Clients : client'[d] = "waiting" => client[d] = "waiting" /\ sent'[d] = sent[d]
    BY <1>3, <2>1 DEF Write, Types, ClientTypes
  <2> QED
    BY <2>1, <2>2 DEF Requests
<1>4. ASSUME NEW c \in Clients, Written(c) PROVE Requests'
  <2>1. sent[c] = Len(request[c]) /\ UNCHANGED <<request, sent>>
    BY <1>4 DEF Written
  <2>2. \A d \in Clients : client'[d] = "waiting" =>
           client[d] = "waiting" \/ (d = c /\ Waits(request[c]))
    BY <1>4 DEF Written, Types, ClientTypes
  <2> QED
    BY <2>1, <2>2 DEF Requests, Waits
<1>5. ASSUME NEW c \in Clients, Return(c) \/ Kill(c) PROVE Requests'
  <2>1. UNCHANGED <<request, sent>>
    BY <1>5 DEF Return, Kill
  <2>2. \A d \in Clients : client'[d] = "waiting" => client[d] = "waiting"
    BY <1>5 DEF Return, Kill, Types, ClientTypes
  <2> QED
    BY <2>1, <2>2 DEF Requests, Waits
<1> QED
  BY <1>1, <1>2, <1>3, <1>4, <1>5
     DEF Next, DaemonStep, ClientStep, Quiescent, EnterLoop, Accept, AcceptFails, Read,
         Run, Reply, Die, ServersExit, vars

-----------------------------------------------------------------------------
(* Layer 5: once each *)

\* A client that has connected keeps its request, only writes more of it, and
\* writes nothing once it has returned.
LEMMA ClientGoesOn ==
    ASSUME Types, [Next]_vars, NEW c \in Clients, client[c] # "new"
    PROVE  /\ client'[c] # "new" /\ request'[c] = request[c]
           /\ sent[c] <= sent'[c]
           /\ Returned(c) => client'[c] = client[c] /\ sent'[c] = sent[c]
<1> USE DEF openVars, clientVars
<1>a. sent[c] \in Nat
  BY DEF Types, ClientTypes
<1>1. CASE UNCHANGED clientVars
  BY <1>1, <1>a
<1>2. ASSUME NEW d \in Clients, Connect(d)
      PROVE  client'[c] = client[c] /\ request'[c] = request[c] /\ sent'[c] = sent[c]
  <2>1. c # d
    BY <1>2 DEF Connect
  <2> QED
    BY <1>2, <2>1 DEF Connect, Types, ClientTypes
<1>3. ASSUME NEW d \in Clients, ClientStep(d) \/ Kill(d)
      PROVE  /\ client'[c] # "new" /\ request'[c] = request[c]
             /\ sent[c] <= sent'[c]
             /\ Returned(c) => client'[c] = client[c] /\ sent'[c] = sent[c]
  <2>1. CASE c = d
    <3>1. ~ Returned(c) /\ request' = request
      BY <1>3, <2>1 DEF ClientStep, Write, Written, Return, Kill, Returned
    <3>2. client'[c] # "new"
      BY <1>3, <2>1 DEF ClientStep, Write, Written, Return, Kill, Types, ClientTypes
    <3>3. sent'[c] = sent[c] \/ sent'[c] = sent[c] + 1
      BY <1>3, <2>1 DEF ClientStep, Write, Written, Return, Kill, Types, ClientTypes
    <3> QED
      BY <1>a, <3>1, <3>2, <3>3
  <2>2. CASE c # d
    <3>1. client'[c] = client[c] /\ request'[c] = request[c] /\ sent'[c] = sent[c]
      BY <1>3, <2>2 DEF ClientStep, Write, Written, Return, Kill, Types, ClientTypes
    <3> QED
      BY <1>a, <3>1
  <2> QED
    BY <2>1, <2>2
<1> QED
  BY <1>1, <1>2, <1>3, <1>a
     DEF Next, DaemonStep, Quiescent, EnterLoop, Accept, AcceptFails, Read,
         Run, Reply, Die, ServersExit, vars

\* Only connecting makes a new client one that is not.
LEMMA NewStaysNew ==
    ASSUME Types, [Next]_vars, backlog' = backlog, NEW c \in Clients
    PROVE  client'[c] = "new" <=> client[c] = "new"
<1> USE DEF openVars, clientVars
<1>1. CASE client[c] # "new"
  BY <1>1, ClientGoesOn
<1>2. CASE client[c] = "new"
  <2>1. CASE UNCHANGED clientVars
    BY <1>2, <2>1
  <2>2. ASSUME NEW d \in Clients, ClientStep(d) \/ Kill(d) PROVE client'[c] = "new"
    <3>1. c # d
      BY <1>2, <2>2 DEF ClientStep, Write, Written, Return, Kill
    <3> QED
      BY <1>2, <2>2, <3>1 DEF ClientStep, Write, Written, Return, Kill, Types, ClientTypes
  <2>3. ASSUME NEW d \in Clients, Connect(d) PROVE FALSE
    <3>1. Len(backlog') = Len(backlog) + 1 /\ Len(backlog) \in Nat
      BY <2>3 DEF Connect, Types, QueueTypes
    <3> QED
      BY <3>1
  <2> QED
    BY <1>2, <2>1, <2>2, <2>3
       DEF Next, DaemonStep, Quiescent, EnterLoop, Accept, AcceptFails, Read,
           Run, Reply, Die, ServersExit, vars
<1> QED
  BY <1>1, <1>2

LEMMA OnceInit == Init => Once
BY DEF Init, Once, Untouched, Served, Serving

LEMMA OnceStep == Types /\ Once /\ [Next]_vars => Once'
<1> SUFFICES ASSUME Types, Once, [Next]_vars PROVE Once'
  OBVIOUS
<1> USE DEF openVars, clientVars
<1>a. backlog \in Seq(Clients) /\ Len(backlog) \in Nat
  BY DEF Types, QueueTypes
<1>b. \A i \in 1..Len(backlog) : backlog[i] \in Clients
  BY <1>a
<1>1. ASSUME UNCHANGED <<backlog, conn, executed, answers>>,
             at' = at \/ at' \notin Serving \/ (at = "read" /\ at' = "run")
      PROVE  Once'
  <2>1. \A c \in Clients : client'[c] = "new" <=> client[c] = "new"
    BY <1>1, NewStaysNew
  <2>2. at' \in Serving => at \in Serving /\ conn \in Clients
    BY <1>1 DEF Serving, Types, DaemonTypes
  <2>3. (\A c : Untouched(c)' <=> Untouched(c)) /\ Served' = Served
    BY <1>1 DEF Untouched, Served
  <2>4. \A i, j \in 1..Len(backlog') : backlog'[i] = backlog'[j] => i = j
    BY <1>1 DEF Once
  <2>5. \A i \in 1..Len(backlog') :
           /\ client'[backlog'[i]] # "new" /\ Untouched(backlog[i])'
           /\ at' \in Serving => conn' # backlog'[i]
    BY <1>1, <1>b, <2>1, <2>2, <2>3 DEF Once
  <2>6. \A c \in Clients : client'[c] = "new" => Untouched(c)'
    BY <2>1, <2>3 DEF Once
  <2>7. at' \in Serving => client'[conn'] # "new" /\ answers'[conn'] = 0
    BY <1>1, <2>1, <2>2 DEF Once
  <2>8. /\ at' \in {"read", "run"} => conn' \notin Served'
        /\ at' = "reply" => conn' \in Served'
    BY <1>1, <2>3 DEF Once, Serving
  <2>9. \A c \in Clients : answers'[c] <= 1
    BY <1>1 DEF Once
  <2> QED
    BY <2>4, <2>5, <2>6, <2>7, <2>8, <2>9 DEF Once
<1>2. CASE Accept
  <2>1. /\ at' = "read" /\ conn' = backlog[1] /\ 1 \in 1..Len(backlog)
        /\ UNCHANGED <<client, answers, executed>>
    BY <1>2, <1>a DEF Accept
  <2>2. /\ Len(backlog') = Len(backlog) - 1
        /\ \A i \in 1..Len(backlog') : i + 1 \in 1..Len(backlog) /\ backlog'[i] = backlog[i + 1]
    BY <1>2, <1>a DEF Accept
  <2>3. (\A c : Untouched(c)' <=> Untouched(c)) /\ Served' = Served
    BY <2>1 DEF Untouched, Served
  <2>4. ASSUME NEW i \in 1..Len(backlog'), NEW j \in 1..Len(backlog'), backlog'[i] = backlog'[j]
        PROVE  i = j
    <3>1. i + 1 = j + 1
      BY <2>2, <2>4 DEF Once
    <3> QED
      BY <2>2, <3>1, <1>a
  <2>5. ASSUME NEW i \in 1..Len(backlog')
        PROVE  /\ client'[backlog'[i]] # "new" /\ Untouched(backlog[i])'
               /\ conn' # backlog'[i]
    <3>1. i \in Nat /\ i + 1 # 1
      BY <2>2, <1>a
    <3>2. conn' # backlog'[i]
      BY <2>1, <2>2, <3>1 DEF Once
    <3>3. client[backlog[i + 1]] # "new" /\ Untouched(backlog[i + 1])
      BY <2>2 DEF Once
    <3>4. Untouched(backlog[i])'
      BY <2>2, <2>1, <3>3 DEF Untouched, Served
    <3> QED
      BY <2>1, <2>2, <3>2, <3>3, <3>4
  <2>6. client[backlog[1]] # "new" /\ Untouched(backlog[1])
    BY <2>1 DEF Once
  <2>7. client'[conn'] # "new" /\ answers'[conn'] = 0 /\ conn' \notin Served'
    BY <2>1, <2>3, <2>6 DEF Untouched
  <2>8. \A c \in Clients : (client'[c] = "new" => Untouched(c)') /\ answers'[c] <= 1
    BY <2>1, <2>3 DEF Once
  <2> QED
    BY <2>1, <2>4, <2>5, <2>7, <2>8 DEF Once
<1>3. CASE Run
  <2>1. /\ conn \in Clients /\ at = "run" /\ UNCHANGED <<conn, backlog, client, answers>>
        /\ at' = "reply" \/ at' \notin Serving
    BY <1>3 DEF Run, End, Types, DaemonTypes, Serving
  <2>2. Served' = Served \cup {conn}
    <3>1. executed' = executed \cup {[client |-> conn, args |-> args]}
      BY <1>3 DEF Run
    <3> DEFINE run == [client |-> conn, args |-> args]
    <3>2. run.client = conn
      OBVIOUS
    <3> HIDE DEF run
    <3> QED
      BY <3>1, <3>2 DEF Served, run
  <2>3. \A c \in Clients : c # conn => (Untouched(c)' <=> Untouched(c))
    BY <2>1, <2>2 DEF Untouched
  <2>4. client[conn] # "new" /\ answers[conn] = 0 /\ \A i \in 1..Len(backlog) : conn # backlog[i]
    BY <2>1 DEF Once, Serving
  <2>5. \A i \in 1..Len(backlog') :
          /\ client'[backlog'[i]] # "new" /\ Untouched(backlog[i])'
          /\ conn' # backlog'[i]
    BY <1>b, <2>1, <2>3, <2>4 DEF Once
  <2>6. \A c \in Clients : client'[c] = "new" => Untouched(c)'
    BY <2>1, <2>3, <2>4 DEF Once
  <2>7. /\ at' \in Serving => client'[conn'] # "new" /\ answers'[conn'] = 0
        /\ at' \notin {"read", "run"} /\ conn' \in Served'
    BY <2>1, <2>2, <2>4 DEF Serving
  <2> QED
    BY <2>1, <2>5, <2>6, <2>7 DEF Once
<1>4. CASE Reply
  <2>1. /\ conn \in Clients /\ at = "reply" /\ UNCHANGED <<conn, backlog, client, executed>>
        /\ at' \notin Serving
    BY <1>4 DEF Reply, End, Types, DaemonTypes, Serving
  <2>2. /\ answers[conn] = 0 /\ client[conn] # "new" /\ \A i \in 1..Len(backlog) : conn # backlog[i]
    BY <2>1 DEF Once, Serving
  <2>3. \A c \in Clients : c # conn => answers'[c] = answers[c]
    BY <1>4 DEF Reply, Types, ClientTypes
  <2>4. answers'[conn] <= 1
    BY <1>4, <2>1, <2>2 DEF Reply, Types, ClientTypes
  <2>5. \A c \in Clients : c # conn => (Untouched(c)' <=> Untouched(c))
    BY <2>1, <2>3 DEF Untouched, Served
  <2>6. \A i \in 1..Len(backlog') :
          client'[backlog'[i]] # "new" /\ Untouched(backlog[i])'
    BY <1>b, <2>1, <2>2, <2>5 DEF Once
  <2>7. \A c \in Clients : (client'[c] = "new" => Untouched(c)') /\ answers'[c] <= 1
    BY <2>1, <2>2, <2>3, <2>4, <2>5 DEF Once
  <2> QED
    BY <2>1, <2>6, <2>7 DEF Once, Serving
<1>5. ASSUME NEW c \in Clients, Connect(c) PROVE Once'
  <2>1. /\ client[c] = "new" /\ client' = [client EXCEPT ![c] = "writing"]
        /\ backlog' = Append(backlog, c) /\ UNCHANGED <<at, conn, answers, executed>>
    BY <1>5 DEF Connect
  <2>2. Len(backlog') = Len(backlog) + 1
    BY <2>1, <1>a
  <2>3. ASSUME NEW i \in 1..Len(backlog')
        PROVE  \/ i \in 1..Len(backlog) /\ backlog'[i] = backlog[i] /\ backlog'[i] # c
               \/ i = Len(backlog) + 1 /\ backlog'[i] = c
    <3>1. CASE i = Len(backlog) + 1
      BY <2>1, <1>a, <3>1
    <3>2. CASE i # Len(backlog) + 1
      <4>1. i \in 1..Len(backlog)
        BY <1>a, <2>2, <3>2
      <4>2. backlog'[i] = backlog[i]
        BY <1>a, <2>1, <4>1
      <4> QED
        BY <2>1, <4>1, <4>2 DEF Once
    <3> QED
      BY <3>1, <3>2
  <2>4. (\A d : Untouched(d)' <=> Untouched(d)) /\ Served' = Served
    BY <2>1 DEF Untouched, Served
  <2>5. /\ client'[c] # "new" /\ Untouched(c)
        /\ at \in Serving => conn # c
        /\ \A d \in Clients : d # c => client'[d] = client[d]
    BY <2>1 DEF Once, Types, ClientTypes
  <2>6. ASSUME NEW i \in 1..Len(backlog'), NEW j \in 1..Len(backlog'), backlog'[i] = backlog'[j]
        PROVE  i = j
    BY <2>3, <2>6 DEF Once
  <2>7. ASSUME NEW i \in 1..Len(backlog')
        PROVE  /\ client'[backlog'[i]] # "new" /\ Untouched(backlog[i])'
               /\ at' \in Serving => conn' # backlog'[i]
    <3>1. CASE i \in 1..Len(backlog) /\ backlog'[i] = backlog[i] /\ backlog'[i] # c
      <4>1. /\ client[backlog[i]] # "new" /\ Untouched(backlog[i])
            /\ at \in Serving => conn # backlog[i]
        BY <3>1 DEF Once
      <4>2. Untouched(backlog[i])'
        BY <2>1, <3>1, <4>1 DEF Untouched, Served
      <4> QED
        BY <1>b, <2>1, <2>5, <3>1, <4>1, <4>2
    <3>2. CASE backlog'[i] = c
      <4>1. Untouched(backlog[i])'
        BY <2>1, <2>5, <3>2 DEF Untouched, Served
      <4> QED
        BY <2>1, <2>5, <3>2, <4>1
    <3> QED
      BY <2>3, <3>1, <3>2
  <2>9. /\ at' \in Serving => client'[conn'] # "new" /\ answers'[conn'] = 0
        /\ at' \in {"read", "run"} => conn' \notin Served'
        /\ at' = "reply" => conn' \in Served'
    BY <2>1, <2>4, <2>5 DEF Once, Types, DaemonTypes
  <2>10. \A d \in Clients : (client'[d] = "new" => Untouched(d)') /\ answers'[d] <= 1
    BY <2>1, <2>4, <2>5 DEF Once
  <2> QED
    BY <2>6, <2>7, <2>9, <2>10 DEF Once
<1>6. CASE Read
  <2>1. at' = "read" \/ at' = "run" \/ at' \notin Serving
    BY <1>6 DEF Read, Serving
  <2> QED
    BY <1>6, <1>1, <2>1 DEF Read
<1>7. CASE EnterLoop \/ AcceptFails \/ Die \/ ServersExit \/ UNCHANGED vars
  BY <1>7, <1>1 DEF EnterLoop, AcceptFails, Die, ServersExit, End, vars, Serving, Ended
<1>8. ASSUME NEW c \in Clients, ClientStep(c) \/ Kill(c) PROVE Once'
  BY <1>8, <1>1 DEF ClientStep, Write, Written, Return, Kill
<1> QED
  BY <1>2, <1>3, <1>4, <1>5, <1>6, <1>7, <1>8 DEF Next, DaemonStep, Quiescent

-----------------------------------------------------------------------------
(* Layer 6: fields *)

\* What was read from a client stays what that client asked for.
LEMMA StaysAsAsked ==
    ASSUME Types, [Next]_vars, NEW c \in Clients, client[c] # "new",
           NEW f \in Seq(Values), AsAsked(c, f)
    PROVE  AsAsked(c, f)'
<1>1. /\ request'[c] = request[c] /\ sent[c] <= sent'[c]
      /\ Returned(c) => client'[c] = client[c] /\ sent'[c] = sent[c]
  BY ClientGoesOn
<1>2. sent[c] \in Nat /\ sent'[c] \in Nat
  BY TypesStep DEF Types, ClientTypes
<1>3. Returned(c) => Returned(c)'
  BY <1>1 DEF Returned
<1> SUFFICES ASSUME NEW i \in 1..Len(f)
             PROVE  \/ i <= sent'[c] /\ f[i] = request'[c][i]
                    \/ i > sent'[c] /\ Returned(c)' /\ f[i] = Error
  BY DEF AsAsked
<1>4. CASE i <= sent[c] /\ f[i] = request[c][i]
  BY <1>1, <1>2, <1>4
<1>5. CASE i > sent[c] /\ Returned(c) /\ f[i] = Error
  BY <1>1, <1>2, <1>3, <1>5
<1> QED
  BY <1>4, <1>5 DEF AsAsked

LEMMA StaysHonest ==
    ASSUME Types, Once, [Next]_vars, NEW e \in executed, Honest(e)
    PROVE  Honest(e)'
<1>1. e.client \in Clients /\ e.args \in Seq(Values)
  BY DEF Types, DaemonTypes
<1>2. client[e.client] # "new"
  BY <1>1 DEF Once, Untouched, Served
<1>3. AsAsked(e.client, e.args)'
  BY <1>1, <1>2, StaysAsAsked DEF Honest
<1>4. request'[e.client] = request[e.client]
  BY <1>1, <1>2, ClientGoesOn
<1> QED
  BY <1>3, <1>4 DEF Honest

LEMMA FaithfulInit == Init => Faithful
BY DEF Init, Faithful, Serving

LEMMA FaithfulStep == Types /\ Reading /\ Once /\ Faithful /\ [Next]_vars => Faithful'
<1> SUFFICES ASSUME Types, Reading, Once, Faithful, [Next]_vars PROVE Faithful'
  OBVIOUS
<1> USE DEF openVars, clientVars
<1>a. \A e \in executed : Honest(e)
  BY DEF Faithful
<1>b. \A e \in executed : Honest(e)'
  BY <1>a, StaysHonest
<1>c. executed' = executed => \A e \in executed' : Honest(e)'
  BY <1>b
<1>d. ASSUME at \in Serving, UNCHANGED <<conn, args>> PROVE AsAsked(conn, args)'
  <2>1. conn \in Clients /\ client[conn] # "new" /\ args \in Seq(Values)
    BY <1>d DEF Types, DaemonTypes, Once
  <2>2. PICK c \in Clients, f \in Seq(Values) : c = conn /\ f = args
    BY <2>1
  <2>3. AsAsked(c, f)'
    BY <1>d, <2>1, <2>2, StaysAsAsked DEF Faithful
  <2> QED
    BY <1>d, <2>2, <2>3 DEF AsAsked
<1>1. ASSUME UNCHANGED <<conn, args, executed>>, at' = at \/ at' \notin Serving
      PROVE  Faithful'
  BY <1>1, <1>c, <1>d DEF Faithful
<1>2. CASE Accept
  <2>1. args' = <<>> /\ executed' = executed
    BY <1>2 DEF Accept
  <2> QED
    BY <1>c, <2>1 DEF Faithful, AsAsked
<1>3. CASE Read
  <2>1. /\ conn \in Clients /\ conn' = conn /\ at \in Serving
        /\ UNCHANGED <<client, request, sent, executed>>
    BY <1>3 DEF Read, Types, DaemonTypes, Serving
  <2>2. /\ Len(args) \in Nat /\ sent[conn] \in Nat /\ args \in Seq(Values)
        /\ AsAsked(conn, args)
    BY <2>1 DEF Types, DaemonTypes, ClientTypes, Faithful
  <2>3. PICK field : /\ args' = Append(args, field)
                     /\ \/ Len(args) < sent[conn] /\ field = request[conn][Len(args) + 1]
                        \/ Len(args) >= sent[conn] /\ Returned(conn) /\ field = Error
    BY <1>3 DEF Read
  <2>4. Len(args') = Len(args) + 1
    BY <2>2, <2>3
  <2>5. ASSUME NEW i \in 1..Len(args')
        PROVE  \/ i <= sent[conn] /\ args'[i] = request[conn][i]
               \/ i > sent[conn] /\ Returned(conn) /\ args'[i] = Error
    <3>1. CASE i = Len(args) + 1
      <4>1. args'[i] = field
        BY <2>2, <2>3, <3>1
      <4> QED
        BY <2>2, <2>3, <3>1, <4>1
    <3>2. CASE i # Len(args) + 1
      <4>1. i \in 1..Len(args)
        BY <2>2, <2>4, <3>2
      <4>2. args'[i] = args[i]
        BY <2>2, <2>3, <4>1
      <4> QED
        BY <2>2, <4>1, <4>2 DEF AsAsked
    <3> QED
      BY <3>1, <3>2
  <2>6. AsAsked(conn, args)'
    BY <2>1, <2>5 DEF AsAsked, Returned
  <2> QED
    BY <1>c, <2>1, <2>6 DEF Faithful
<1>4. CASE Run
  <2>1. /\ conn \in Clients /\ at \in Serving /\ args \in Seq(Values)
        /\ UNCHANGED <<conn, args, client, request, sent>>
        /\ executed' = executed \cup {[client |-> conn, args |-> args]}
    BY <1>4 DEF Run, Types, DaemonTypes, Serving
  <2>2. AsAsked(conn, args)
    BY <2>1 DEF Faithful
  <2>3. args # <<>> /\ args[1] # Error
    BY <1>4 DEF Run, Reading
  <2>4. args[1] = request[conn][1]
    BY <2>1, <2>2, <2>3 DEF AsAsked
  <2>5. PICK e : e = [client |-> conn, args |-> args]
    OBVIOUS
  <2>6. e.client = conn /\ e.args = args
    BY <2>5
  <2>7. Honest(e)'
    BY <2>1, <2>2, <2>4, <2>6 DEF Honest, AsAsked, Returned
  <2> QED
    BY <1>b, <1>d, <2>1, <2>5, <2>7 DEF Faithful
<1>5. CASE Reply
  <2>1. UNCHANGED <<conn, args, executed>> /\ at' \notin Serving
    BY <1>5 DEF Reply, End, Serving
  <2> QED
    BY <1>1, <2>1
<1> QED
  BY <1>1, <1>2, <1>3, <1>4, <1>5
     DEF Next, DaemonStep, ClientStep, Quiescent, EnterLoop, AcceptFails, Die, End,
         ServersExit, Connect, Write, Written, Return, Kill, vars, Serving, Ended

LEMMA FaithfulExecutes == Faithful => ExecutedAsAsked
BY DEF Faithful, Honest, AsAsked, ExecutedAsAsked

\* The command of the client being served, once it is known.
LEMMA FirstField ==
    ASSUME Types, Faithful, at \in Serving, args # <<>>, args[1] # Error
    PROVE  request[conn] # <<>> /\ args[1] = request[conn][1]
<1>1. /\ Len(args) \in Nat /\ Len(args) > 0 /\ conn \in Clients
      /\ sent[conn] \in Nat /\ sent[conn] <= Len(request[conn])
  BY DEF Types, DaemonTypes, ClientTypes
<1>2. 1 <= sent[conn] /\ args[1] = request[conn][1]
  BY <1>1 DEF Faithful, AsAsked
<1>3. request[conn] # <<>>
  BY <1>1, <1>2
<1> QED
  BY <1>2, <1>3

\* While both wait, the callback would have all the fields it reads.
LEMMA WaitsInTurn == Types /\ Reading /\ Requests /\ Faithful => NoMutualWait
<1> SUFFICES ASSUME Types, Reading, Requests, Faithful, at = "read",
                    args = <<>> \/ args[1] \notin {"updateServer", "updateAll"},
                    client[conn] = "waiting", ~ (Len(args) < sent[conn])
             PROVE  FALSE
  BY DEF NoMutualWait
<1>1. /\ conn \in Clients /\ Len(args) \in Nat /\ args \in Seq(Values)
      /\ sent[conn] \in Nat /\ request[conn] \in Seq(Values)
  BY DEF Types, DaemonTypes, ClientTypes, Serving
<1>2. request[conn] # <<>> /\ sent[conn] = Len(request[conn])
  BY <1>1 DEF Requests, Waits
<1>3. Len(request[conn]) = FieldCount(request[conn][1])
  BY <1>1, <1>2 DEF Requests
<1>4. \A i \in 1..Len(args) : i <= sent[conn] /\ args[i] = request[conn][i]
  BY DEF Faithful, AsAsked, Returned, Serving
<1>5. Len(args) = sent[conn]
  <2>1. CASE Len(args) = 0
    BY <1>1, <2>1
  <2>2. CASE Len(args) > 0
    <3>1. Len(args) \in 1..Len(args)
      BY <1>1, <2>2
    <3> QED
      BY <1>1, <1>4, <3>1
  <2> QED
    BY <1>1, <2>1, <2>2
<1>6. Len(args) = FieldCount(request[conn][1])
  BY <1>2, <1>3, <1>5
<1>7. Len(args) # 0
  BY <1>6 DEF FieldCount
<1>8. args[1] = request[conn][1] /\ args # <<>>
  BY <1>1, <1>4, <1>7
<1>9. ReadsMore(args)
  BY DEF Reading
<1>10. Texted \subseteq Named
  BY DEF Texted, Named
<1>11. \/ Len(args) = 1 /\ args[1] \in Named
       \/ Len(args) = 2 /\ args[1] \in Texted
  BY <1>7, <1>8, <1>9 DEF ReadsMore
<1> QED
  BY <1>6, <1>8, <1>10, <1>11 DEF FieldCount

-----------------------------------------------------------------------------
(* Layer 7: leaving *)

\* The daemon process ends once, and SIGPIPE comes from an answer.
LEMMA EndsOnce ==
    ASSUME Types, [Next]_vars
    PROVE  /\ at \in Ended => at' = at /\ conn' = conn
           /\ at' = "sigpipe" /\ at # "sigpipe" => Reply /\ Returned(conn) /\ conn' = conn
<1> USE DEF openVars, clientVars
<1>1. CASE UNCHANGED <<at, conn>>
  BY <1>1
<1>2. CASE Reply
  <2>1. at \notin Ended
    BY <1>2, StatesDistinct DEF Reply, Serving
  <2>2. ~ Returned(conn) => at' # "sigpipe"
    BY <1>2 DEF Reply, End
  <2>3. conn' = conn
    BY <1>2 DEF Reply
  <2> QED
    BY <1>2, <2>1, <2>2, <2>3
<1>3. CASE at \notin Ended /\ at' # "sigpipe"
  BY <1>3
<1>4. CASE EnterLoop \/ Accept \/ Read \/ Run \/ Die
  BY <1>4, <1>3 DEF EnterLoop, Accept, Read, Run, Die, End, Ended
<1> QED
  BY <1>1, <1>2, <1>4
     DEF Next, DaemonStep, ClientStep, Quiescent, AcceptFails, ServersExit,
         Connect, Write, Written, Return, Kill, vars

\* An answer is never taken back.
LEMMA AnswersGrow ==
    ASSUME Types, [Next]_vars, NEW c \in Clients
    PROVE  answers[c] \in Nat /\ answers'[c] \in Nat /\ answers[c] <= answers'[c]
<1> USE DEF openVars, clientVars
<1>1. answers[c] \in Nat /\ answers'[c] \in Nat
  BY TypesStep DEF Types, ClientTypes
<1>2. answers'[c] = answers[c] \/ answers'[c] = answers[c] + 1
  <2>1. CASE answers' = answers
    BY <2>1
  <2>2. CASE Reply
    BY <2>2 DEF Reply, Types, ClientTypes
  <2> QED
    BY <2>1, <2>2
       DEF Next, DaemonStep, ClientStep, Quiescent, EnterLoop, Accept, AcceptFails, Read,
           Run, Die, ServersExit, Connect, Write, Written, Return, Kill, vars
<1> QED
  BY <1>1, <1>2

LEMMA LeavingInit == Init => Leaving
BY DEF Init, Leaving, SigpipeOnlyByLeaving

LEMMA LeavingStep ==
    Types /\ Reading /\ Requests /\ Once /\ Faithful /\ Leaving /\ [Next]_vars => Leaving'
<1> SUFFICES ASSUME Types, Reading, Requests, Once, Faithful, Leaving, [Next]_vars
             PROVE  Leaving'
  OBVIOUS
<1> USE DEF openVars, clientVars
<1>1. ASSUME at' \notin Ended, NEW c \in Clients, client'[c] = "done"
      PROVE  ~ Waits(request'[c]) \/ answers'[c] > 0
  <2>1. at \notin Ended
    BY <1>1, EndsOnce
  <2>2. CASE client[c] = "done"
    <3>1. ~ Waits(request[c]) \/ answers[c] > 0
      BY <2>1, <2>2 DEF Leaving
    <3>2. request'[c] = request[c]
      BY <2>2, ClientGoesOn
    <3> QED
      BY <3>1, <3>2, AnswersGrow
  <2>3. CASE client[c] # "done"
    <3>1. CASE Written(c)
      BY <1>1, <3>1 DEF Written, Types, ClientTypes
    <3>2. CASE Return(c)
      BY <2>1, <3>2 DEF Return, Abandoned
    <3>3. ASSUME NEW d \in Clients, Connect(d) \/ Write(d) \/ Kill(d) PROVE FALSE
      BY <1>1, <2>3, <3>3 DEF Connect, Write, Kill, Types, ClientTypes
    <3>4. ASSUME NEW d \in Clients, d # c, Written(d) \/ Return(d) PROVE FALSE
      BY <1>1, <2>3, <3>4 DEF Written, Return, Types, ClientTypes
    <3>5. CASE client' = client
      BY <1>1, <2>3, <3>5
    <3> QED
      BY <3>1, <3>2, <3>3, <3>4, <3>5
         DEF Next, DaemonStep, ClientStep, Quiescent, EnterLoop, Accept, AcceptFails,
             Read, Run, Reply, Die, ServersExit, vars
  <2> QED
    BY <2>2, <2>3
<1>2. ASSUME at' = "sigpipe" PROVE conn' \in Clients /\ client'[conn'] = "killed"
  <2>1. CASE at = "sigpipe"
    <3>1. conn' = conn /\ conn \in Clients /\ client[conn] = "killed"
      BY <2>1, EndsOnce DEF Ended, Leaving, SigpipeOnlyByLeaving
    <3> QED
      BY <3>1, ClientGoesOn DEF Returned
  <2>2. CASE at # "sigpipe"
    <3>1. Reply /\ Returned(conn) /\ conn' = conn
      BY <1>2, <2>2, EndsOnce
    <3>2. /\ at = "reply" /\ at \in Serving /\ at \notin Ended /\ conn \in Clients
          /\ client' = client
      BY <3>1, StatesDistinct DEF Reply, Types, DaemonTypes, Serving
    <3>3. args # <<>> /\ args[1] # Error /\ args[1] \notin Players
      BY <3>2 DEF Reading
    <3>4. Waits(request[conn])
      BY <3>2, <3>3, FirstField DEF Waits, Players
    <3>5. answers[conn] = 0
      BY <3>2 DEF Once
    <3>6. client[conn] # "done"
      BY <3>2, <3>4, <3>5 DEF Leaving
    <3> QED
      BY <3>1, <3>2, <3>6 DEF Returned
  <2> QED
    BY <2>1, <2>2
<1> QED
  BY <1>1, <1>2 DEF Leaving, SigpipeOnlyByLeaving

-----------------------------------------------------------------------------
(* The inductive invariant, and what follows from it *)

Inv == Types /\ Counting /\ Reading /\ Requests /\ Once /\ Faithful /\ Leaving

\* All seven layers hold in every reachable state.
THEOREM SocketInvariant == Spec => []Inv
<1>1. Init => Inv
  BY TypesInit, CountingInit, ReadingInit, RequestsInit, OnceInit, FaithfulInit,
     LeavingInit DEF Inv
<1>2. Inv /\ [Next]_vars => Inv'
  BY TypesStep, CountingStep, ReadingStep, RequestsStep, OnceStep, FaithfulStep,
     LeavingStep DEF Inv
<1> QED
  BY <1>1, <1>2, PTL DEF Spec

\* Every variable stays in its domain; no command has more than three fields,
\* the queue of the listening socket never overflows, and nobody is answered
\* twice.
THEOREM SocketTypes == Spec => []TypeOK
<1>1. Inv => TypeOK
  <2> SUFFICES ASSUME Inv PROVE TypeOK
    OBVIOUS
  <2>1. at \in {"setup", "loop", "read", "run", "reply"} \cup Ended
    BY DEF Inv, Types, DaemonTypes, Serving
  <2>2. \A c \in Clients : sent[c] \in 0..Len(request[c]) /\ answers[c] \in 0..1
    <3> TAKE c \in Clients
    <3>1. /\ sent[c] \in Nat /\ request[c] \in Seq(Values) /\ sent[c] <= Len(request[c])
          /\ answers[c] \in Nat /\ answers[c] <= 1
      BY DEF Inv, Types, ClientTypes, Once
    <3> QED
      BY <3>1
  <2> QED
    BY <2>1, <2>2 DEF Inv, Types, DaemonTypes, QueueTypes, ClientTypes, Reading, TypeOK
<1> QED
  BY <1>1, SocketInvariant, PTL

\* The event callback, which does not look at what accept() returns, is only
\* entered when there is a connection to accept.
THEOREM EdgesFindConnections == Spec => []AcceptFindsOne
<1>1. Inv => AcceptFindsOne
  BY CountingFindsOne DEF Inv
<1> QED
  BY <1>1, SocketInvariant, PTL

\* Every edge that was merged, or lost to a failed accept(), leaves exactly one
\* connection in the queue for good.
THEOREM MergedEdgesLeaveBehind == Spec => []LeftBehind
<1>1. Inv => LeftBehind
  BY DEF Inv, Counting
<1> QED
  BY <1>1, SocketInvariant, PTL

\* The callback and the client it serves never wait for each other, but for the
\* version of the update commands.
THEOREM NobodyWaitsInCircles == Spec => []NoMutualWait
<1>1. Inv => NoMutualWait
  BY WaitsInTurn DEF Inv
<1> QED
  BY <1>1, SocketInvariant, PTL

\* An answer raises SIGPIPE only if the client was interrupted.
THEOREM SigpipeNeedsInterrupt == Spec => []SigpipeOnlyByLeaving
<1>1. Inv => SigpipeOnlyByLeaving
  BY DEF Inv, Leaving
<1> QED
  BY <1>1, SocketInvariant, PTL

\* Every command that was run is one its client asked for, on the server and
\* with the text that the client named.
THEOREM RunsWhatWasAsked == Spec => []ExecutedAsAsked
<1>1. Inv => ExecutedAsAsked
  BY FaithfulExecutes DEF Inv
<1> QED
  BY <1>1, SocketInvariant, PTL

-----------------------------------------------------------------------------
(* The abstract service *)

LEMMA StatusIs ==
    ASSUME NEW c \in Clients
    PROVE  StatusOf(c) = IF client[c] = "new" THEN "silent"
                         ELSE IF answers[c] > 0 THEN "answered"
                         ELSE IF c \in Served THEN "executed" ELSE "asked"
BY DEF StatusOf, Served

\* The status of one client goes on and the others' stay: a step of the service.
LEMMA OneGoesOn ==
    ASSUME NEW c \in Clients,
           \A d \in Clients \ {c} : StatusOf(d)' = StatusOf(d),
           \/ StatusOf(c) = "silent" /\ StatusOf(c)' = "asked"
           \/ StatusOf(c) = "asked" /\ StatusOf(c)' = "executed"
           \/ StatusOf(c) = "executed" /\ StatusOf(c)' = "answered"
           \/ StatusOf(c)' = StatusOf(c)
    PROVE  [Service!Next]_([d \in Clients |-> StatusOf(d)])
<1> DEFINE status == [d \in Clients |-> StatusOf(d)]
<1>1. status' = [d \in Clients |-> StatusOf(d)']
  OBVIOUS
<1>2. status' = [status EXCEPT ![c] = StatusOf(c)']
  BY <1>1
<1>3. status[c] = StatusOf(c)
  OBVIOUS
<1> HIDE DEF status
<1>4. CASE StatusOf(c) = "silent" /\ StatusOf(c)' = "asked"
  BY <1>2, <1>3, <1>4 DEF Service!Next, Service!Ask, Service!Move, status
<1>5. CASE StatusOf(c) = "asked" /\ StatusOf(c)' = "executed"
  BY <1>2, <1>3, <1>5 DEF Service!Next, Service!Execute, Service!Move, status
<1>6. CASE StatusOf(c) = "executed" /\ StatusOf(c)' = "answered"
  BY <1>2, <1>3, <1>6 DEF Service!Next, Service!Answer, Service!Move, status
<1>7. CASE StatusOf(c)' = StatusOf(c)
  BY <1>1, <1>7 DEF status
<1> QED
  BY <1>4, <1>5, <1>6, <1>7

LEMMA ServiceStep ==
    Types /\ Once /\ [Next]_vars => [Service!Next]_([c \in Clients |-> StatusOf(c)])
<1> SUFFICES ASSUME Types, Once, [Next]_vars
             PROVE  [Service!Next]_([c \in Clients |-> StatusOf(c)])
  OBVIOUS
<1> USE DEF openVars, clientVars
<1>1. CASE UNCHANGED <<backlog, answers, executed>>
      \/ (UNCHANGED <<answers, executed>> /\ client' = client)
  <2>1. \A c \in Clients : client'[c] = "new" <=> client[c] = "new"
    BY <1>1, NewStaysNew
  <2>2. \A c \in Clients : StatusOf(c)' = StatusOf(c)
    BY <1>1, <2>1 DEF StatusOf
  <2> QED
    BY <2>2
<1>2. CASE Run
  <2>1. PICK c \in Clients : c = conn
    BY <1>2 DEF Run, Types, DaemonTypes, Serving
  <2>2. PICK e : e = [client |-> c, args |-> args]
    OBVIOUS
  <2>3. e.client = c /\ executed' = executed \cup {e} /\ UNCHANGED <<client, answers>>
    BY <1>2, <2>1, <2>2 DEF Run
  <2>4. client[c] # "new" /\ answers[c] = 0 /\ c \notin Served
    BY <1>2, <2>1 DEF Run, Once, Serving
  <2>5. StatusOf(c) = "asked"
    BY <2>4, StatusIs
  <2>6. StatusOf(c)' = "executed"
    BY <2>3, <2>4 DEF StatusOf
  <2>7. \A d \in Clients \ {c} : StatusOf(d)' = StatusOf(d)
    BY <2>3 DEF StatusOf
  <2> QED
    BY <2>5, <2>6, <2>7, OneGoesOn
<1>3. CASE Reply
  <2>1. PICK c \in Clients : c = conn
    BY <1>3 DEF Reply, Types, DaemonTypes, Serving
  <2>2. UNCHANGED <<client, executed>> /\ \A d \in Clients \ {c} : answers'[d] = answers[d]
    BY <1>3, <2>1 DEF Reply, Types, ClientTypes
  <2>3. client[c] # "new" /\ answers[c] = 0 /\ c \in Served
    BY <1>3, <2>1 DEF Reply, Once, Serving
  <2>4. StatusOf(c) = "executed"
    BY <2>3, StatusIs
  <2>5. answers'[c] = 0 \/ answers'[c] = 1
    BY <1>3, <2>1, <2>3 DEF Reply, Types, ClientTypes
  <2>6. StatusOf(c)' = "executed" \/ StatusOf(c)' = "answered"
    BY <2>2, <2>3, <2>5 DEF StatusOf, Served
  <2>7. \A d \in Clients \ {c} : StatusOf(d)' = StatusOf(d)
    BY <2>2 DEF StatusOf
  <2> QED
    BY <2>4, <2>6, <2>7, OneGoesOn
<1>4. ASSUME NEW c \in Clients, Connect(c)
      PROVE  [Service!Next]_([d \in Clients |-> StatusOf(d)])
  <2>1. /\ client[c] = "new" /\ client' = [client EXCEPT ![c] = "writing"]
        /\ UNCHANGED <<answers, executed>>
    BY <1>4 DEF Connect
  <2>2. Untouched(c)
    BY <2>1 DEF Once
  <2>3. client'[c] = "writing" /\ \A d \in Clients \ {c} : client'[d] = client[d]
    BY <2>1 DEF Types, ClientTypes
  <2>4. StatusOf(c) = "silent" /\ StatusOf(c)' = "asked"
    BY <2>1, <2>2, <2>3 DEF StatusOf, Untouched, Served
  <2>5. \A d \in Clients \ {c} : StatusOf(d)' = StatusOf(d)
    BY <2>1, <2>3 DEF StatusOf
  <2> QED
    BY <2>4, <2>5, OneGoesOn
<1> QED
  BY <1>1, <1>2, <1>3, <1>4
     DEF Next, DaemonStep, ClientStep, Quiescent, EnterLoop, Accept, AcceptFails, Read,
         Die, ServersExit, Write, Written, Return, Kill, vars

\* A client's command is run at most once, after it asked and before it is told:
\* the control socket implements CommandService.
THEOREM ServiceImplemented == Spec => ImplementsService
<1>1. Init => Service!Init
  <2> SUFFICES ASSUME Init PROVE Service!Init
    OBVIOUS
  <2>1. \A c \in Clients : StatusOf(c) = "silent"
    BY DEF Init, StatusOf
  <2> QED
    BY <2>1 DEF Service!Init
<1>2. Inv => Types /\ Once
  BY DEF Inv
<1> QED
  BY <1>1, <1>2, SocketInvariant, ServiceStep, PTL
     DEF Spec, ImplementsService, Service!Spec
=============================================================================
