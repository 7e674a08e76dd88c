----------------------------- MODULE DaemonProofs -----------------------------
(***************************************************************************)
(* Theorems about Daemon, for any servers, clients, options and faults.    *)
(*                                                                         *)
(* The parts are proved already: ServerLifecycleProofs and                 *)
(* ControlSocketProofs are instantiated as Daemon instantiates the modules *)
(* they are about, and their invariants, LifeInv and SocketInv, hold of a  *)
(* daemon because each of its steps is a step of either part, or leaves it *)
(* alone.  What is new here is Glue: how the two parts hang together.      *)
(***************************************************************************)
EXTENDS Daemon, TLAPS

\* The parts, with their theorems.
LP ==
    INSTANCE ServerLifecycleProofs WITH
      MaxRuns <- 1,
      Faults  <- (Faults \ {"kill", "emfile"}) \cup {"hangup"}

SP ==
    INSTANCE ControlSocketProofs WITH
      Known   <- {Name[s] : s \in Servers},
      Vanilla <- {Name[s] : s \in {t \in Servers : Class[t].type = "VANILLA"}},
      Faults  <- (Faults \cap {"kill", "emfile"}) \cup {"die"}

\* The constants of the daemon are such as the theorems of its parts assume.
LEMMA PartsAssumptions == LP!ConstantsAssumption /\ SP!ConstantsAssumption
<1>1. LP!ConstantsAssumption
  <2>1. LP!ServerClasses = ServerClasses
    BY DEF LP!ServerClasses, LP!GameServer, LP!VanillaServer, LP!BukkitServer,
           LP!SpigotServer, LP!BungeeCordServer, LP!GenericServer, LP!ForgeServer,
           ServerClasses, GameServer, VanillaServer, BukkitServer, SpigotServer,
           BungeeCordServer, GenericServer, ForgeServer
  <2> QED
    BY <2>1, ConstantsAssumption DEF LP!ConstantsAssumption, LP!Servers, Servers
<1>2. SP!CommandOf = Socket!CommandOf
  BY DEF SP!CommandOf, Socket!CommandOf
<1>3. SP!ConstantsAssumption
  BY <1>2, ConstantsAssumption DEF SP!ConstantsAssumption, Servers
<1> QED
  BY <1>1, <1>3

LEMMA InitAlike == Init => LP!Init /\ SP!Init
BY DEF Init, Life!Init, LP!Init, Life!Servers, LP!Servers, Socket!Init, SP!Init


-----------------------------------------------------------------------------
(* The steps of the parts, here and in their proofs *)

LEMMA DaemonStepAlike == Life!DaemonStep => LP!DaemonStep
<1> USE DEF Life!Servers, LP!Servers, Life!processVars, LP!processVars,
            Life!historyVars, LP!historyVars
<1>1. Life!Construct => LP!Construct
  BY DEF Life!Construct, LP!Construct
<1>2. Life!ConstructFails => LP!ConstructFails
  BY DEF Life!ConstructFails, LP!ConstructFails, Life!Die, LP!Die,
         Life!OwnersAfterReap, LP!OwnersAfterReap
<1>3. Life!NextServer => LP!NextServer
  BY DEF Life!NextServer, LP!NextServer, Life!ForEach, LP!ForEach, Life!Entry,
         LP!Entry, Life!Starting, LP!Starting, Life!Stopping, LP!Stopping,
         Life!Updating, LP!Updating, Life!Restarting, LP!Restarting, Life!BackingUp,
         LP!BackingUp, Life!Listing, LP!Listing
<1>4. Life!LoopEnds => LP!LoopEnds
  BY DEF Life!LoopEnds, LP!LoopEnds, Life!ForEach, LP!ForEach, Life!Silent, LP!Silent,
         Life!Listing, LP!Listing
<1>5. Life!Reply => LP!Reply
  BY DEF Life!Reply, LP!Reply
<1>6. Life!Exit0 => LP!Exit0
  BY DEF Life!Exit0, LP!Exit0, Life!Die, LP!Die, Life!OwnersAfterReap,
         LP!OwnersAfterReap
<1>7. Life!ReplyHangup => LP!ReplyHangup
  BY DEF Life!ReplyHangup, LP!ReplyHangup, Life!Die, LP!Die, Life!OwnersAfterReap,
         LP!OwnersAfterReap
<1>8. Life!StartCheck => LP!StartCheck
  BY DEF Life!StartCheck, LP!StartCheck, Life!Running, LP!Running, Life!Reaped,
         LP!Reaped, Life!ReapFor, LP!ReapFor, Life!OwnersAfterReap, LP!OwnersAfterReap
<1>9. \A p \in Pids : Life!Launch(p) => LP!Launch(p)
  BY DEF Life!Launch, LP!Launch, Life!Allocatable, LP!Allocatable, Life!Dangling,
         LP!Dangling
<1>10. Life!ForkFails => LP!ForkFails
  BY DEF Life!ForkFails, LP!ForkFails
<1>11. Life!PipeFails => LP!PipeFails
  BY DEF Life!PipeFails, LP!PipeFails, Life!Die, LP!Die, Life!OwnersAfterReap,
         LP!OwnersAfterReap
<1>12. Life!AccountMissing => LP!AccountMissing
  BY DEF Life!AccountMissing, LP!AccountMissing, Life!Die, LP!Die,
         Life!OwnersAfterReap, LP!OwnersAfterReap
<1>13. Life!BrokenPipe => LP!BrokenPipe
  BY DEF Life!BrokenPipe, LP!BrokenPipe, Life!Writing, LP!Writing, Life!Die, LP!Die,
         Life!OwnersAfterReap, LP!OwnersAfterReap
<1>14. Life!StopCheck => LP!StopCheck
  BY DEF Life!StopCheck, LP!StopCheck, Life!Running, LP!Running, Life!Reaped,
         LP!Reaped, Life!AfterStop, LP!AfterStop, Life!Restarting, LP!Restarting,
         Life!Updating, LP!Updating, Life!ReapFor, LP!ReapFor, Life!OwnersAfterReap,
         LP!OwnersAfterReap
<1>15. Life!CountDown => LP!CountDown
  BY DEF Life!CountDown, LP!CountDown, Life!Write, LP!Write
<1>16. Life!Halt => LP!Halt
  BY DEF Life!Halt, LP!Halt, Life!Write, LP!Write, Life!Reader, LP!Reader
<1>17. Life!Poll => LP!Poll
  BY DEF Life!Poll, LP!Poll, Life!Running, LP!Running, Life!Reaped, LP!Reaped,
         Life!AfterStop, LP!AfterStop, Life!Restarting, LP!Restarting, Life!Updating,
         LP!Updating, Life!ReapFor, LP!ReapFor, Life!OwnersAfterReap,
         LP!OwnersAfterReap
<1>18. Life!RestartCheck => LP!RestartCheck
  BY DEF Life!RestartCheck, LP!RestartCheck, Life!Running, LP!Running, Life!Reaped,
         LP!Reaped, Life!ReapFor, LP!ReapFor, Life!OwnersAfterReap, LP!OwnersAfterReap
<1>19. Life!SendCheck => LP!SendCheck
  BY DEF Life!SendCheck, LP!SendCheck, Life!Running, LP!Running, Life!Reaped,
         LP!Reaped, Life!ReapFor, LP!ReapFor, Life!OwnersAfterReap, LP!OwnersAfterReap
<1>20. Life!Send => LP!Send
  BY DEF Life!Send, LP!Send, Life!Write, LP!Write
<1>21. Life!BackupBegins => LP!BackupBegins
  BY DEF Life!BackupBegins, LP!BackupBegins, Life!Write, LP!Write, Life!Reader,
         LP!Reader
<1>22. Life!BackupEnds => LP!BackupEnds
  BY DEF Life!BackupEnds, LP!BackupEnds, Life!Write, LP!Write, Life!Reader, LP!Reader
<1>23. Life!ListThrows => LP!ListThrows
  BY DEF Life!ListThrows, LP!ListThrows, Life!Die, LP!Die, Life!OwnersAfterReap,
         LP!OwnersAfterReap
<1>24. Life!ListUndefined => LP!ListUndefined
  BY DEF Life!ListUndefined, LP!ListUndefined, Life!Die, LP!Die, Life!OwnersAfterReap,
         LP!OwnersAfterReap
<1>25. Life!HandlerEnds => LP!HandlerEnds
  BY DEF Life!HandlerEnds, LP!HandlerEnds, Life!Children, LP!Children, Life!Die,
         LP!Die, Life!OwnersAfterReap, LP!OwnersAfterReap
<1> QED
  BY <1>1, <1>2, <1>3, <1>4, <1>5, <1>6, <1>7, <1>8, <1>9, <1>10, <1>11, <1>12,
     <1>13, <1>14, <1>15, <1>16, <1>17, <1>18, <1>19, <1>20, <1>21, <1>22, <1>23,
     <1>24, <1>25
     DEF Life!DaemonStep, LP!DaemonStep

LEMMA ReceiveAlike == Life!Receive => LP!Receive
<1> USE DEF Life!Servers, LP!Servers, Life!processVars, LP!processVars,
            Life!historyVars, LP!historyVars
<1>1. Life!ReceiveSingle => LP!ReceiveSingle
  BY DEF Life!ReceiveSingle, LP!ReceiveSingle, Life!Single, LP!Single, Life!First,
         LP!First, Life!Matches, LP!Matches, Life!Updating, LP!Updating, Life!Begin,
         LP!Begin, Life!Entry, LP!Entry, Life!Starting, LP!Starting, Life!Stopping,
         LP!Stopping, Life!Restarting, LP!Restarting, Life!BackingUp, LP!BackingUp,
         Life!Listing, LP!Listing
<1>2. Life!ReceiveForEach => LP!ReceiveForEach
  BY DEF Life!ReceiveForEach, LP!ReceiveForEach, Life!ForEach, LP!ForEach, Life!Begin,
         LP!Begin, Life!Entry, LP!Entry, Life!Starting, LP!Starting, Life!Stopping,
         LP!Stopping, Life!Updating, LP!Updating, Life!Restarting, LP!Restarting,
         Life!BackingUp, LP!BackingUp, Life!Listing, LP!Listing
<1>3. Life!ReceiveUpdateAll => LP!ReceiveUpdateAll
  BY DEF Life!ReceiveUpdateAll, LP!ReceiveUpdateAll, Life!First, LP!First,
         Life!Matches, LP!Matches, Life!Updating, LP!Updating, Life!Begin, LP!Begin
<1>4. Life!ReceiveList => LP!ReceiveList
  BY DEF Life!ReceiveList, LP!ReceiveList, Life!Begin, LP!Begin
<1> QED
  BY <1>1, <1>2, <1>3, <1>4 DEF Life!Receive, LP!Receive

LEMMA ExitAlike ==
    \A p \in Pids : /\ Life!HonourStop(p) => LP!HonourStop(p)
                    /\ Life!ExitAlone(p) => LP!ExitAlone(p)
  BY DEF Life!HonourStop, LP!HonourStop, Life!Exit, LP!Exit, Life!Servers, LP!Servers,
         Life!ExitAlone, LP!ExitAlone

LEMMA SocketAlike == Socket!Next => SP!Next
<1> USE DEF Socket!clientVars, SP!clientVars, Socket!openVars, SP!openVars
<1>1. Socket!EnterLoop => SP!EnterLoop
  BY DEF Socket!EnterLoop, SP!EnterLoop
<1>2. Socket!Accept => SP!Accept
  BY DEF Socket!Accept, SP!Accept
<1>3. Socket!AcceptFails => SP!AcceptFails
  BY DEF Socket!AcceptFails, SP!AcceptFails
<1>4. Socket!Read => SP!Read
  BY DEF Socket!Read, SP!Read, Socket!Returned, SP!Returned, Socket!Error, SP!Error,
         Socket!ReadsMore, SP!ReadsMore, Socket!Named, SP!Named, Socket!Texted,
         SP!Texted, Socket!Runs, SP!Runs
<1>5. Socket!Run => SP!Run
  BY DEF Socket!Run, SP!Run, Socket!Players, SP!Players, Socket!End, SP!End,
         Socket!Queued, SP!Queued, Socket!Range, SP!Range
<1>6. Socket!Reply => SP!Reply
  BY DEF Socket!Reply, SP!Reply, Socket!Returned, SP!Returned, Socket!End, SP!End,
         Socket!Queued, SP!Queued, Socket!Range, SP!Range
<1>7. Socket!Die => SP!Die
  BY DEF Socket!Die, SP!Die, Socket!Ended, SP!Ended, Socket!End, SP!End,
         Socket!Queued, SP!Queued, Socket!Range, SP!Range
<1>8. Socket!ServersExit => SP!ServersExit
  BY DEF Socket!ServersExit, SP!ServersExit, Socket!Ended, SP!Ended, Socket!Queued,
         SP!Queued, Socket!Range, SP!Range
<1>9. Socket!Quiescent => SP!Quiescent
  BY DEF Socket!Quiescent, SP!Quiescent, Socket!Ended, SP!Ended, Socket!Returned,
         SP!Returned, Socket!vars, SP!vars
<1>10. \A c \in Clients : Socket!Connect(c) => SP!Connect(c)
  BY DEF Socket!Connect, SP!Connect, Socket!Returned, SP!Returned, Socket!Fields,
         SP!Fields, Socket!CommandOf, SP!CommandOf, Socket!Named, SP!Named,
         Socket!Texted, SP!Texted, Socket!Text, SP!Text, Socket!Ended, SP!Ended
<1>11. \A c \in Clients : Socket!Write(c) => SP!Write(c)
  BY DEF Socket!Write, SP!Write, Socket!Abandoned, SP!Abandoned, Socket!Ended,
         SP!Ended
<1>12. \A c \in Clients : Socket!Written(c) => SP!Written(c)
  BY DEF Socket!Written, SP!Written, Socket!Waits, SP!Waits
<1>13. \A c \in Clients : Socket!Return(c) => SP!Return(c)
  BY DEF Socket!Return, SP!Return, Socket!Abandoned, SP!Abandoned, Socket!Ended,
         SP!Ended
<1>14. \A c \in Clients : Socket!Kill(c) => SP!Kill(c)
  BY DEF Socket!Kill, SP!Kill
<1> QED
  BY <1>1, <1>2, <1>3, <1>4, <1>5, <1>6, <1>7, <1>8, <1>9, <1>10, <1>11, <1>12,
     <1>13, <1>14
     DEF Socket!Next, SP!Next, Socket!DaemonStep, SP!DaemonStep,
         Socket!ClientStep, SP!ClientStep

-----------------------------------------------------------------------------
(* The daemon takes the steps of its parts *)

LEMMA LifeVars == UNCHANGED lifeVars <=> UNCHANGED Life!vars /\ UNCHANGED LP!vars
BY DEF lifeVars, Life!vars, LP!vars

LEMMA SocketVars == UNCHANGED socketVars <=> UNCHANGED Socket!vars /\ UNCHANGED SP!vars
BY DEF socketVars, Socket!vars, SP!vars

\* What a step of the daemon is to its servers.
LEMMA LifeStep ==
    [Next]_vars =>
      \/ Life!DaemonStep \/ Life!Receive
      \/ \E p \in Pids : Life!HonourStop(p) \/ Life!ExitAlone(p)
      \/ UNCHANGED lifeVars
<1> SUFFICES ASSUME [Next]_vars
             PROVE  \/ Life!DaemonStep \/ Life!Receive
                    \/ \E p \in Pids : Life!HonourStop(p) \/ Life!ExitAlone(p)
                    \/ UNCHANGED lifeVars
  OBVIOUS
<1>1. CASE MainThread
  <2>1. Life!LoopEnds \/ Life!Reply \/ Life!Exit0 \/ Life!ReplyHangup => Life!DaemonStep
    BY DEF Life!DaemonStep
  <2> QED
    BY <1>1, <2>1 DEF MainThread, Work, EnterLoop, Serve, Execute, Finish, Answer, DaemonEnds
<1>2. CASE \E c \in Clients : ClientStep(c)
  BY <1>2 DEF ClientStep
<1>3. CASE ComeAndGo \/ Quiescent
  BY <1>3 DEF ComeAndGo, Quiescent
<1>4. CASE \E p \in Pids : HonourStop(p) \/ ExitsAlone(p)
  BY <1>4 DEF HonourStop, ExitsAlone
<1>5. CASE UNCHANGED vars
  BY <1>5 DEF vars
<1> QED
  BY <1>1, <1>2, <1>3, <1>4, <1>5 DEF Next

\* So it is a step of ServerLifecycle,
LEMMA LifeStepHere == [Next]_vars => [Life!Next]_(Life!vars)
BY LifeStep, LifeVars DEF Life!Next, Life!Environment

\* also as its theorems know it.
LEMMA LifeStepThere == [Next]_vars => [LP!Next]_(LP!vars)
BY LifeStep, LifeVars, DaemonStepAlike, ReceiveAlike, ExitAlike
   DEF LP!Next, LP!Environment

-----------------------------------------------------------------------------
(* The servers of a daemon *)

LifeInv ==
    /\ LP!TypeOK /\ LP!NoLost /\ LP!StopInv /\ LP!PipeInv /\ LP!ReadonlyInv
    /\ LP!KnownPids /\ LP!HaltingWaited
    /\ LP!GuardHolds /\ LP!WritePlace /\ LP!SigpipeOnlyFromBackup

LEMMA LifeInvInit == Init => LifeInv
BY InitAlike, PartsAssumptions, LP!TypeInit
   DEF LifeInv, LP!Init, LP!NoLost, LP!NoLostChild, LP!LaunchClear, LP!Children,
       LP!StopInv, LP!StopPlace, LP!StopProgress, LP!StopPlaces, LP!Stopping,
       LP!PipeInv, LP!ReadonlyInv, LP!ReadonlyOnlyInBackup, LP!KnownPids,
       LP!HaltingWaited, LP!GuardHolds, LP!WritePlace, LP!SigpipeOnlyFromBackup

LEMMA LifeInvStep == LifeInv /\ [Next]_vars => LifeInv'
<1> SUFFICES ASSUME LifeInv, [Next]_vars PROVE LifeInv'
  OBVIOUS
<1> USE PartsAssumptions
<1>1. [LP!Next]_(LP!vars)
  BY LifeStepThere
<1>2. LP!TypeOK'
  BY <1>1, LP!TypeStep DEF LifeInv
<1>3. LP!NoLost'
  BY <1>1, <1>2, LP!NoLostStep DEF LifeInv
<1>4. LP!StopInv'
  BY <1>1, LP!StopStep DEF LifeInv, LP!NoLost
<1>5. LP!PipeInv'
  BY <1>1, <1>2, LP!PipeStep DEF LifeInv
<1>6. LP!ReadonlyInv' /\ LP!KnownPids' /\ LP!HaltingWaited'
  BY <1>1, <1>2, LP!ReadonlyStep, LP!KnownPidsStep, LP!HaltingStep DEF LifeInv, LP!NoLost
<1>7. LP!GuardHolds'
  BY <1>1, <1>2, <1>5, LP!GuardStep DEF LifeInv
<1>8. LP!WritePlace' /\ LP!SigpipeOnlyFromBackup'
  BY <1>1, LP!SigpipeStep DEF LifeInv
<1> QED
  BY <1>2, <1>3, <1>4, <1>5, <1>6, <1>7, <1>8 DEF LifeInv

-----------------------------------------------------------------------------
(* The main thread in mid-command *)

\* Where the servers' main thread is while a command or the set-up goes on.
Midway == Life!Busy \ {"reply"}

\* Who writes the stop command, and who checks before a restart.
Stoppers == Life!Stopping \cup Life!Restarting \cup Life!Updating
Places ==
    /\ pc \in {"stop", "count", "poll"} => op \in Stoppers
    /\ pc = "restart" => op \in Life!Restarting

LEMMA EntryIsMidway ==
    \A c \in Life!Single \cup Life!ForEach \cup {"setup"} :
      /\ Life!Entry(c) \in Midway
      /\ Life!Entry(c) \notin {"count", "poll"}
      /\ Life!Entry(c) = "stop" => c \in Stoppers
      /\ Life!Entry(c) = "restart" => c \in Life!Restarting
<1> USE DEF Life!Entry, Life!Single, Life!ForEach, Life!Starting, Life!Stopping,
            Life!Updating, Life!Restarting, Life!BackingUp, Life!Listing
<1>1. \A c \in Life!Single \cup Life!ForEach \cup {"setup"} :
        Life!Entry(c) \in {"construct", "start", "stop", "restart", "backup", "list", "check"}
  OBVIOUS
<1>2. \A c \in Life!Single \cup Life!ForEach \cup {"setup"} :
        /\ Life!Entry(c) = "stop" => c \in Stoppers
        /\ Life!Entry(c) = "restart" => c \in Life!Restarting
  BY DEF Stoppers
<1> HIDE DEF Life!Entry
<1> QED
  BY <1>1, <1>2 DEF Midway, Life!Busy

\* A command begins in one of its functions, but for two that may be over at once.
LEMMA ReceiveKinds ==
    Life!Receive =>
      /\ pc' \in Midway \/ (pc' = "reply" /\ op' \in {"listServers", "updateAll"})
      /\ op' \in Life!Commands
      /\ op' \in Life!Single => \E n \in Names : Life!First(op', n, cur')
      /\ Places'
<1> SUFFICES ASSUME Life!Receive
             PROVE  /\ pc' \in Midway \/ (pc' = "reply" /\ op' \in {"listServers", "updateAll"})
                    /\ op' \in Life!Commands
                    /\ op' \in Life!Single => \E n \in Names : Life!First(op', n, cur')
                    /\ Places'
  OBVIOUS
<1> USE DEF Life!Begin, Places
<1>1. CASE Life!ReceiveSingle
  BY <1>1, EntryIsMidway DEF Life!ReceiveSingle, Life!Commands
<1>2. CASE Life!ReceiveForEach
  <2>1. op' \in Life!ForEach /\ pc' = Life!Entry(op')
    BY <1>2 DEF Life!ReceiveForEach
  <2> QED
    BY <2>1, EntryIsMidway DEF Life!Commands, Life!ForEach, Life!Single
<1>3. CASE Life!ReceiveUpdateAll \/ Life!ReceiveList
  BY <1>3 DEF Life!ReceiveUpdateAll, Life!ReceiveList, Life!Commands, Life!Single,
     Midway, Life!Busy, Stoppers, Life!Updating
<1> QED
  BY <1>1, <1>2, <1>3 DEF Life!Receive

\* A step goes on with the command, brings it to its end, or ends the daemon.
GoesOn ==
    /\ pc \in Midway /\ pc' \in Midway
    /\ op' = op /\ (cur' = cur \/ op \notin Life!Single)
    /\ Places => Places'
EndsDaemon ==
    /\ pc' \in Life!Dead
    /\ \A p \in Pids : proc'[p] \notin {"child", "zombie"}

LEMMA DaemonStepKinds ==
    Life!DaemonStep => GoesOn \/ EndsDaemon \/ Life!LoopEnds \/ Life!Reply
<1> SUFFICES ASSUME Life!DaemonStep
             PROVE  GoesOn \/ EndsDaemon \/ Life!LoopEnds \/ Life!Reply
  OBVIOUS
<1> USE DEF Midway, Life!Busy
<1>a. \A how \in Life!Dead : Life!Die(how) => EndsDaemon
  BY DEF Life!Die, EndsDaemon
<1>1. CASE Life!ConstructFails \/ Life!Exit0 \/ Life!ReplyHangup \/ Life!PipeFails
           \/ Life!AccountMissing \/ Life!BrokenPipe \/ Life!ListThrows \/ Life!HandlerEnds
  BY <1>1, <1>a DEF Life!Dead, Life!ConstructFails, Life!Exit0, Life!ReplyHangup,
     Life!PipeFails, Life!AccountMissing, Life!BrokenPipe, Life!ListThrows,
     Life!HandlerEnds
<1>2. CASE Life!ListUndefined
  BY <1>2, <1>a DEF Life!Dead, Life!ListUndefined, GoesOn, Places
<1>3. CASE Life!NextServer
  <2>1. op \in Life!ForEach \cup {"setup"} /\ pc' = Life!Entry(op) /\ op' = op
        /\ pc = "next"
    BY <1>3 DEF Life!NextServer
  <2>2. op \notin Life!Single
    BY <2>1 DEF Life!ForEach, Life!Single
  <2> QED
    BY <2>1, <2>2, EntryIsMidway DEF GoesOn, Places
<1>4. CASE Life!Construct \/ Life!StartCheck \/ Life!ForkFails \/ Life!SendCheck
           \/ Life!Send \/ Life!BackupBegins \/ Life!BackupEnds
           \/ \E p \in Pids : Life!Launch(p)
  BY <1>4 DEF Life!Construct, Life!StartCheck, Life!ForkFails, Life!SendCheck,
     Life!Send, Life!BackupBegins, Life!BackupEnds, Life!Launch, GoesOn, Places
<1>5. CASE Life!StopCheck \/ Life!CountDown \/ Life!Halt \/ Life!Poll
  BY <1>5 DEF Life!StopCheck, Life!CountDown, Life!Halt, Life!Poll, Life!AfterStop,
     GoesOn, Places
<1>6. CASE Life!RestartCheck
  BY <1>6 DEF Life!RestartCheck, GoesOn, Places, Stoppers
<1> QED
  BY <1>1, <1>2, <1>3, <1>4, <1>5, <1>6 DEF Life!DaemonStep

-----------------------------------------------------------------------------
(* What a daemon leaves behind *)

\* When the main thread has ended it has no children; the queue and the
\* connections are open in the server processes that have outlived it.
Kept ==
    at \in Socket!Ended =>
      /\ \A p \in Pids : proc[p] \notin {"child", "zombie"}
      /\ listening = (Orphans # {})
      /\ held = IF Orphans = {} THEN {}
                ELSE Range(backlog) \cup UNION {inherits[p] : p \in Orphans}

LEMMA KeptInit == Init => Kept
BY DEF Init, Socket!Init, Kept, Socket!Ended

\* The daemon ends with what Leave says, from then on clients join the queue and
\* servers let go.
LEMMA KeptStep == SP!Types /\ Kept /\ [Next]_vars => Kept'
<1> SUFFICES ASSUME SP!Types, Kept, [Next]_vars, at' \in Socket!Ended
             PROVE  Kept'
  BY DEF Kept
<1> USE DEF Socket!Ended
<1>1. CASE Answer
  <2>1. EndsDaemon /\ Leave
    <3>1. pc' # "idle" /\ Leave
      BY <1>1 DEF Answer
    <3>2. Life!Exit0 \/ Life!ReplyHangup
      BY <1>1, <3>1 DEF Answer, Life!Reply
    <3> QED
      BY <3>1, <3>2 DEF Life!Exit0, Life!ReplyHangup, Life!Die, Life!Dead, EndsDaemon
  <2>2. backlog' = backlog
    BY <1>1 DEF Answer, Socket!Reply
  <2> QED
    BY <2>1, <2>2 DEF Leave, EndsDaemon, Kept, Range
<1>2. CASE DaemonEnds
  <2>1. EndsDaemon /\ Leave
    BY <1>2, DaemonStepKinds DEF DaemonEnds, GoesOn, Midway, Life!Busy, Life!Dead,
       Life!LoopEnds, Life!Reply
  <2>2. backlog' = backlog
    BY <1>2 DEF DaemonEnds, Socket!Die
  <2> QED
    BY <2>1, <2>2 DEF Leave, EndsDaemon, Kept, Range
<1>3. CASE Work \/ EnterLoop \/ Serve \/ Execute \/ Finish
  <2>1. CASE Work
    BY <2>1 DEF Work, socketVars
  <2>2. CASE EnterLoop \/ Serve
    BY <2>2 DEF EnterLoop, Serve, Socket!EnterLoop, Socket!Accept, Socket!AcceptFails,
       Socket!Read
  <2>3. CASE Execute
    BY <2>3, ReceiveKinds DEF Execute, socketVars, Socket!Run, Socket!Players,
       Midway, Life!Busy
  <2>4. CASE Finish
    BY <2>4 DEF Finish, Socket!Run, Socket!End
  <2> QED
    BY <1>3, <2>1, <2>2, <2>3, <2>4
<1>4. CASE UNCHANGED <<at, proc, listening, held, backlog, inherits>>
  BY <1>4 DEF Kept, Orphans
<1>5. ASSUME NEW c \in Clients, ClientStep(c) PROVE Kept'
  BY <1>5, <1>4 DEF ClientStep, lifeVars, Socket!ClientStep, Socket!Write, Socket!Written,
     Socket!Return, Socket!openVars
<1>6. ASSUME NEW c \in Clients, Socket!Kill(c), UNCHANGED <<lifeVars, inherits>>
      PROVE  Kept'
  BY <1>6, <1>4 DEF lifeVars, Socket!Kill, Socket!openVars
<1>7. ASSUME NEW c \in Clients, Socket!Connect(c), UNCHANGED <<lifeVars, inherits>>
      PROVE  Kept'
  <2>1. at \in Socket!Ended /\ held' = held \cup {c} /\ listening' = listening /\ listening
    BY <1>7 DEF Socket!Connect
  <2>2. Range(backlog') = Range(backlog) \cup {c}
    BY <1>7 DEF Socket!Connect, Range, SP!Types, SP!QueueTypes
  <2>3. Orphans' = Orphans /\ inherits' = inherits /\ proc' = proc
    BY <1>7 DEF Orphans, lifeVars
  <2> QED
    BY <2>1, <2>2, <2>3 DEF Kept
<1>8. ASSUME NEW p \in Pids, HonourStop(p) \/ ExitsAlone(p) PROVE Kept'
  <2>1. Life!Exit(p) /\ Released
    BY <1>8 DEF HonourStop, ExitsAlone, Life!HonourStop, Life!ExitAlone
  <2>2. at \in Socket!Ended /\ Leave /\ backlog' = backlog
    BY <2>1 DEF Released
  <2>3. \A q \in Pids : proc'[q] \notin {"child", "zombie"}
    BY <2>1, <2>2 DEF Life!Exit, Kept
  <2> QED
    BY <2>2, <2>3 DEF Leave, Kept, Range
<1>9. CASE Quiescent
  BY <1>9, <1>4 DEF Quiescent, lifeVars, Socket!Quiescent, Socket!vars
<1>10. CASE UNCHANGED vars
  BY <1>10, <1>4 DEF vars, lifeVars, socketVars
<1> QED
  BY <1>1, <1>2, <1>3, <1>5, <1>6, <1>7, <1>8, <1>9, <1>10
     DEF Next, MainThread, ComeAndGo

\* The socket sees its daemon's steps, or nothing of them; of a server that exits
\* it sees that connections close, if the daemon has ended.
LEMMA SocketStepHere ==
    LP!TypeOK /\ SP!Types /\ Kept /\ [Next]_vars => [Socket!Next]_(Socket!vars)
<1> SUFFICES ASSUME LP!TypeOK, SP!Types, Kept, [Next]_vars
             PROVE  [Socket!Next]_(Socket!vars)
  OBVIOUS
<1>1. CASE MainThread
  BY <1>1, SocketVars DEF MainThread, Work, EnterLoop, Serve, Execute, Finish, Answer,
     DaemonEnds, Socket!Next, Socket!DaemonStep
<1>2. CASE ComeAndGo \/ Quiescent \/ \E c \in Clients : ClientStep(c)
  BY <1>2 DEF ComeAndGo, Quiescent, ClientStep, Socket!Next
<1>3. ASSUME NEW p \in Pids, HonourStop(p) \/ ExitsAlone(p)
      PROVE  [Socket!Next]_(Socket!vars)
  <2>1. Life!Exit(p) /\ Released
    BY <1>3 DEF HonourStop, ExitsAlone, Life!HonourStop, Life!ExitAlone
  <2>2. CASE at \notin Socket!Ended
    BY <2>1, <2>2 DEF Released, Socket!vars
  <2>3. CASE at \in Socket!Ended
    <3>1. /\ listening' = (Orphans' # {})
          /\ held' = IF Orphans' = {} THEN {}
                     ELSE Range(backlog) \cup UNION {inherits'[q] : q \in Orphans'}
          /\ UNCHANGED <<at, conn, args, ready, backlog, client, request, sent, answers,
                         executed, merged>>
      BY <2>1, <2>3 DEF Released, Leave
    <3>2. Orphans' = Orphans \ {p} /\ p \in Orphans
      BY <2>1, <2>3 DEF Life!Exit, Orphans, Kept, LP!TypeOK
    <3>3. \A q \in Orphans' : inherits'[q] = inherits[q]
      BY <2>1, <3>2 DEF Released, Inherit, Orphans
    <3>4. Orphans # {} /\ listening
      BY <3>2, <2>3 DEF Kept
    <3>5. held = Range(backlog) \cup UNION {inherits[q] : q \in Orphans}
      BY <3>4, <2>3 DEF Kept
    <3>6. Socket!Queued = Range(backlog)
      BY DEF Socket!Queued, Socket!Range, Range
    <3>7. CASE Orphans' = {}
      BY <3>1, <3>4, <3>7, <2>3 DEF Socket!Next, Socket!ServersExit, Socket!clientVars
    <3>8. CASE Orphans' # {}
      <4> DEFINE kept == UNION {inherits[q] : q \in Orphans'}
      <4>1. kept \in SUBSET held
        BY <3>2, <3>5
      <4>2. held \cap Socket!Queued = Socket!Queued
        BY <3>5, <3>6
      <4>3. UNION {inherits'[q] : q \in Orphans'} = kept
        BY <3>3
      <4>4. held' = kept \cup (held \cap Socket!Queued)
        BY <3>1, <3>6, <3>8, <4>2, <4>3
      <4>5. listening' = listening
        BY <3>1, <3>4, <3>8
      <4> QED
        BY <3>1, <3>4, <2>3, <4>1, <4>4, <4>5
           DEF Socket!Next, Socket!ServersExit, Socket!clientVars
    <3> QED
      BY <3>7, <3>8
  <2> QED
    BY <2>2, <2>3
<1>4. CASE UNCHANGED vars
  BY <1>4, SocketVars DEF vars
<1> QED
  BY <1>1, <1>2, <1>3, <1>4 DEF Next

LEMMA SocketStepThere ==
    LP!TypeOK /\ SP!Types /\ Kept /\ [Next]_vars => [SP!Next]_(SP!vars)
BY SocketStepHere, SocketAlike DEF Socket!vars, SP!vars

SocketInv == SP!Inv /\ Kept

LEMMA SocketInvInit == Init => SocketInv
BY InitAlike, PartsAssumptions, KeptInit, SP!TypesInit, SP!CountingInit, SP!ReadingInit,
   SP!RequestsInit, SP!OnceInit, SP!FaithfulInit, SP!LeavingInit
   DEF SocketInv, SP!Inv

LEMMA SocketInvStep == LP!TypeOK /\ SocketInv /\ [Next]_vars => SocketInv'
<1> SUFFICES ASSUME LP!TypeOK, SocketInv, [Next]_vars PROVE SocketInv'
  OBVIOUS
<1> USE PartsAssumptions
<1>1. [SP!Next]_(SP!vars)
  BY SocketStepThere DEF SocketInv, SP!Inv
<1>2. SP!Types' /\ SP!Counting' /\ SP!Reading' /\ SP!Requests'
  BY <1>1, SP!TypesStep, SP!CountingStep, SP!ReadingStep, SP!RequestsStep
     DEF SocketInv, SP!Inv
<1>3. SP!Once' /\ SP!Faithful' /\ SP!Leaving'
  BY <1>1, SP!OnceStep, SP!FaithfulStep, SP!LeavingStep DEF SocketInv, SP!Inv
<1>4. Kept'
  BY KeptStep DEF SocketInv, SP!Inv
<1> QED
  BY <1>2, <1>3, <1>4 DEF SocketInv, SP!Inv

\* The layers of both parts hold in the daemon, whatever its commands do.
LEMMA PartsInvariants == Spec => [](LifeInv /\ SocketInv)
<1>1. Init => LifeInv /\ SocketInv
  BY LifeInvInit, SocketInvInit
<1>2. LifeInv /\ SocketInv /\ [Next]_vars => LifeInv' /\ SocketInv'
  BY LifeInvStep, SocketInvStep DEF LifeInv
<1> QED
  BY <1>1, <1>2, PTL DEF Spec

\* What clients see is a daemon as ControlSocket describes it, and what servers
\* see is one as ServerLifecycle does: commands of many steps, and descriptors
\* that outlive the daemon in its servers, are no more than the parts allow.
THEOREM PartsImplemented == Spec => Life!Spec /\ Socket!Spec
<1>1. Init => Life!Init /\ Socket!Init
  BY DEF Init
<1>2. LifeInv /\ SocketInv /\ [Next]_vars =>
        [Life!Next]_(Life!vars) /\ [Socket!Next]_(Socket!vars)
  BY LifeStepHere, SocketStepHere DEF LifeInv, SocketInv, SP!Inv
<1> QED
  BY <1>1, <1>2, PartsInvariants, PTL DEF Spec, Life!Spec, Socket!Spec

-----------------------------------------------------------------------------
(* How the parts hang together *)

\* The command that the servers see is the one that was read, at the server it
\* names.
Commanded ==
    /\ op = args[1] /\ op \in Life!Commands
    /\ op \in Life!Single => Life!First(op, args[2], cur)

\* Where the one main thread is, for its servers and for its socket.
Glue ==
    /\ Places
    /\ at = "setup" => pc \in Midway /\ op = "setup"
    /\ at \in {"loop", "read"} => pc = "idle"
    /\ at = "run" => pc = "idle" \/ (pc \in Midway /\ Commanded)
    /\ at = "reply" => pc = "reply" /\ Commanded
    /\ at \in Socket!Ended => pc \in Life!Dead
    /\ at \in {"run", "reply"} => ~ Socket!ReadsMore(args)

LEMMA GlueInit == Init => Glue
BY DEF Init, Life!Init, Socket!Init, Glue, Places, Midway, Life!Busy, Socket!Ended

LEMMA AnswerEnds ==
    ASSUME NEW p, NEW a,
           <<p, a>> \in {<<"idle", "loop">>, <<"exited", "exited">>, <<"hangup", "sigpipe">>}
    PROVE  \/ p = "idle" /\ a = "loop"
           \/ p = "exited" /\ a = "exited"
           \/ p = "hangup" /\ a = "sigpipe"
OBVIOUS

LEMMA GlueStep == SP!Types /\ Glue /\ [Next]_vars => Glue'
<1> SUFFICES ASSUME SP!Types, Glue, [Next]_vars PROVE Glue'
  OBVIOUS
<1> USE DEF Socket!Ended, Midway, Life!Busy, Life!Dead
<1>1. CASE Work
  <2>1. GoesOn /\ UNCHANGED <<at, args>> /\ at \in {"setup", "run"}
    BY <1>1, DaemonStepKinds DEF Work, EndsDaemon, Life!LoopEnds, Life!Reply, socketVars
  <2>2. pc # "idle"
    BY <2>1 DEF GoesOn
  <2>3. at = "run" => Commanded'
    BY <2>1, <2>2 DEF GoesOn, Glue, Commanded, Life!First, Life!Matches
  <2> QED
    BY <2>1, <2>2, <2>3 DEF GoesOn, Glue
<1>2. CASE EnterLoop
  BY <1>2 DEF EnterLoop, Socket!EnterLoop, Glue, Places
<1>3. CASE Serve
  <2>1. UNCHANGED <<pc, op, cur>> /\ pc = "idle"
    BY <1>3 DEF Serve, lifeVars
  <2>2. CASE Socket!Accept \/ Socket!AcceptFails
    BY <2>1, <2>2 DEF Socket!Accept, Socket!AcceptFails, Glue, Places
  <2>3. CASE Socket!Read
    BY <2>1, <2>3 DEF Socket!Read, Glue, Places
  <2> QED
    BY <1>3, <2>2, <2>3 DEF Serve
<1>4. CASE Execute
  <2>1. op' = args[1] /\ op' \in Life!Commands /\ args' = args
    BY <1>4, ReceiveKinds DEF Execute, Socket!Run, socketVars
  <2>2. op' \in Life!Single => Life!First(op', args[2], cur')
    BY <1>4, ReceiveKinds DEF Execute, Called, Life!First, Life!Matches, Life!Single
  <2>3. Commanded'
    BY <2>1, <2>2 DEF Commanded, Life!First, Life!Matches
  <2>4. IF pc' = "reply" THEN at' = "reply" ELSE at' = "run" /\ pc' \in Midway
    BY <1>4, ReceiveKinds DEF Execute, Socket!Run, Socket!Players, socketVars
  <2>5. Places' /\ at = "run"
    BY <1>4, ReceiveKinds DEF Execute
  <2> QED
    BY <2>1, <2>3, <2>4, <2>5 DEF Glue
<1>5. CASE Finish
  <2>1. at = "run" /\ pc = "next" /\ Commanded /\ args' = args /\ op # "setup"
    BY <1>5 DEF Finish, Life!LoopEnds, Socket!Run, Glue, Commanded, Life!Commands,
       Life!Single, Life!ForEach
  <2>2. IF op \in Life!Silent THEN pc' = "idle" ELSE pc' = "reply" /\ UNCHANGED <<op, cur>>
    BY <1>5, <2>1 DEF Finish, Life!LoopEnds
  <2>3. at' = IF op \in Life!Silent THEN "loop" ELSE "reply"
    BY <1>5, <2>1 DEF Finish, Socket!Run, Socket!End, Socket!Players, Life!Silent,
       Life!Listing, Commanded
  <2>4. op \notin Life!Silent => Commanded'
    BY <2>1, <2>2 DEF Commanded, Life!First, Life!Matches
  <2>5. Places'
    BY <2>2 DEF Places
  <2> QED
    BY <2>1, <2>2, <2>3, <2>4, <2>5 DEF Glue
<1>6. CASE Answer
  <2>1. \/ pc' = "idle" /\ at' = "loop"
        \/ pc' = "exited" /\ at' = "exited"
        \/ pc' = "hangup" /\ at' = "sigpipe"
    BY <1>6, AnswerEnds DEF Answer
  <2>2. \/ pc' = "idle" /\ at' = "loop"
        \/ pc' \in Life!Dead /\ at' \in Socket!Ended
    BY <2>1
  <2> QED
    BY <2>2 DEF Glue, Places
<1>7. CASE DaemonEnds
  BY <1>7 DEF DaemonEnds, Socket!Die, Socket!End, Glue, Places
<1>8. CASE UNCHANGED <<pc, op, cur, at, args>>
  BY <1>8 DEF Glue, Places, Commanded, Life!First, Life!Matches
<1>9. ASSUME NEW c \in Clients, ClientStep(c) \/ Socket!Connect(c) \/ Socket!Kill(c),
             UNCHANGED lifeVars
      PROVE  Glue'
  BY <1>9, <1>8 DEF ClientStep, Socket!ClientStep, Socket!Write, Socket!Written,
     Socket!Return, Socket!Connect, Socket!Kill, lifeVars
<1>10. ASSUME NEW p \in Pids, HonourStop(p) \/ ExitsAlone(p) PROVE Glue'
  BY <1>10, <1>8 DEF HonourStop, ExitsAlone, Life!HonourStop, Life!ExitAlone, Life!Exit,
     Released
<1>11. CASE Quiescent \/ UNCHANGED vars
  BY <1>11, <1>8 DEF Quiescent, Socket!Quiescent, Socket!vars, vars, lifeVars, socketVars
<1> QED
  BY <1>1, <1>2, <1>3, <1>4, <1>5, <1>6, <1>7, <1>9, <1>10, <1>11
     DEF Next, MainThread, ComeAndGo, ClientStep

Inv == LifeInv /\ SocketInv /\ Glue

\* In every reachable state both parts are as their own theorems say, and the main
\* thread is at one place of the two.
THEOREM DaemonInvariant == Spec => []Inv
<1>1. Init => Glue
  BY GlueInit
<1>2. LifeInv /\ SocketInv /\ Glue /\ [Next]_vars => Glue'
  BY GlueStep DEF SocketInv, SP!Inv
<1> QED
  BY <1>1, <1>2, PartsInvariants, PTL DEF Spec, Inv

-----------------------------------------------------------------------------
(* What a client asked for, and what it is told *)

\* A command that is being carried out is the one that its client wrote, and so is
\* the name, unless the client has left before it wrote one.
LEMMA CommandIsAsked ==
    ASSUME Inv, at \in {"run", "reply"}, Commanded
    PROVE  /\ conn \in Clients /\ op = request[conn][1] /\ request[conn] # <<>>
           /\ op \in Life!Single =>
                \/ args[2] = request[conn][2] /\ Len(request[conn]) > 1
                \/ args[2] = Socket!Error /\ Socket!Returned(conn) /\ sent[conn] = 1
<1>1. /\ conn \in Clients
      /\ Len(args) \in Nat /\ Len(args) # 0 /\ args[1] # Socket!Error
      /\ request[conn] \in Seq(SP!Values)
      /\ sent[conn] \in Nat /\ sent[conn] <= Len(request[conn])
  BY DEF Inv, SocketInv, SP!Inv, SP!Types, SP!DaemonTypes, SP!ClientTypes, SP!Reading,
     SP!Serving, SP!Error, Socket!Error
<1>2. \A i \in 1..Len(args) :
        \/ i <= sent[conn] /\ args[i] = request[conn][i]
        \/ i > sent[conn] /\ args[i] = Socket!Error /\ Socket!Returned(conn)
  BY DEF Inv, SocketInv, SP!Inv, SP!Faithful, SP!AsAsked, SP!Serving, SP!Error,
     SP!Returned, Socket!Error, Socket!Returned
<1>3. 1 <= sent[conn] /\ args[1] = request[conn][1]
  BY <1>1, <1>2
<1>4. op \in Life!Single => Len(args) > 1
  <2>1. op = args[1] /\ ~ Socket!ReadsMore(args)
    BY DEF Inv, Glue, Commanded
  <2>2. Life!Single \subseteq Socket!Named
    BY DEF Life!Single, Socket!Named
  <2> QED
    <3>1. op \in Life!Single => args[1] \in Socket!Named
      BY <2>1, <2>2, Zenon
    <3>2. Len(args) = 1 => args[1] \notin Socket!Named
      BY <2>1, Zenon DEF Socket!ReadsMore
    <3>3. Len(args) \in Nat /\ Len(args) # 0
      BY <1>1
    <3>4. op \in Life!Single => Len(args) # 1
      BY <3>1, <3>2, Zenon
    <3>5. \A n \in Nat : n # 0 /\ n # 1 => n > 1
      OBVIOUS
    <3> QED
      BY <3>3, <3>4, <3>5, Zenon
<1>5. op \in Life!Single =>
        \/ args[2] = request[conn][2] /\ Len(request[conn]) > 1
        \/ args[2] = Socket!Error /\ Socket!Returned(conn) /\ sent[conn] = 1
  BY <1>1, <1>2, <1>3, <1>4
<1>6. request[conn] # <<>>
  BY <1>1, <1>3
<1> QED
  BY <1>1, <1>3, <1>5, <1>6 DEF Commanded

\* What happens to a server is what the client being served asked for.  A client
\* that leaves before it has written a name is read as one that wrote "error", and
\* reaches only a server called so.
THEOREM ServersActAsAsked == Spec => []ServersActOnRequest
<1>1. Inv => ServersActOnRequest
  <2> SUFFICES ASSUME Inv, NEW p \in halting \cup readonly, proc[p] = "child"
               PROVE  /\ at = "run"
                      /\ p \in halting => Asked(conn, Stoppers, p)
                      /\ p \in readonly /\ "fork" \notin Faults =>
                           Asked(conn, Life!BackingUp, p)
    BY DEF ServersActOnRequest, Stoppers
  <2>1. p \in Pids /\ cur \in Servers
    BY DEF Inv, LifeInv, LP!TypeOK, LP!Servers, Servers
  <2>2. pc # "handler"
    BY DEF Inv, Glue, SocketInv, SP!Inv, SP!Types, SP!DaemonTypes, SP!Serving, SP!Ended,
       Socket!Ended, Midway, Life!Busy, Life!Dead
  <2>3. p \in halting => pc = "poll" /\ owner[p] = cur /\ op \in Stoppers
    BY <2>2 DEF Inv, LifeInv, LP!HaltingWaited, Glue, Places
  <2>4. p \in readonly => /\ pc = "archive" /\ op \in Life!BackingUp
                          /\ "fork" \notin Faults => owner[p] = cur
    BY <2>2 DEF Inv, LifeInv, LP!ReadonlyInv, LP!ReadonlyOnlyInBackup, LP!WritePlace,
       LP!BackingUp, Life!BackingUp
  <2>5. pc \in {"poll", "archive"} /\ op # "setup"
    BY <2>3, <2>4 DEF Stoppers, Life!Stopping, Life!Restarting, Life!Updating,
       Life!BackingUp
  <2>6. at = "run" /\ Commanded
    BY <2>5 DEF Inv, Glue, SocketInv, SP!Inv, SP!Types, SP!DaemonTypes, SP!Serving,
       SP!Ended, Socket!Ended, Life!Dead
  <2>7. /\ op = request[conn][1] /\ request[conn] # <<>>
        /\ op \in Life!Single =>
             \/ Name[cur] = request[conn][2] /\ Len(request[conn]) > 1
             \/ Name[cur] = Socket!Error /\ Socket!Returned(conn) /\ sent[conn] = 1
    BY <2>1, <2>6, CommandIsAsked DEF Commanded, Life!First, Life!Matches, Life!Single
  <2>8. op \in Stoppers \cup Life!BackingUp /\ op \in Socket!Named => op \in Life!Single
    BY DEF Stoppers, Life!Stopping, Life!Restarting, Life!Updating, Life!BackingUp,
       Socket!Named, Life!Single
  <2> QED
    BY <2>3, <2>4, <2>6, <2>7, <2>8 DEF Asked
<1> QED
  BY <1>1, DaemonInvariant, PTL

\* Only Answer gives one.
LEMMA AnswersByReply ==
    ASSUME [Next]_vars, NEW c \in Clients, answers'[c] # answers[c]
    PROVE  Answer
BY DEF Next, MainThread, Work, EnterLoop, Serve, Execute, Finish, DaemonEnds, ComeAndGo,
   ClientStep, HonourStop, ExitsAlone, Released, Quiescent, vars, socketVars,
   Socket!EnterLoop, Socket!Accept, Socket!AcceptFails, Socket!Read, Socket!Run,
   Socket!Die, Socket!ClientStep, Socket!Write, Socket!Written, Socket!Return,
   Socket!Connect, Socket!Kill, Socket!Quiescent, Socket!vars

\* A client that is told that its server stopped, or that all did, is told the truth.
THEOREM AnswersAreHonest == Spec => ToldTheTruth
<1>1. ASSUME Inv, Inv', [Next]_vars, NEW c \in Clients, answers'[c] > answers[c],
             NEW p \in Pids, proc'[p] = "child"
      PROVE  /\ request[c][1] \notin {"stopAll", "stopDaemon"}
             /\ request[c][1] = "stopServer" => ~ Addressed(request[c][2], owner'[p])
  <2>1. Answer /\ Socket!Reply
    <3>1. answers'[c] # answers[c]
      BY <1>1 DEF Inv, SocketInv, SP!Inv, SP!Types, SP!ClientTypes
    <3> QED
      BY <1>1, <3>1, AnswersByReply DEF Answer
  <2>2. c = conn /\ ~ Socket!Returned(conn)
    BY <1>1, <2>1 DEF Socket!Reply, Inv, SocketInv, SP!Inv, SP!Types, SP!ClientTypes
  <2>3. Life!Reply
    BY <1>1, <2>1, DaemonStepKinds DEF Answer, Life!Exit0, Life!ReplyHangup, Life!Die
  <2>4. at = "reply" /\ pc = "reply" /\ Commanded
    BY <1>1, <2>1 DEF Socket!Reply, Inv, Glue
  <2>5. /\ op = request[c][1]
        /\ op \in Life!Single => args[2] = request[c][2]
    BY <1>1, <2>2, <2>4, CommandIsAsked
  <2>6. proc[p] = "child" /\ owner[p] = owner'[p] /\ owner[p] \in Servers
    BY <1>1, <2>3 DEF Life!Reply, Life!processVars, Inv, LifeInv, LP!NoLost, LP!NoLostChild,
       LP!Children, LP!Servers, Servers
  <2>7. LP!AnsweredMeansDown
    BY PartsAssumptions, LP!StoppedIsDown, <1>1 DEF Inv, LifeInv, LP!NoLost
  <2>8. op \notin {"stopAll", "stopDaemon"}
    BY <2>4, <2>6, <2>7 DEF LP!AnsweredMeansDown
  <2>9. op = "stopServer" => owner[p] # cur
    BY <2>4, <2>6, <2>7 DEF LP!AnsweredMeansDown, LP!Children
  <2>10. op = "stopServer" => Addressed(args[2], cur)
    BY <2>4 DEF Commanded, Life!First, Life!Matches, Life!Single, Life!Updating, Addressed
  <2>11. cur \in Servers
    BY <1>1 DEF Inv, LifeInv, LP!TypeOK, LP!Servers, Servers
  <2>12. \A s, t \in Servers : Addressed(args[2], s) /\ Addressed(args[2], t) => s = t
    BY ConstantsAssumption DEF Addressed, Servers
  <2>13. op = "stopServer" => ~ Addressed(args[2], owner[p])
    BY <2>6, <2>9, <2>10, <2>11, <2>12
  <2>14. request[c][1] = "stopServer" => op = "stopServer" /\ args[2] = request[c][2]
    BY <2>5, Zenon DEF Life!Single
  <2> QED
    BY <2>5, <2>6, <2>8, <2>13, <2>14, Zenon
<1> DEFINE Truth ==
      \A c \in Clients : answers'[c] > answers[c] =>
        \A p \in Pids : proc'[p] = "child" =>
          /\ request[c][1] \notin {"stopAll", "stopDaemon"}
          /\ request[c][1] = "stopServer" => ~ Addressed(request[c][2], owner'[p])
<1>2. Inv /\ Inv' /\ [Next]_vars => Truth
  BY <1>1
<1>3. Inv /\ Inv' /\ [Next]_vars => [Truth]_vars
  BY <1>2
<1> QED
  BY <1>3, DaemonInvariant, PTL DEF Spec, ToldTheTruth

=============================================================================
