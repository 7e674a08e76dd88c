----------------------- MODULE ServerLifecycleProofs -----------------------
(***************************************************************************)
(* Proofs of the invariants of ServerLifecycle, for any number of servers, *)
(* any classes and names, any set of pids and any set of faults.  They are *)
(* stacked: each layer is an inductive invariant relative to the ones      *)
(* before it.                                                              *)
(***************************************************************************)
EXTENDS ServerLifecycle, TLAPS

USE DEF Servers

-----------------------------------------------------------------------------
(* Layer 1: types *)

LEMMA TypeInit == Init => TypeOK
<1> SUFFICES ASSUME Init PROVE TypeOK
  OBVIOUS
<1>1. /\ pc \in PcValues
      /\ op \in Commands \cup {"setup", "none"}
      /\ cur \in Servers
      /\ count \in 0..Countdown
  BY ConstantsAssumption DEF Init, PcValues, Busy
<1>2. /\ serverPID \in [Servers -> Pids \cup {NoPid}]
      /\ reader \in [Servers -> Pids \cup {NoPid, Gone, Closed}]
  BY DEF Init
<1>3. /\ proc \in [Pids -> {"free", "child", "zombie", "orphan", "foreign"}]
      /\ owner \in [Pids -> 0..N]
  BY ConstantsAssumption DEF Init
<1>4. /\ halting \subseteq Pids /\ readonly \subseteq Pids
      /\ runs \in Nat /\ clean \in BOOLEAN /\ unforeseen \in BOOLEAN
  BY DEF Init
<1> QED
  BY <1>1, <1>2, <1>3, <1>4 DEF TypeOK

LEMMA EntryType == \A c \in Single \cup ForEach \cup {"setup"} : Entry(c) \in PcValues
BY DEF Entry, PcValues, Busy, Commands, Single, ForEach, Starting, Stopping,
       Updating, Restarting, BackingUp, Listing

LEMMA OwnersType == TypeOK => OwnersAfterReap \in [Pids -> 0..N]
<1>1. 0 \in 0..N
  BY ConstantsAssumption
<1> QED
  BY <1>1 DEF TypeOK, OwnersAfterReap

LEMMA DieType ==
    ASSUME TypeOK, NEW how \in Dead, Die(how)
    PROVE  TypeOK'
<1>1. /\ serverPID' \in [Servers -> Pids \cup {NoPid}]
      /\ reader' \in [Servers -> Pids \cup {NoPid, Gone, Closed}]
  BY DEF Die
<1>2. proc' \in [Pids -> {"free", "child", "zombie", "orphan", "foreign"}]
  BY DEF Die, TypeOK
<1>3. owner' \in [Pids -> 0..N]
  BY OwnersType DEF Die
<1>4. pc' \in PcValues /\ clean' \in BOOLEAN
  BY DEF Die, PcValues
<1> QED
  BY <1>1, <1>2, <1>3, <1>4 DEF Die, TypeOK

LEMMA ReapType ==
    ASSUME TypeOK, NEW s \in Servers, ReapFor(s)
    PROVE  /\ proc' \in [Pids -> {"free", "child", "zombie", "orphan", "foreign"}]
           /\ owner' \in [Pids -> 0..N]
<1>1. Reaped(proc) \in [Pids -> {"free", "child", "zombie", "orphan", "foreign"}]
  BY DEF TypeOK, Reaped
<1> QED
  BY <1>1, OwnersType DEF ReapFor, TypeOK

LEMMA TypeStep == TypeOK /\ [Next]_vars => TypeOK'
<1> SUFFICES ASSUME TypeOK, [Next]_vars PROVE TypeOK'
  OBVIOUS
<1> USE ConstantsAssumption
<1>1. CASE Relaunch
  BY <1>1 DEF Relaunch, TypeOK, PcValues, Busy, processVars
<1>2. CASE Construct
  BY <1>2 DEF Construct, TypeOK, PcValues, Busy, processVars, historyVars
<1>3. CASE ConstructFails
  BY <1>3, DieType DEF ConstructFails, Dead
<1>4. CASE ReceiveSingle
  BY <1>4, EntryType DEF ReceiveSingle, Begin, TypeOK, Commands, processVars, historyVars
<1>5. CASE ReceiveForEach
  BY <1>5, EntryType DEF ReceiveForEach, Begin, TypeOK, Commands, processVars, historyVars
<1>6. CASE ReceiveUpdateAll \/ ReceiveList
  BY <1>6 DEF ReceiveUpdateAll, ReceiveList, Begin, TypeOK, Commands, PcValues, Busy, processVars, historyVars
<1>7. CASE NextServer
  BY <1>7, EntryType DEF NextServer, TypeOK, Commands, processVars, historyVars
<1>8. CASE LoopEnds
  BY <1>8 DEF LoopEnds, TypeOK, PcValues, Busy, processVars, historyVars
<1>9. CASE Reply
  BY <1>9 DEF Reply, TypeOK, PcValues, processVars, historyVars
<1>10. CASE Exit0 \/ ReplyHangup
  BY <1>10, DieType DEF Exit0, ReplyHangup, Dead
<1>11. CASE StartCheck
  BY <1>11, ReapType DEF StartCheck, TypeOK, PcValues, Busy, historyVars
<1>12. ASSUME NEW p \in Pids, Launch(p) PROVE TypeOK'
  <2>1. unforeseen' \in BOOLEAN
    BY <1>12, Zenon DEF Launch, TypeOK
  <2>2. reader' \in [Servers -> Pids \cup {NoPid, Gone, Closed}]
    BY <1>12 DEF Launch, TypeOK
  <2> QED
    BY <1>12, <2>1, <2>2 DEF Launch, TypeOK, PcValues, Busy
<1>13. CASE ForkFails
  BY <1>13 DEF ForkFails, TypeOK, PcValues, Busy, processVars, historyVars
<1>14. CASE PipeFails \/ AccountMissing \/ BrokenPipe \/ ListThrows \/ HandlerEnds
  BY <1>14, DieType DEF PipeFails, AccountMissing, BrokenPipe, ListThrows, HandlerEnds, Dead
<1>15. CASE StopCheck
  BY <1>15, ReapType DEF StopCheck, AfterStop, TypeOK, PcValues, Busy, historyVars
<1>16. CASE CountDown
  BY <1>16 DEF CountDown, TypeOK, processVars, historyVars
<1>17. CASE Halt
  BY <1>17 DEF Halt, Reader, TypeOK, PcValues, Busy, historyVars
<1>18. CASE Poll
  BY <1>18, ReapType DEF Poll, AfterStop, TypeOK, PcValues, Busy, historyVars
<1>19. CASE RestartCheck
  BY <1>19, ReapType DEF RestartCheck, TypeOK, PcValues, Busy, historyVars
<1>20. CASE SendCheck
  BY <1>20, ReapType DEF SendCheck, TypeOK, PcValues, Busy, historyVars
<1>21. CASE Send
  BY <1>21 DEF Send, TypeOK, PcValues, Busy, processVars, historyVars
<1>22. CASE BackupBegins \/ BackupEnds
  BY <1>22 DEF BackupBegins, BackupEnds, Reader, TypeOK, PcValues, Busy, historyVars
<1>23. CASE ListUndefined
  BY <1>23, DieType DEF ListUndefined, TypeOK, PcValues, Busy, Dead, processVars, historyVars
<1>24. CASE Interrupt
  BY <1>24 DEF Interrupt, TypeOK, PcValues, processVars, historyVars
<1>25. ASSUME NEW p \in Pids, Exit(p) PROVE TypeOK'
  <2>1. /\ proc' \in [Pids -> {"free", "child", "zombie", "orphan", "foreign"}]
        /\ owner' \in [Pids -> 0..N]
    BY <1>25 DEF Exit, TypeOK
  <2>2. unforeseen' \in BOOLEAN
    BY <1>25 DEF Exit
  <2>3. reader' \in [Servers -> Pids \cup {NoPid, Gone, Closed}]
    BY <1>25 DEF Exit, TypeOK
  <2> QED
    BY <1>25, <2>1, <2>2, <2>3 DEF Exit, TypeOK
<1>26. ASSUME NEW p \in Pids, ForeignProcess(p) PROVE TypeOK'
  <2>1. unforeseen' \in BOOLEAN
    BY <1>26, Zenon DEF ForeignProcess, TypeOK
  <2> QED
    BY <1>26, <2>1 DEF ForeignProcess, TypeOK, daemonVars
<1>27. CASE UNCHANGED vars
  BY <1>27 DEF vars, TypeOK
<1> QED
  BY <1>1, <1>2, <1>3, <1>4, <1>5, <1>6, <1>7, <1>8, <1>9, <1>10, <1>11, <1>12,
     <1>13, <1>14, <1>15, <1>16, <1>17, <1>18, <1>19, <1>20, <1>21, <1>22,
     <1>23, <1>24, <1>25, <1>26, <1>27
     DEF Next, DaemonStep, Receive, Environment, Terminated, HonourStop, ExitAlone

\* Every behaviour of the daemon keeps every variable in its domain.
THEOREM TypeCorrect == Spec => []TypeOK
BY TypeInit, TypeStep, PTL DEF Spec

-----------------------------------------------------------------------------
(* Layer 2: no child is lost *)

\* Between the check of startServer() and fork() the server has no child:
\* without this, overwriting serverPID could lose one.
LaunchClear == pc = "launch" => \A p \in Children : owner[p] # cur

NoLost == NoLostChild /\ LaunchClear

\* What the steps do to the kernel's processes and to serverPID, by kind.
\* Quiet steps leave both alone.
Quiet == UNCHANGED <<serverPID, reader, proc, owner>>

LEMMA EntryPlace == \A c \in Single \cup ForEach \cup {"setup"} :
    Entry(c) \in {"construct", "start", "stop", "restart", "backup", "list", "check"}
BY DEF Entry, Commands, Single, ForEach, Starting, Stopping,
       Updating, Restarting, BackingUp, Listing

\* A reaping isRunning() that answers no leaves no child of the server.
LEMMA NotRunningMeansNoChild ==
    ASSUME TypeOK, NoLostChild, NEW s \in Servers, ReapFor(s)
    PROVE  /\ serverPID' = serverPID => NoLostChild'
           /\ ~ Running(s) => \A p \in Pids : owner'[p] = s =>
                                proc'[p] \notin {"child", "zombie"}
<1> USE ConstantsAssumption
<1>1. CASE serverPID[s] = NoPid
  <2>1. proc' = proc /\ owner' = owner
    BY <1>1 DEF ReapFor
  <2> QED
    BY <1>1, <2>1 DEF TypeOK, NoLostChild, Children
<1>2. CASE serverPID[s] # NoPid
  <2>1. proc' = Reaped(proc) /\ owner' = OwnersAfterReap
    BY <1>2 DEF ReapFor
  <2>2. \A p \in Pids : proc'[p] \in {"child", "zombie"} =>
                          proc[p] = "child" /\ proc'[p] = "child" /\ owner'[p] = owner[p]
    BY <2>1 DEF TypeOK, Reaped, OwnersAfterReap
  <2>3. serverPID[s] \in Pids
    BY <1>2 DEF TypeOK
  <2>4. ASSUME ~ Running(s), NEW p \in Pids, owner'[p] = s,
               proc'[p] \in {"child", "zombie"}
        PROVE  FALSE
    <3>1. serverPID[s] = p
      BY <2>2, <2>4 DEF NoLostChild, Children
    <3>2. proc'[p] = "free"
      BY <1>2, <2>1, <2>4, <3>1 DEF Running
    <3> QED
      BY <2>2, <2>4, <3>2
  <2>5. serverPID' = serverPID => NoLostChild'
    BY <2>2 DEF NoLostChild, Children
  <2> QED
    BY <2>4, <2>5
<1> QED
  BY <1>1, <1>2

LEMMA DeathTakesChildren ==
    ASSUME TypeOK, NEW how, Die(how)
    PROVE  /\ Children' = {}
           /\ \A p \in Pids : proc'[p] = "orphan" => proc[p] \in {"child", "orphan"}
BY DEF TypeOK, Die, Children

LEMMA NoLostStep == TypeOK /\ TypeOK' /\ NoLost /\ [Next]_vars => NoLost'
<1> SUFFICES ASSUME TypeOK, TypeOK', NoLost, [Next]_vars PROVE NoLost'
  OBVIOUS
<1> USE ConstantsAssumption
<1>a. ASSUME Quiet, pc' # "launch" PROVE NoLost'
  BY <1>a DEF Quiet, NoLost, NoLostChild, LaunchClear, Children
<1>b. ASSUME ReapFor(cur), serverPID' = serverPID, pc' # "launch" PROVE NoLost'
  BY <1>b, NotRunningMeansNoChild DEF NoLost, LaunchClear, TypeOK
<1>c. ASSUME NEW how \in Dead, Die(how) PROVE NoLost'
  BY <1>c, DeathTakesChildren DEF NoLost, NoLostChild, LaunchClear
<1>1. CASE Relaunch \/ Construct \/ LoopEnds \/ Reply \/ CountDown \/ Halt
           \/ Send \/ BackupBegins \/ BackupEnds \/ Interrupt
  BY <1>1, <1>a DEF Quiet, Relaunch, Construct, LoopEnds, Reply, CountDown, Halt,
     Send, BackupBegins, BackupEnds, Interrupt, processVars, historyVars
<1>2. CASE Receive \/ NextServer
  BY <1>2, <1>a, EntryPlace DEF Quiet, Receive, ReceiveSingle, ReceiveForEach,
     ReceiveUpdateAll, ReceiveList, Begin, NextServer, Commands, processVars, historyVars
<1>3. CASE ConstructFails \/ Exit0 \/ ReplyHangup \/ PipeFails \/ AccountMissing
           \/ BrokenPipe \/ ListThrows \/ HandlerEnds
  BY <1>3, <1>c DEF ConstructFails, Exit0, ReplyHangup, PipeFails, AccountMissing,
     BrokenPipe, ListThrows, HandlerEnds, Dead
<1>4. CASE ListUndefined
  BY <1>4, <1>a, <1>c DEF ListUndefined, Dead, Quiet, processVars, historyVars
<1>5. CASE StopCheck \/ Poll \/ RestartCheck \/ SendCheck
  BY <1>5, <1>b DEF StopCheck, Poll, RestartCheck, SendCheck, AfterStop, historyVars
<1>6. CASE StartCheck
  <2>1. ReapFor(cur) /\ serverPID' = serverPID /\ cur' = cur
    BY <1>6 DEF StartCheck
  <2>2. NoLostChild'
    BY <2>1, NotRunningMeansNoChild DEF NoLost, TypeOK
  <2>3. pc' = "launch" => ~ Running(cur)
    BY <1>6 DEF StartCheck
  <2>4. LaunchClear'
    BY <2>1, <2>3, NotRunningMeansNoChild DEF NoLost, LaunchClear, TypeOK, Children
  <2> QED
    BY <2>2, <2>4 DEF NoLost
<1>7. ASSUME NEW p \in Pids, Launch(p) PROVE NoLost'
  BY <1>7 DEF Launch, NoLost, NoLostChild, LaunchClear, Children, TypeOK
<1>8. CASE ForkFails
  BY <1>8 DEF ForkFails, NoLost, NoLostChild, LaunchClear, Children, TypeOK, processVars
<1>9. ASSUME NEW p \in Pids, Exit(p) PROVE NoLost'
  <2>1. \A q \in Pids : proc'[q] \in {"child", "zombie"} =>
                          proc[q] \in {"child", "zombie"} /\ owner'[q] = owner[q]
    BY <1>9 DEF Exit, TypeOK
  <2> QED
    BY <1>9, <2>1 DEF Exit, NoLost, NoLostChild, LaunchClear, Children
<1>10. ASSUME NEW p \in Pids, ForeignProcess(p) PROVE NoLost'
  <2>1. \A q \in Pids : proc'[q] \in {"child", "zombie"} => proc'[q] = proc[q]
    BY <1>10 DEF ForeignProcess, TypeOK
  <2> QED
    BY <1>10, <2>1 DEF ForeignProcess, daemonVars, NoLost, NoLostChild, LaunchClear, Children
<1>11. CASE UNCHANGED vars
  BY <1>11 DEF vars, NoLost, NoLostChild, LaunchClear, Children
<1> QED
  BY <1>1, <1>2, <1>3, <1>4, <1>5, <1>6, <1>7, <1>8, <1>9, <1>10, <1>11
     DEF Next, DaemonStep, Environment, Terminated, HonourStop, ExitAlone

\* No child of the daemon is ever forgotten, whatever exits, is reaped or is
\* started again, in whatever order, and whatever pids the kernel hands out.
THEOREM NoChildIsLost == Spec => []NoLostChild
<1>1. Init => NoLost
  BY DEF Init, NoLost, NoLostChild, LaunchClear, Children
<1> QED
  BY <1>1, TypeCorrect, NoLostStep, PTL DEF Spec, NoLost

-----------------------------------------------------------------------------
(* Layer 3: what was stopped is down *)

Down(s) == \A p \in Pids : owner[p] = s => proc[p] # "child"

StopPlaces == {"stop", "count", "poll", "next", "reply"}

\* A stopping command launches nothing: it is in stopServer() or in its loop.
StopPlace == op \in Stopping => pc \in StopPlaces \cup Dead \cup {"handler"}

\* The servers the loop has passed are down.
StopProgress ==
    pc \in StopPlaces =>
      /\ op \in {"stopAll", "stopDaemon"} => \A s \in 1..(cur - 1) : Down(s)
      /\ op \in Stopping /\ pc \in {"next", "reply"} => Down(cur)
      /\ op \in {"stopAll", "stopDaemon"} /\ pc = "reply" => cur = N

StopInv == StopPlace /\ StopProgress

LEMMA StoppedIsDown ==
    TypeOK /\ NoLostChild /\ StopInv => AnsweredMeansDown
BY ConstantsAssumption DEF TypeOK, NoLostChild, StopInv, StopProgress, StopPlaces,
   Down, AnsweredMeansDown, Children, Stopping

\* Only a launch takes a server up.
LEMMA DownStaysDown ==
    ASSUME TypeOK, NEW s \in Servers, Down(s), [Next]_vars, pc # "launch"
    PROVE  Down(s)'
<1>1. CASE UNCHANGED <<proc, owner>>
  BY <1>1 DEF Down
<1>2. CASE ReapFor(cur)
  BY <1>2 DEF ReapFor, Reaped, OwnersAfterReap, Down, TypeOK
<1>3. ASSUME NEW how, Die(how) PROVE Down(s)'
  BY <1>3, DeathTakesChildren DEF Down, Children
<1>4. ASSUME NEW p \in Pids, Exit(p) PROVE Down(s)'
  BY <1>4 DEF Exit, Down, TypeOK
<1>5. ASSUME NEW p \in Pids, ForeignProcess(p) PROVE Down(s)'
  BY <1>5 DEF ForeignProcess, Down, TypeOK
<1>6. CASE Relaunch \/ Construct \/ NextServer \/ LoopEnds \/ Reply \/ Interrupt
           \/ CountDown \/ Halt \/ Send \/ BackupBegins \/ BackupEnds
  BY <1>1, <1>6 DEF Relaunch, Construct, NextServer, LoopEnds, Reply, Interrupt,
     CountDown, Halt, Send, BackupBegins, BackupEnds, processVars
<1>7. CASE Receive
  BY <1>1, <1>7 DEF Receive, ReceiveSingle, ReceiveForEach, ReceiveUpdateAll, ReceiveList, Begin,
     processVars
<1>8. CASE ConstructFails \/ Exit0 \/ ReplyHangup \/ PipeFails \/ AccountMissing
           \/ BrokenPipe \/ ListThrows \/ HandlerEnds
  BY <1>3, <1>8 DEF ConstructFails, Exit0, ReplyHangup, PipeFails, AccountMissing,
     BrokenPipe, ListThrows, HandlerEnds
<1>9. CASE ListUndefined
  BY <1>1, <1>3, <1>9 DEF ListUndefined, processVars
<1>10. CASE StartCheck \/ StopCheck \/ Poll \/ RestartCheck \/ SendCheck
  BY <1>2, <1>10 DEF StartCheck, StopCheck, Poll, RestartCheck, SendCheck
<1>11. CASE ForkFails \/ \E p \in Pids : Launch(p)
  BY <1>11 DEF ForkFails, Launch
<1>12. CASE UNCHANGED vars
  BY <1>1, <1>12 DEF vars
<1> QED
  BY <1>4, <1>5, <1>6, <1>7, <1>8, <1>9, <1>10, <1>11, <1>12
     DEF Next, DaemonStep, Environment, Terminated, HonourStop, ExitAlone

LEMMA StopStep ==
    TypeOK /\ NoLostChild /\ StopInv /\ [Next]_vars => StopInv'
<1> SUFFICES ASSUME TypeOK, NoLostChild, StopInv, [Next]_vars PROVE StopInv'
  OBVIOUS
<1> USE ConstantsAssumption
<1>a. \A s \in Servers : Down(s) /\ pc # "launch" => Down(s)'
  BY DownStaysDown
<1>b. ASSUME pc' \in Dead \cup {"handler"} PROVE StopInv'
  BY <1>b DEF StopInv, StopPlace, StopProgress, StopPlaces, Dead
<1>c. ASSUME op' \notin Stopping PROVE StopInv'
  BY <1>c DEF StopInv, StopPlace, StopProgress, Stopping
<1>d. ASSUME pc' = pc, op' = op, cur' = cur PROVE StopInv'
  BY <1>a, <1>d DEF StopInv, StopPlace, StopProgress, StopPlaces, Stopping, TypeOK, Dead
<1>1. CASE ConstructFails \/ Exit0 \/ ReplyHangup \/ PipeFails \/ AccountMissing
           \/ BrokenPipe \/ ListThrows \/ HandlerEnds \/ Interrupt
  BY <1>1, <1>b DEF ConstructFails, Exit0, ReplyHangup, PipeFails, AccountMissing,
     BrokenPipe, ListThrows, HandlerEnds, Interrupt, Die, Dead
<1>2. CASE op \notin Stopping /\ op' = op
  BY <1>2, <1>c
<1>3. CASE Relaunch \/ Reply
  BY <1>3, <1>c DEF Relaunch, Reply, Stopping
<1>4. CASE Receive
  BY <1>4, EntryPlace DEF Receive, ReceiveSingle, ReceiveForEach, ReceiveUpdateAll, ReceiveList, Begin,
     Entry, StopInv, StopPlace, StopProgress, StopPlaces, Stopping, Starting, ForEach,
     Single, Updating, Restarting, BackingUp, Listing
<1>5. CASE NextServer /\ op \in Stopping
  <2>1. pc' = "stop" /\ op' = op /\ cur' = cur + 1
    BY <1>5 DEF NextServer, Entry, Stopping, Starting, Updating, Restarting,
       BackingUp, Listing
  <2>2. op \in {"stopAll", "stopDaemon"}
    BY <1>5 DEF NextServer, Stopping, ForEach
  <2>3. \A s \in 1..cur : Down(s)
    BY <1>5, <2>2 DEF NextServer, StopInv, StopProgress, StopPlaces, TypeOK
  <2>4. \A s \in 1..(cur' - 1) : Down(s)'
    BY <2>1, <2>3, <1>a, <1>5 DEF NextServer, TypeOK
  <2> QED
    BY <2>1, <2>4 DEF StopInv, StopPlace, StopProgress, StopPlaces
<1>6. CASE LoopEnds /\ op \in Stopping
  <2>1. pc = "next" /\ pc' = "reply" /\ op' = op /\ cur' = cur
    BY <1>6 DEF LoopEnds, Stopping, Silent, Listing
  <2>2. op \in {"stopAll", "stopDaemon"} => cur = N
    BY <1>6 DEF LoopEnds, ForEach
  <2> QED
    BY <2>1, <2>2, <1>6, <1>a DEF StopInv, StopPlace, StopProgress, StopPlaces, TypeOK
<1>7. CASE (StopCheck \/ Poll) /\ op \in Stopping
  <2>1. /\ ReapFor(cur) /\ op' = op /\ cur' = cur
        /\ pc \in StopPlaces /\ pc # "launch" /\ pc' \in {"count", "poll", "next"}
        /\ pc' = "next" => ~ Running(cur)
    BY <1>7 DEF StopCheck, Poll, StopPlaces, AfterStop, Stopping, Restarting, Updating
  <2>2. pc' = "next" => Down(cur)'
    BY <2>1, NotRunningMeansNoChild DEF Down, TypeOK
  <2> QED
    BY <2>1, <2>2, <1>a DEF StopInv, StopPlace, StopProgress, StopPlaces, TypeOK
<1>8. CASE (CountDown \/ Halt) /\ op \in Stopping
  <2>1. /\ op' = op /\ cur' = cur /\ pc \in StopPlaces /\ pc # "launch"
        /\ pc' \in {"count", "poll"}
    BY <1>8 DEF CountDown, Halt, StopPlaces
  <2> QED
    BY <2>1, <1>a DEF StopInv, StopPlace, StopProgress, StopPlaces, TypeOK
<1>9. ASSUME NEW p \in Pids, Exit(p) \/ ForeignProcess(p) PROVE StopInv'
  BY <1>9, <1>d DEF Exit, ForeignProcess, daemonVars
<1>10. CASE UNCHANGED vars
  BY <1>10, <1>d DEF vars
<1> QED
  <2>1. op \in Stopping => pc \in StopPlaces \cup Dead \cup {"handler"}
    BY DEF StopInv, StopPlace
  <2>2. CASE Construct \/ StartCheck \/ ForkFails \/ (\E p \in Pids : Launch(p))
             \/ RestartCheck \/ SendCheck \/ Send \/ BackupBegins \/ BackupEnds
             \/ ListUndefined
    BY <2>2, <2>1, <1>2 DEF Construct, StartCheck, ForkFails, Launch, RestartCheck,
       SendCheck, Send, BackupBegins, BackupEnds, ListUndefined, Die, StopPlaces, Dead
  <2>3. CASE (NextServer \/ LoopEnds \/ StopCheck \/ Poll \/ CountDown \/ Halt)
             /\ op \notin Stopping
    BY <2>3, <1>c DEF NextServer, LoopEnds, StopCheck, Poll, CountDown, Halt, Stopping
  <2> QED
    BY <2>2, <2>3, <1>1, <1>3, <1>4, <1>5, <1>6, <1>7, <1>8, <1>9, <1>10
       DEF Next, DaemonStep, Environment, Terminated, HonourStop, ExitAlone

\* When stopServer, stopAll or stopDaemon answers, the servers it was asked
\* to stop have no live process, however many of them crashed or were
\* interrupted on the way.
THEOREM AnswersAreTrue == Spec => []AnsweredMeansDown
<1>1. Init => StopInv
  BY DEF Init, StopInv, StopPlace, StopProgress, StopPlaces, Stopping
<1> QED
  BY <1>1, TypeCorrect, NoChildIsLost, StopStep, StoppedIsDown, PTL DEF Spec

-----------------------------------------------------------------------------
(* Layer 4: one process per server, across daemons *)

CleanInv ==
    /\ clean => \A p \in Pids : proc[p] # "orphan"
    /\ pc \in Dead => Children = {}

LEMMA CleanStep ==
    TypeOK /\ TypeOK' /\ AnsweredMeansDown /\ CleanInv /\ [Next]_vars => CleanInv'
<1> SUFFICES ASSUME TypeOK, TypeOK', AnsweredMeansDown, CleanInv, [Next]_vars
             PROVE  CleanInv'
  OBVIOUS
<1>a. ASSUME pc' \notin Dead, clean' = clean,
             \A p \in Pids : proc'[p] = "orphan" => proc[p] = "orphan"
      PROVE  CleanInv'
  BY <1>a DEF CleanInv
<1>b. ASSUME NEW how \in Dead \ {"exited"}, Die(how) PROVE CleanInv'
  BY <1>b, DeathTakesChildren DEF CleanInv, Die
<1>c. ASSUME pc' = pc, clean' = clean, Children' \subseteq Children,
             \A p \in Pids : proc'[p] = "orphan" => proc[p] = "orphan"
      PROVE  CleanInv'
  BY <1>c DEF CleanInv
<1>1. CASE Relaunch \/ Construct \/ NextServer \/ LoopEnds \/ Reply \/ Interrupt
           \/ CountDown \/ Halt \/ Send \/ BackupBegins \/ BackupEnds
  BY <1>1, <1>a, EntryPlace DEF Relaunch, Construct, NextServer, LoopEnds, Reply,
     Interrupt, CountDown, Halt, Send, BackupBegins, BackupEnds, processVars,
     historyVars, Dead, Commands
<1>2. CASE Receive
  BY <1>2, <1>a, EntryPlace DEF Receive, ReceiveSingle, ReceiveForEach,
     ReceiveUpdateAll, ReceiveList, Begin, processVars, historyVars, Dead, Commands
<1>3. CASE ConstructFails \/ ReplyHangup \/ PipeFails \/ AccountMissing
           \/ BrokenPipe \/ ListThrows \/ HandlerEnds
  BY <1>3, <1>b DEF ConstructFails, ReplyHangup, PipeFails, AccountMissing,
     BrokenPipe, ListThrows, HandlerEnds, Dead
<1>4. CASE Exit0
  <2>1. Die("exited") /\ pc = "reply" /\ op = "stopDaemon"
    BY <1>4 DEF Exit0
  <2>2. \A p \in Pids : proc[p] # "child"
    BY <2>1 DEF AnsweredMeansDown
  <2> QED
    BY <2>1, <2>2, DeathTakesChildren DEF CleanInv, Die, TypeOK
<1>5. CASE ListUndefined
  BY <1>5, <1>a, <1>b DEF ListUndefined, Dead, processVars, historyVars
<1>6. CASE StartCheck \/ StopCheck \/ Poll \/ RestartCheck \/ SendCheck
  <2>1. /\ ReapFor(cur) /\ clean' = clean
        /\ pc' \in {"next", "launch", "count", "start", "poll", "stop", "send"}
    BY <1>6 DEF StartCheck, StopCheck, Poll, RestartCheck, SendCheck, AfterStop,
       historyVars
  <2>2. \A p \in Pids : proc'[p] = "orphan" => proc[p] = "orphan"
    BY <2>1 DEF ReapFor, Reaped, TypeOK
  <2> QED
    BY <2>1, <2>2, <1>a DEF Dead
<1>7. CASE ForkFails \/ \E p \in Pids : Launch(p)
  BY <1>7, <1>a DEF ForkFails, Launch, Dead, processVars, historyVars, TypeOK
<1>8. ASSUME NEW p \in Pids, Exit(p) \/ ForeignProcess(p) PROVE CleanInv'
  BY <1>8, <1>c DEF Exit, ForeignProcess, daemonVars, historyVars, Children, TypeOK
<1>9. CASE UNCHANGED vars
  BY <1>9, <1>c DEF vars, Children
<1> QED
  BY <1>1, <1>2, <1>3, <1>4, <1>5, <1>6, <1>7, <1>8, <1>9
     DEF Next, DaemonStep, Environment, Terminated, HonourStop, ExitAlone

LEMMA CleanSpec == Spec => []CleanInv
<1>1. Init => CleanInv
  BY DEF Init, CleanInv, Dead
<1> QED
  BY <1>1, TypeCorrect, AnswersAreTrue, CleanStep, PTL DEF Spec

\* Two processes never share a world while every daemon so far was ended
\* through stopDaemon.
THEOREM OneProcessPerServer == Spec => []AtMostOneProcess
<1>1. NoLostChild /\ CleanInv => AtMostOneProcess
  BY DEF NoLostChild, CleanInv, AtMostOneProcess, ProcessesOf, Children
<1> QED
  BY <1>1, NoChildIsLost, CleanSpec, PTL

\* A stopDaemon leaves no server process behind.
THEOREM StopDaemonStopsAll == Spec => []StopDaemonLeavesNone
<1>1. CleanInv => StopDaemonLeavesNone
  BY DEF CleanInv, StopDaemonLeavesNone, ProcessesOf, Children, Dead
<1> QED
  BY <1>1, CleanSpec, PTL

-----------------------------------------------------------------------------
(* Layer 5: the pipes, and the read-only servers *)

\* After a failed fork() the numbers of a closed pipe, and whatever pipe takes
\* them, belong to a server without a process.
Misled(s) == serverPID[s] = NoPid /\ "fork" \in Faults

\* The reader of a server's pipe is its child, unless the server is misled; a
\* child reads its pipe.  The countdown is for a server that has a process.
PipeInv ==
    /\ \A s \in Servers : reader[s] \in Pids =>
         proc[reader[s]] = "child" /\ (owner[reader[s]] = s \/ Misled(s))
    /\ \A s \in Servers : reader[s] = Closed => Misled(s)
    /\ \A p \in Pids : proc[p] = "child" => reader[owner[p]] = p
    /\ pc = "count" => serverPID[cur] # NoPid

LEMMA PipeStep ==
    TypeOK /\ TypeOK' /\ NoLost /\ PipeInv /\ [Next]_vars => PipeInv'
<1> SUFFICES ASSUME TypeOK, TypeOK', NoLost, PipeInv, [Next]_vars PROVE PipeInv'
  OBVIOUS
<1> USE ConstantsAssumption
<1> USE DEF Misled
<1>a. ASSUME Quiet, pc' = "count" => pc = "count" /\ cur' = cur PROVE PipeInv'
  BY <1>a DEF Quiet, PipeInv
<1>b. ASSUME ReapFor(cur), reader' = reader, serverPID' = serverPID, cur' = cur,
             pc' = "count" => Running(cur)
      PROVE  PipeInv'
  <2>1. \A p \in Pids : proc[p] = "child" => proc'[p] = "child" /\ owner'[p] = owner[p]
    BY <1>b DEF ReapFor, Reaped, OwnersAfterReap, TypeOK
  <2>2. \A p \in Pids : proc'[p] = "child" => proc[p] = "child"
    BY <1>b DEF ReapFor, Reaped, TypeOK
  <2>3. pc' = "count" => serverPID[cur] # NoPid
    BY <1>b DEF Running
  <2> QED
    BY <1>b, <2>1, <2>2, <2>3 DEF PipeInv, TypeOK
<1>c. ASSUME NEW how \in Dead, Die(how) PROVE PipeInv'
  <2>1. \A s \in Servers : reader'[s] = NoPid
    BY <1>c DEF Die
  <2>2. \A p \in Pids : proc'[p] # "child"
    BY <1>c DEF Die
  <2>3. pc' # "count"
    BY <1>c DEF Die, Dead
  <2> QED
    BY <2>1, <2>2, <2>3 DEF PipeInv
<1>1. CASE Relaunch \/ Construct \/ NextServer \/ LoopEnds \/ Reply \/ Interrupt
           \/ CountDown \/ Halt \/ Send \/ BackupBegins \/ BackupEnds
  <2>1. Quiet
    BY <1>1 DEF Quiet, Relaunch, Construct, NextServer, LoopEnds, Reply,
       Interrupt, CountDown, Halt, Send, BackupBegins, BackupEnds, processVars
  <2>2. pc' = "count" => pc = "count" /\ cur' = cur
    BY <1>1, EntryPlace DEF Relaunch, Construct, NextServer, LoopEnds, Reply,
       Interrupt, CountDown, Halt, AfterStop, Send, BackupBegins, BackupEnds, Commands
  <2> QED
    BY <2>1, <2>2, <1>a
<1>2. CASE Receive
  <2>1. Quiet
    BY <1>2 DEF Quiet, Receive, ReceiveSingle, ReceiveForEach, ReceiveUpdateAll,
       ReceiveList, Begin, processVars
  <2>2. pc' # "count"
    BY <1>2, EntryPlace DEF Receive, ReceiveSingle, ReceiveForEach, ReceiveUpdateAll,
       ReceiveList, Begin, Commands, Single, ForEach
  <2> QED
    BY <2>1, <2>2, <1>a
<1>3. CASE ConstructFails \/ Exit0 \/ ReplyHangup \/ PipeFails \/ AccountMissing
           \/ BrokenPipe \/ ListThrows \/ HandlerEnds
  BY <1>3, <1>c DEF ConstructFails, Exit0, ReplyHangup, PipeFails, AccountMissing,
     BrokenPipe, ListThrows, HandlerEnds, Dead
<1>4. CASE ListUndefined
  BY <1>4, <1>a, <1>c DEF ListUndefined, Quiet, processVars, Dead
<1>5. CASE StartCheck \/ StopCheck \/ Poll \/ RestartCheck \/ SendCheck
  BY <1>5, <1>b DEF StartCheck, StopCheck, Poll, AfterStop, RestartCheck, SendCheck
<1>6. ASSUME NEW p \in Pids, Launch(p) PROVE PipeInv'
  <2>1. /\ proc' = [proc EXCEPT ![p] = "child"] /\ owner' = [owner EXCEPT ![p] = cur]
        /\ serverPID' = [serverPID EXCEPT ![cur] = p] /\ cur' = cur
        /\ pc' = "next" /\ proc[p] = "free"
    BY <1>6 DEF Launch, Allocatable
  <2>2. PICK shared \in SUBSET Dangling :
          reader' = [s \in Servers |-> IF s \in shared \cup {cur} THEN p ELSE reader[s]]
    BY <1>6 DEF Launch
  <2>3. \A s \in shared : s \in Servers /\ s # cur /\ reader[s] = Closed
    BY DEF Dangling
  <2>4. \A q \in Pids : proc[q] = "child" =>
                          q # p /\ owner[q] \in Servers /\ owner[q] # cur
                            /\ reader[owner[q]] = q
    BY <1>6, <2>1 DEF Launch, NoLost, NoLostChild, LaunchClear, Children, PipeInv
  <2>5. \A q \in Pids : proc[q] = "child" => reader'[owner[q]] = q
    BY <2>2, <2>3, <2>4
  <2>6. ASSUME NEW q \in Pids, proc'[q] = "child" PROVE reader'[owner'[q]] = q
    <3>1. CASE q = p
      <4>1. owner'[q] = cur /\ cur \in Servers
        BY <2>1, <3>1 DEF TypeOK
      <4> QED
        BY <2>2, <3>1, <4>1
    <3>2. CASE q # p
      <4>1. proc[q] = "child" /\ owner'[q] = owner[q]
        BY <2>1, <2>6, <3>2 DEF TypeOK
      <4> QED
        BY <2>5, <4>1
    <3> QED
      BY <3>1, <3>2
  <2>7. ASSUME NEW s \in Servers, reader'[s] \in Pids
        PROVE  proc'[reader'[s]] = "child" /\ (owner'[reader'[s]] = s \/ Misled(s)')
    <3>1. CASE s = cur
      BY <2>1, <2>2, <3>1 DEF TypeOK
    <3>2. CASE s \in shared
      BY <2>1, <2>2, <2>3, <3>2 DEF PipeInv, TypeOK
    <3>3. CASE s \notin shared \cup {cur}
      <4>1. reader'[s] = reader[s] /\ serverPID'[s] = serverPID[s]
        BY <2>1, <2>2, <3>3 DEF TypeOK
      <4>2. proc[reader[s]] = "child" /\ reader[s] # p
        BY <2>1, <2>7, <4>1 DEF PipeInv
      <4> QED
        BY <2>1, <2>7, <4>1, <4>2 DEF PipeInv, TypeOK
    <3> QED
      BY <3>1, <3>2, <3>3
  <2>8. \A s \in Servers : reader'[s] = Closed => Misled(s)'
    BY <2>1, <2>2 DEF PipeInv, TypeOK
  <2> QED
    BY <2>1, <2>6, <2>7, <2>8 DEF PipeInv
<1>7. CASE ForkFails
  <2>1. /\ reader' = [reader EXCEPT ![cur] = Closed]
        /\ serverPID' = [serverPID EXCEPT ![cur] = NoPid]
        /\ "fork" \in Faults /\ proc' = proc /\ owner' = owner /\ pc' = "next"
    BY <1>7 DEF ForkFails, processVars
  <2>2. \A q \in Pids : proc[q] = "child" => owner[q] \in Servers /\ owner[q] # cur
    BY <1>7 DEF ForkFails, NoLost, NoLostChild, LaunchClear, Children
  <2> QED
    BY <2>1, <2>2 DEF PipeInv, TypeOK
<1>8. ASSUME NEW p \in Pids, Exit(p) PROVE PipeInv'
  <2>1. \A q \in Pids : proc'[q] = "child" =>
                          q # p /\ proc[q] = "child" /\ owner'[q] = owner[q]
    BY <1>8 DEF Exit, TypeOK
  <2>2. \A q \in Pids : q # p => proc'[q] = proc[q] /\ owner'[q] = owner[q]
    BY <1>8 DEF Exit, TypeOK
  <2>3. \A s \in Servers : reader'[s] = IF reader[s] = p THEN Gone ELSE reader[s]
    BY <1>8 DEF Exit
  <2>4. \A q \in Pids : proc[q] = "child" => owner[q] \in Servers
    BY DEF NoLost, NoLostChild, Children
  <2>5. pc' = pc /\ cur' = cur /\ serverPID' = serverPID
    BY <1>8 DEF Exit
  <2> QED
    BY <2>1, <2>2, <2>3, <2>4, <2>5 DEF PipeInv
<1>9. ASSUME NEW p \in Pids, ForeignProcess(p) PROVE PipeInv'
  BY <1>9 DEF ForeignProcess, daemonVars, PipeInv, TypeOK
<1>10. CASE UNCHANGED vars
  BY <1>10, <1>a DEF vars, Quiet
<1> QED
  BY <1>1, <1>2, <1>3, <1>4, <1>5, <1>6, <1>7, <1>8, <1>9, <1>10
     DEF Next, DaemonStep, Environment, Terminated, HonourStop, ExitAlone

LEMMA PipeSpec == Spec => []PipeInv
<1>1. Init => PipeInv
  BY ConstantsAssumption DEF Init, PipeInv
<1>2. Spec => []NoLost
  <2>1. Init => NoLost
    BY DEF Init, NoLost, NoLostChild, LaunchClear, Children
  <2> QED
    BY <2>1, TypeCorrect, NoLostStep, PTL DEF Spec
<1> QED
  BY <1>1, <1>2, TypeCorrect, PipeStep, PTL DEF Spec

ReadonlyInv ==
    /\ ReadonlyOnlyInBackup
    /\ pc = "handler" => "interrupt" \in Faults

LEMMA ReadonlyStep ==
    TypeOK /\ NoLostChild /\ PipeInv /\ ReadonlyInv /\ [Next]_vars => ReadonlyInv'
<1> SUFFICES ASSUME TypeOK, NoLostChild, PipeInv, ReadonlyInv, [Next]_vars
             PROVE  ReadonlyInv'
  OBVIOUS
<1> USE ConstantsAssumption
\* A step from elsewhere than a backup finds no read-only child.
<1>a. ASSUME pc \notin {"archive", "handler"}, pc' # "handler",
             readonly' \subseteq readonly,
             \A p \in readonly : proc[p] = "orphan" => proc'[p] = "orphan"
      PROVE  ReadonlyInv'
  BY <1>a DEF ReadonlyInv, ReadonlyOnlyInBackup
\* SIGPIPE in a backup: the read-only child is the one that is gone.
<1>b. ASSUME NEW how \in Dead, Die(how), pc = "archive", reader[cur] \in {Gone, Closed}
      PROVE  ReadonlyInv'
  <2>1. \A p \in readonly : proc[p] = "orphan" /\ "interrupt" \in Faults
    BY <1>b DEF ReadonlyInv, ReadonlyOnlyInBackup, PipeInv, TypeOK
  <2> QED
    BY <1>b, <2>1 DEF Die, Dead, ReadonlyInv, ReadonlyOnlyInBackup, TypeOK
<1>c. ASSUME NEW how \in Dead, Die(how), pc # "archive" PROVE ReadonlyInv'
  BY <1>c DEF Die, Dead, ReadonlyInv, ReadonlyOnlyInBackup, TypeOK
<1>1. CASE Relaunch \/ Construct \/ NextServer \/ LoopEnds \/ Reply
           \/ CountDown \/ Halt \/ Send
  BY <1>1, <1>a, EntryPlace DEF Relaunch, Construct, NextServer, LoopEnds, Reply,
     CountDown, Halt, Send, processVars, Dead, Commands
<1>2. CASE Receive
  BY <1>2, <1>a, EntryPlace DEF Receive, ReceiveSingle, ReceiveForEach,
     ReceiveUpdateAll, ReceiveList, Begin, processVars, Commands
<1>3. CASE BackupBegins
  <2>1. /\ readonly' = readonly \cup Reader /\ pc' = "archive" /\ pc = "backup"
        /\ UNCHANGED <<cur, reader, proc, owner>>
    BY <1>3 DEF BackupBegins
  <2>2. \A p \in readonly : proc[p] = "orphan" /\ "interrupt" \in Faults
    BY <2>1 DEF ReadonlyInv, ReadonlyOnlyInBackup
  <2>3. \A p \in Reader : /\ proc[p] = "child" /\ reader[cur] = p
                          /\ "fork" \notin Faults => owner[p] = cur
    BY DEF Reader, PipeInv, Misled, TypeOK
  <2> QED
    BY <2>1, <2>2, <2>3 DEF ReadonlyInv, ReadonlyOnlyInBackup
<1>4. CASE BackupEnds
  BY <1>4 DEF BackupEnds, Reader, Write, PipeInv, ReadonlyInv, ReadonlyOnlyInBackup,
     TypeOK
<1>5. CASE Interrupt
  BY <1>5 DEF Interrupt, ReadonlyInv, ReadonlyOnlyInBackup, processVars
<1>6. CASE BrokenPipe
  BY <1>6, <1>b, <1>c DEF BrokenPipe, Dead
<1>7. CASE ConstructFails \/ Exit0 \/ ReplyHangup \/ PipeFails \/ AccountMissing
           \/ ListThrows \/ HandlerEnds
  BY <1>7, <1>c DEF ConstructFails, Exit0, ReplyHangup, PipeFails, AccountMissing,
     ListThrows, HandlerEnds, Dead
<1>8. CASE ListUndefined
  BY <1>8, <1>a, <1>c DEF ListUndefined, Dead, processVars
<1>9. CASE StartCheck \/ StopCheck \/ Poll \/ RestartCheck \/ SendCheck
  <2>1. \A p \in Pids : proc[p] = "orphan" => proc'[p] = "orphan"
    BY <1>9 DEF StartCheck, StopCheck, Poll, RestartCheck, SendCheck, ReapFor, Reaped,
       TypeOK
  <2> QED
    BY <1>9, <2>1, <1>a DEF StartCheck, StopCheck, Poll, RestartCheck, SendCheck,
       AfterStop, TypeOK
<1>10. ASSUME NEW p \in Pids, Launch(p) PROVE ReadonlyInv'
  BY <1>10 DEF Launch, Allocatable, ReadonlyInv, ReadonlyOnlyInBackup, TypeOK
<1>11. CASE ForkFails
  BY <1>11, <1>a DEF ForkFails, processVars
<1>12. ASSUME NEW p \in Pids, Exit(p) PROVE ReadonlyInv'
  BY <1>12 DEF Exit, ReadonlyInv, ReadonlyOnlyInBackup, TypeOK
<1>13. ASSUME NEW p \in Pids, ForeignProcess(p) PROVE ReadonlyInv'
  BY <1>13 DEF ForeignProcess, daemonVars, ReadonlyInv, ReadonlyOnlyInBackup, TypeOK
<1>14. CASE UNCHANGED vars
  BY <1>14 DEF vars, ReadonlyInv, ReadonlyOnlyInBackup
<1> QED
  BY <1>1, <1>2, <1>3, <1>4, <1>5, <1>6, <1>7, <1>8, <1>9, <1>10, <1>11, <1>12,
     <1>13, <1>14
     DEF Next, DaemonStep, Environment, Terminated, HonourStop, ExitAlone

\* A backup gives every server it made read-only its disk back, unless SIGINT
\* cuts it short.
THEOREM BackupsRestoreSaving == Spec => []ReadonlyOnlyInBackup
<1>1. Init => ReadonlyInv
  BY DEF Init, ReadonlyInv, ReadonlyOnlyInBackup
<1> QED
  BY <1>1, TypeCorrect, NoChildIsLost, PipeSpec, ReadonlyStep, PTL
     DEF Spec, ReadonlyInv

-----------------------------------------------------------------------------
(* Layer 6: SIGPIPE *)

\* Unless it has been taken, a pid that serverPID remembers is that server's, or
\* nobody's.
KnownPids ==
    ~ unforeseen =>
      \A s \in Servers : serverPID[s] # NoPid =>
        \/ proc[serverPID[s]] = "free"
        \/ proc[serverPID[s]] \in {"child", "zombie"} /\ owner[serverPID[s]] = s

\* A child that has been told to stop is being waited for.
HaltingWaited ==
    \A p \in halting :
      /\ proc[p] \in {"child", "orphan"}
      /\ proc[p] = "child" => pc \in {"poll", "handler"} /\ owner[p] = cur

\* What isRunning() found still holds at the guarded writes.
GuardHolds ==
    ~ unforeseen /\ pc \in {"count", "send"} => reader[cur] \in Pids

WritePlace == pc \in {"backup", "archive"} => op \in BackingUp

LEMMA RunningMeansReader ==
    ASSUME TypeOK, PipeInv, KnownPids, ~ unforeseen,
           NEW s \in Servers, Running(s)
    PROVE  reader[s] \in Pids
BY ConstantsAssumption DEF TypeOK, PipeInv, KnownPids, Running, Reaped

\* A history does not forget.
LEMMA UnforeseenStays == [Next]_vars /\ ~ unforeseen' => ~ unforeseen
<1> SUFFICES ASSUME [Next]_vars, ~ unforeseen' PROVE ~ unforeseen
  OBVIOUS
<1>1. CASE \E p \in Pids : Launch(p) \/ Exit(p) \/ ForeignProcess(p)
  BY <1>1, Zenon DEF Launch, Exit, ForeignProcess
<1>2. CASE unforeseen' = unforeseen
  BY <1>2
<1> QED
  BY <1>1, <1>2 DEF Next, DaemonStep, Environment, Terminated, HonourStop, ExitAlone,
     Relaunch, Construct, ConstructFails, NextServer, LoopEnds, Reply, Exit0,
     ReplyHangup, StartCheck, ForkFails, PipeFails, AccountMissing, BrokenPipe,
     StopCheck, CountDown, Halt, Poll, RestartCheck, SendCheck, Send, BackupBegins,
     BackupEnds, ListThrows, ListUndefined, HandlerEnds, Interrupt,
     Receive, ReceiveSingle, ReceiveForEach, ReceiveUpdateAll, ReceiveList, Begin, Die, vars,
     historyVars

LEMMA KnownPidsStep ==
    TypeOK /\ TypeOK' /\ KnownPids /\ [Next]_vars => KnownPids'
<1> SUFFICES ASSUME TypeOK, TypeOK', KnownPids, [Next]_vars, ~ unforeseen'
             PROVE  KnownPids'
  BY DEF KnownPids
<1> USE ConstantsAssumption
<1>0. ~ unforeseen
  BY UnforeseenStays
<1>a. ASSUME Quiet PROVE KnownPids'
  BY <1>a, <1>0 DEF Quiet, KnownPids
<1>b. ASSUME ReapFor(cur), serverPID' = serverPID PROVE KnownPids'
  BY <1>b, <1>0 DEF ReapFor, Reaped, OwnersAfterReap, KnownPids, TypeOK
<1>c. ASSUME NEW how, Die(how) PROVE KnownPids'
  BY <1>c, <1>0 DEF Die, KnownPids, TypeOK
<1>1. CASE Relaunch \/ Construct \/ NextServer \/ LoopEnds \/ Reply \/ Interrupt
           \/ CountDown \/ Halt \/ Send \/ BackupBegins \/ BackupEnds
  BY <1>1, <1>a DEF Quiet, Relaunch, Construct, NextServer, LoopEnds, Reply,
     Interrupt, CountDown, Halt, Send, BackupBegins, BackupEnds, processVars
<1>2. CASE Receive
  BY <1>2, <1>a DEF Quiet, Receive, ReceiveSingle, ReceiveForEach, ReceiveUpdateAll, ReceiveList,
     Begin, processVars
<1>3. CASE ConstructFails \/ Exit0 \/ ReplyHangup \/ PipeFails \/ AccountMissing
           \/ BrokenPipe \/ ListThrows \/ HandlerEnds
  BY <1>3, <1>c DEF ConstructFails, Exit0, ReplyHangup, PipeFails, AccountMissing,
     BrokenPipe, ListThrows, HandlerEnds
<1>4. CASE ListUndefined
  BY <1>4, <1>a, <1>c DEF ListUndefined, Quiet, processVars
<1>5. CASE StartCheck \/ StopCheck \/ Poll \/ RestartCheck \/ SendCheck
  BY <1>5, <1>b DEF StartCheck, StopCheck, Poll, RestartCheck, SendCheck
<1>6. ASSUME NEW p \in Pids, Launch(p) PROVE KnownPids'
  <2>1. \A s \in Servers \ {cur} : serverPID[s] # p
    BY <1>6, Zenon DEF Launch
  <2> QED
    BY <1>6, <1>0, <2>1 DEF Launch, KnownPids, TypeOK
<1>7. CASE ForkFails
  BY <1>7, <1>0 DEF ForkFails, KnownPids, TypeOK, processVars
<1>8. ASSUME NEW p \in Pids, Exit(p) PROVE KnownPids'
  BY <1>8, <1>0 DEF Exit, KnownPids, TypeOK
<1>9. ASSUME NEW p \in Pids, ForeignProcess(p) PROVE KnownPids'
  <2>1. \A s \in Servers : serverPID[s] # p
    BY <1>9, Zenon DEF ForeignProcess
  <2> QED
    BY <1>9, <1>0, <2>1 DEF ForeignProcess, daemonVars, KnownPids, TypeOK
<1>10. CASE UNCHANGED vars
  BY <1>10, <1>a DEF vars, Quiet
<1> QED
  BY <1>1, <1>2, <1>3, <1>4, <1>5, <1>6, <1>7, <1>8, <1>9, <1>10
     DEF Next, DaemonStep, Environment, Terminated, HonourStop, ExitAlone

LEMMA HaltingStep ==
    TypeOK /\ NoLostChild /\ PipeInv /\ HaltingWaited /\ [Next]_vars => HaltingWaited'
<1> SUFFICES ASSUME TypeOK, NoLostChild, PipeInv, HaltingWaited, [Next]_vars
             PROVE  HaltingWaited'
  OBVIOUS
<1> USE ConstantsAssumption
\* Elsewhere than in the wait for a server no child has been told to stop.
<1>a. ASSUME pc \notin {"poll", "handler"}, halting' = halting,
             \A p \in halting : proc[p] = "orphan" => proc'[p] = "orphan"
      PROVE  HaltingWaited'
  BY <1>a DEF HaltingWaited
<1>b. ASSUME NEW how, Die(how) PROVE HaltingWaited'
  BY <1>b DEF Die, HaltingWaited, TypeOK
<1>1. CASE Relaunch \/ Construct \/ NextServer \/ LoopEnds \/ Reply
           \/ CountDown \/ Send \/ BackupBegins \/ BackupEnds
  BY <1>1, <1>a DEF Relaunch, Construct, NextServer, LoopEnds, Reply,
     CountDown, Send, BackupBegins, BackupEnds, processVars, Dead
<1>2. CASE Receive
  BY <1>2, <1>a DEF Receive, ReceiveSingle, ReceiveForEach, ReceiveUpdateAll, ReceiveList, Begin,
     processVars
<1>3. CASE Halt
  <2>1. \A p \in Reader : proc[p] = "child" /\ owner[p] = cur
    BY <1>3 DEF Halt, Reader, PipeInv, Misled, TypeOK
  <2> QED
    BY <1>3, <2>1 DEF Halt, HaltingWaited, TypeOK
<1>4. CASE Interrupt
  BY <1>4 DEF Interrupt, HaltingWaited, processVars
<1>5. CASE ConstructFails \/ Exit0 \/ ReplyHangup \/ PipeFails \/ AccountMissing
           \/ BrokenPipe \/ ListThrows \/ HandlerEnds
  BY <1>5, <1>b DEF ConstructFails, Exit0, ReplyHangup, PipeFails, AccountMissing,
     BrokenPipe, ListThrows, HandlerEnds
<1>6. CASE ListUndefined
  BY <1>6, <1>a, <1>b DEF ListUndefined, processVars
<1>7. CASE StartCheck \/ StopCheck \/ RestartCheck \/ SendCheck
  <2>1. \A p \in Pids : proc[p] = "orphan" => proc'[p] = "orphan"
    BY <1>7 DEF StartCheck, StopCheck, RestartCheck, SendCheck, ReapFor, Reaped, TypeOK
  <2> QED
    BY <1>7, <2>1, <1>a DEF StartCheck, StopCheck, RestartCheck, SendCheck, TypeOK
<1>8. CASE Poll
  <2>1. ReapFor(cur) /\ cur' = cur /\ halting' = halting /\ pc = "poll"
    BY <1>8 DEF Poll
  <2>2. \A p \in Pids : proc[p] \in {"child", "orphan"} =>
                          proc'[p] = proc[p] /\ owner'[p] = owner[p]
    BY <2>1 DEF ReapFor, Reaped, OwnersAfterReap, TypeOK
  <2>3. pc' = "poll" \/ \A p \in Pids : owner'[p] = cur => proc'[p] # "child"
    BY <1>8, <2>1, NotRunningMeansNoChild DEF Poll, TypeOK
  <2>4. \A p \in halting : proc[p] \in {"child", "orphan"} /\
                             (proc[p] = "child" => owner[p] = cur)
    BY DEF HaltingWaited
  <2> QED
    BY <2>1, <2>2, <2>3, <2>4 DEF HaltingWaited, TypeOK
<1>9. ASSUME NEW p \in Pids, Launch(p) PROVE HaltingWaited'
  BY <1>9 DEF Launch, Allocatable, HaltingWaited, TypeOK
<1>10. CASE ForkFails
  BY <1>10, <1>a DEF ForkFails, processVars
<1>11. ASSUME NEW p \in Pids, Exit(p) PROVE HaltingWaited'
  BY <1>11 DEF Exit, HaltingWaited, TypeOK
<1>12. ASSUME NEW p \in Pids, ForeignProcess(p) PROVE HaltingWaited'
  BY <1>12 DEF ForeignProcess, daemonVars, HaltingWaited, TypeOK
<1>13. CASE UNCHANGED vars
  BY <1>13 DEF vars, HaltingWaited
<1> QED
  BY <1>1, <1>2, <1>3, <1>4, <1>5, <1>6, <1>7, <1>8, <1>9, <1>10, <1>11, <1>12, <1>13
     DEF Next, DaemonStep, Environment, Terminated, HonourStop, ExitAlone

LEMMA GuardStep ==
    TypeOK /\ TypeOK' /\ PipeInv /\ PipeInv' /\ KnownPids /\ HaltingWaited /\ GuardHolds
      /\ [Next]_vars => GuardHolds'
<1> SUFFICES ASSUME TypeOK, TypeOK', PipeInv, PipeInv', KnownPids, HaltingWaited,
                    GuardHolds, [Next]_vars, ~ unforeseen',
                    pc' \in {"count", "send"}
             PROVE  reader'[cur'] \in Pids
  BY DEF GuardHolds
<1> USE ConstantsAssumption
<1>a. ~ unforeseen
  BY UnforeseenStays
<1>1. CASE StopCheck \/ SendCheck
  BY <1>1, <1>a, RunningMeansReader DEF StopCheck, SendCheck, AfterStop, TypeOK
<1>2. CASE CountDown
  BY <1>2, <1>a DEF CountDown, GuardHolds
<1>3. ASSUME NEW p \in Pids, Exit(p) PROVE reader'[cur'] \in Pids
  <2>1. /\ pc \in {"count", "send"} /\ cur' = cur
        /\ reader'[cur] = IF reader[cur] = p THEN Gone ELSE reader[cur]
        /\ proc[p] = "child" => p \in halting
    BY <1>3 DEF Exit, TypeOK
  <2>2. reader[cur] \in Pids
    BY <2>1, <1>a DEF GuardHolds
  <2>3. reader[cur] # p
    BY <2>1, <2>2 DEF PipeInv, HaltingWaited, TypeOK
  <2> QED
    BY <2>1, <2>2, <2>3
<1>4. CASE UNCHANGED <<pc, cur, reader>>
  BY <1>4, <1>a DEF GuardHolds
<1>5. ASSUME NEW how \in Dead, Die(how) PROVE FALSE
  BY <1>5 DEF Die, Dead
<1>6. CASE ConstructFails \/ Exit0 \/ ReplyHangup \/ PipeFails \/ AccountMissing
           \/ BrokenPipe \/ ListThrows \/ HandlerEnds
  BY <1>5, <1>6 DEF ConstructFails, Exit0, ReplyHangup, PipeFails, AccountMissing,
     BrokenPipe, ListThrows, HandlerEnds, Dead
<1>7. CASE Relaunch \/ Construct \/ LoopEnds \/ Reply \/ Interrupt \/ StartCheck
           \/ ForkFails \/ (\E p \in Pids : Launch(p)) \/ Halt \/ Poll \/ RestartCheck
           \/ Send \/ BackupBegins \/ BackupEnds
  BY <1>7 DEF Relaunch, Construct, LoopEnds, Reply, Interrupt, StartCheck, ForkFails,
     Launch, Halt, Poll, AfterStop, RestartCheck, Send, BackupBegins, BackupEnds
<1>8. CASE Receive \/ NextServer
  BY <1>8, EntryPlace DEF Receive, ReceiveSingle, ReceiveForEach, ReceiveUpdateAll, ReceiveList,
     Begin, NextServer, Commands
<1>9. CASE ListUndefined
  BY <1>9, <1>5 DEF ListUndefined, Dead
<1>10. CASE UNCHANGED vars \/ \E p \in Pids : ForeignProcess(p)
  BY <1>4, <1>10 DEF vars, ForeignProcess, daemonVars
<1> QED
  BY <1>1, <1>2, <1>3, <1>6, <1>7, <1>8, <1>9, <1>10
     DEF Next, DaemonStep, Environment, Terminated, HonourStop, ExitAlone

LEMMA EntryBackup ==
    \A c \in Single \cup ForEach \cup {"setup"} : Entry(c) = "backup" => c \in BackingUp
BY DEF Entry, Commands, Single, ForEach, Starting, Stopping,
       Updating, Restarting, BackingUp, Listing

LEMMA SigpipeStep ==
    TypeOK /\ GuardHolds /\ WritePlace /\ SigpipeOnlyFromBackup /\ [Next]_vars
      => WritePlace' /\ SigpipeOnlyFromBackup'
<1> SUFFICES ASSUME TypeOK, GuardHolds, WritePlace, SigpipeOnlyFromBackup, [Next]_vars
             PROVE  WritePlace' /\ SigpipeOnlyFromBackup'
  OBVIOUS
<1> USE ConstantsAssumption
<1>a. ASSUME pc' \notin {"backup", "archive", "brokenpipe"}
      PROVE  WritePlace' /\ SigpipeOnlyFromBackup'
  BY <1>a DEF WritePlace, SigpipeOnlyFromBackup
<1>b. ASSUME NEW how \in Dead \ {"brokenpipe"}, Die(how)
      PROVE  WritePlace' /\ SigpipeOnlyFromBackup'
  BY <1>b, <1>a DEF Die, Dead
<1>1. CASE BrokenPipe
  <2>1. /\ reader[cur] \notin Pids /\ pc \in Writing /\ op' = op /\ unforeseen' = unforeseen
        /\ pc' = "brokenpipe"
    BY <1>1 DEF BrokenPipe, Die
  <2> QED
    BY <2>1 DEF GuardHolds, Writing, WritePlace, SigpipeOnlyFromBackup
<1>2. CASE ConstructFails \/ Exit0 \/ ReplyHangup \/ PipeFails \/ AccountMissing
           \/ ListThrows \/ HandlerEnds
  BY <1>2, <1>b DEF ConstructFails, Exit0, ReplyHangup, PipeFails, AccountMissing,
     ListThrows, HandlerEnds, Dead
<1>3. CASE ListUndefined
  BY <1>3, <1>a, <1>b DEF ListUndefined, Dead
<1>4. CASE Relaunch \/ Construct \/ LoopEnds \/ Reply \/ Interrupt \/ StartCheck
           \/ ForkFails \/ (\E p \in Pids : Launch(p)) \/ StopCheck \/ CountDown \/ Halt
           \/ Poll \/ RestartCheck \/ SendCheck \/ Send \/ BackupEnds
  BY <1>4, <1>a DEF Relaunch, Construct, LoopEnds, Reply, Interrupt, StartCheck,
     ForkFails, Launch, StopCheck, CountDown, Halt, Poll, AfterStop, RestartCheck,
     SendCheck, Send, BackupEnds
<1>5. CASE BackupBegins
  BY <1>5 DEF BackupBegins, WritePlace, SigpipeOnlyFromBackup
<1>6. CASE Receive
  BY <1>6, EntryPlace, EntryBackup DEF Receive, ReceiveSingle, ReceiveForEach,
     ReceiveUpdateAll, ReceiveList, Begin, Commands, WritePlace, SigpipeOnlyFromBackup
<1>7. CASE NextServer
  BY <1>7, EntryPlace, EntryBackup DEF NextServer, Commands, WritePlace,
     SigpipeOnlyFromBackup
<1>8. ASSUME NEW p \in Pids, Exit(p) \/ ForeignProcess(p)
      PROVE  WritePlace' /\ SigpipeOnlyFromBackup'
  <2>1. pc' = pc /\ op' = op
    BY <1>8 DEF Exit, ForeignProcess, daemonVars
  <2>2. ~ unforeseen' => ~ unforeseen
    BY UnforeseenStays
  <2> QED
    BY <2>1, <2>2 DEF WritePlace, SigpipeOnlyFromBackup
<1>9. CASE UNCHANGED vars
  BY <1>9 DEF vars, WritePlace, SigpipeOnlyFromBackup
<1> QED
  BY <1>1, <1>2, <1>3, <1>4, <1>5, <1>6, <1>7, <1>8, <1>9
     DEF Next, DaemonStep, Environment, Terminated, HonourStop, ExitAlone

\* The isRunning() guards protect every write but those of a backup, as long
\* as no server exits unasked and no pid is taken that a server remembers.
THEOREM GuardsSuffice == Spec => []SigpipeOnlyFromBackup
<1>1. Init => KnownPids /\ HaltingWaited /\ GuardHolds /\ WritePlace
                /\ SigpipeOnlyFromBackup
  BY DEF Init, KnownPids, HaltingWaited, GuardHolds, WritePlace, SigpipeOnlyFromBackup
<1> QED
  BY <1>1, TypeCorrect, NoChildIsLost, PipeSpec, KnownPidsStep, HaltingStep, GuardStep,
     SigpipeStep, PTL DEF Spec

-----------------------------------------------------------------------------
(* Layer 7: the registry *)

\* A server has one child at most, so that it is down, up or told.
LEMMA StatusIs ==
    ASSUME TypeOK, NoLostChild, NEW s \in Servers
    PROVE  StatusOf(s) = IF Alive(s) = {} THEN "down"
                         ELSE IF Alive(s) \subseteq halting THEN "told" ELSE "up"
<1>1. \A p, q \in Alive(s) : p = q
  BY DEF NoLostChild, Children, Alive
<1> QED
  BY <1>1 DEF StatusOf

\* Steps that leave the children, and what they have been told, alone.
SameChildren ==
    \A p \in Pids :
      /\ proc'[p] = "child" <=> proc[p] = "child"
      /\ proc[p] = "child" => owner'[p] = owner[p] /\ (p \in halting' <=> p \in halting)

LEMMA SameStatus ==
    ASSUME TypeOK, TypeOK', NoLostChild, NoLostChild', SameChildren, NEW s \in Servers
    PROVE  StatusOf(s)' = StatusOf(s)
<1>1. Alive(s)' = Alive(s)
  BY DEF SameChildren, Alive
<1>2. Alive(s) \subseteq halting' <=> Alive(s) \subseteq halting
  BY DEF SameChildren, Alive
<1>3. StatusOf(s)' = IF Alive(s)' = {} THEN "down"
                     ELSE IF Alive(s)' \subseteq halting' THEN "told" ELSE "up"
  <2>1. \A p, q \in Alive(s)' : p = q
    BY DEF NoLostChild, Children, Alive
  <2> QED
    BY <2>1 DEF StatusOf
<1> QED
  BY <1>1, <1>2, <1>3, StatusIs

\* One server changes as the registry allows, and the others do not.
LEMMA OneChanges ==
    ASSUME NEW s \in Servers, \A t \in Servers \ {s} : StatusOf(t)' = StatusOf(t),
           \/ StatusOf(s) = "down" /\ StatusOf(s)' = "up"
           \/ /\ StatusOf(s) = "up" /\ StatusOf(s)' = "told"
              /\ \A t \in Servers : StatusOf(t) # "told"
           \/ StatusOf(s) # "down" /\ StatusOf(s)' = "down"
           \/ StatusOf(s)' = StatusOf(s)
    PROVE  [Registry!Next]_([t \in Servers |-> StatusOf(t)])
<1> DEFINE status == [t \in Servers |-> StatusOf(t)]
<1>1. status' = [t \in Servers |-> StatusOf(t)']
  OBVIOUS
<1>2. status' = [status EXCEPT ![s] = StatusOf(s)']
  BY <1>1
<1>3. status[s] = StatusOf(s) /\ \A t \in Servers : status[t] = StatusOf(t)
  OBVIOUS
<1> HIDE DEF status
<1>4. CASE StatusOf(s) = "down" /\ StatusOf(s)' = "up"
  BY <1>2, <1>3, <1>4 DEF Registry!Next, Registry!Start, status
<1>5. CASE /\ StatusOf(s) = "up" /\ StatusOf(s)' = "told"
           /\ \A t \in Servers : StatusOf(t) # "told"
  BY <1>2, <1>3, <1>5 DEF Registry!Next, Registry!Tell, status
<1>6. CASE StatusOf(s) # "down" /\ StatusOf(s)' = "down"
  BY <1>2, <1>3, <1>6 DEF Registry!Next, Registry!GoDown, status
<1>7. CASE StatusOf(s)' = StatusOf(s)
  BY <1>1, <1>7 DEF status
<1> QED
  BY <1>4, <1>5, <1>6, <1>7

LEMMA RegistryStep ==
    TypeOK /\ TypeOK' /\ NoLost /\ NoLost' /\ PipeInv /\ HaltingWaited /\ [Next]_vars
      => [Registry!Next]_([s \in Servers |-> StatusOf(s)])
<1> SUFFICES ASSUME TypeOK, TypeOK', NoLost, NoLost', PipeInv, HaltingWaited, [Next]_vars
             PROVE  [Registry!Next]_([s \in Servers |-> StatusOf(s)])
  OBVIOUS
<1> USE ConstantsAssumption
<1>0. NoLostChild /\ NoLostChild'
  BY DEF NoLost
<1>a. ASSUME SameChildren PROVE [Registry!Next]_([s \in Servers |-> StatusOf(s)])
  BY <1>a, <1>0, SameStatus
<1>b. ASSUME UNCHANGED <<proc, owner, halting>> PROVE SameChildren
  BY <1>b DEF SameChildren
<1>c. ASSUME NEW how, Die(how) PROVE [Registry!Next]_([s \in Servers |-> StatusOf(s)])
  <2>1. \A s \in Servers : Alive(s)' = {}
    BY <1>c DEF Die, Alive, TypeOK
  <2>2. \A s \in Servers : StatusOf(s)' = "down"
    BY <2>1 DEF StatusOf
  <2> QED
    BY <2>2 DEF Registry!Next, Registry!Forget
<1>d. ASSUME ReapFor(cur), halting' = halting PROVE SameChildren
  BY <1>d DEF ReapFor, Reaped, OwnersAfterReap, SameChildren, TypeOK
<1>1. CASE Relaunch \/ Construct \/ NextServer \/ LoopEnds \/ Reply \/ Interrupt
           \/ CountDown \/ Send \/ BackupBegins \/ BackupEnds \/ ForkFails
  BY <1>1, <1>a, <1>b DEF Relaunch, Construct, NextServer, LoopEnds, Reply, Interrupt,
     CountDown, Send, BackupBegins, BackupEnds, ForkFails, processVars
<1>2. CASE Receive
  BY <1>2, <1>a, <1>b DEF Receive, ReceiveSingle, ReceiveForEach, ReceiveUpdateAll,
     ReceiveList, Begin, processVars
<1>3. CASE ConstructFails \/ Exit0 \/ ReplyHangup \/ PipeFails \/ AccountMissing
           \/ BrokenPipe \/ ListThrows \/ HandlerEnds
  BY <1>3, <1>c DEF ConstructFails, Exit0, ReplyHangup, PipeFails, AccountMissing,
     BrokenPipe, ListThrows, HandlerEnds
<1>4. CASE ListUndefined
  BY <1>4, <1>a, <1>b, <1>c DEF ListUndefined, processVars
<1>5. CASE StartCheck \/ StopCheck \/ Poll \/ RestartCheck \/ SendCheck
  BY <1>5, <1>a, <1>d DEF StartCheck, StopCheck, Poll, RestartCheck, SendCheck
<1>6. ASSUME NEW p \in Pids, Launch(p)
      PROVE  [Registry!Next]_([s \in Servers |-> StatusOf(s)])
  <2>1. PICK s \in Servers : s = cur
    BY DEF TypeOK
  <2>2. /\ pc = "launch" /\ proc[p] = "free" /\ halting' = halting
        /\ proc' = [proc EXCEPT ![p] = "child"]
        /\ owner' = [owner EXCEPT ![p] = s]
    BY <1>6, <2>1 DEF Launch, Allocatable
  <2>3. Alive(s) = {}
    BY <2>1, <2>2 DEF NoLost, LaunchClear, Children, Alive
  <2>4. Alive(s)' = {p} /\ p \notin halting'
    BY <2>2, <2>3 DEF Alive, HaltingWaited, TypeOK
  <2>5. StatusOf(s) = "down" /\ StatusOf(s)' = "up"
    BY <2>3, <2>4 DEF StatusOf
  <2>6. \A t \in Servers \ {s} : Alive(t)' = Alive(t)
    BY <2>2 DEF Alive, TypeOK
  <2>7. \A t \in Servers \ {s} : StatusOf(t)' = StatusOf(t)
    BY <2>2, <2>6 DEF StatusOf
  <2> QED
    BY <2>5, <2>7, OneChanges
<1>7. CASE Halt
  <2>1. PICK s \in Servers : s = cur
    BY DEF TypeOK
  <2>2. /\ pc = "count" /\ proc' = proc /\ owner' = owner
        /\ halting' = halting \cup Reader
    BY <1>7 DEF Halt
  <2>3. \A p \in Reader : proc[p] = "child" /\ owner[p] = s
    BY <1>7, <2>1 DEF Halt, Reader, PipeInv, Misled, TypeOK
  <2>4. \A t \in Servers : Alive(t)' = Alive(t) /\ Alive(t) \cap halting = {}
    BY <2>2 DEF Alive, HaltingWaited
  <2>5. \A t \in Servers : StatusOf(t) # "told"
    BY <2>4, <1>0, StatusIs
  <2>6. \A t \in Servers \ {s} : StatusOf(t)' = StatusOf(t)
    <3>1. \A t \in Servers \ {s} : Alive(t) \cap halting' = {}
      BY <2>2, <2>3, <2>4 DEF Alive
    <3> QED
      BY <2>4, <3>1 DEF StatusOf
  <2>7. CASE Alive(s) \cap Reader = {}
    <3>1. Alive(s) \cap halting' = {}
      BY <2>2, <2>4, <2>7
    <3>2. StatusOf(s)' = StatusOf(s)
      BY <2>4, <3>1 DEF StatusOf
    <3> QED
      BY <2>6, <3>2, OneChanges
  <2>8. CASE Alive(s) \cap Reader # {}
    <3>1. PICK p \in Alive(s) : p \in Reader
      BY <2>8
    <3>2. Alive(s) = {p}
      BY <1>0, <3>1 DEF NoLostChild, Children, Alive
    <3>3. StatusOf(s) = "up" /\ StatusOf(s)' = "told"
      BY <2>2, <2>4, <3>1, <3>2 DEF StatusOf
    <3> QED
      BY <2>5, <2>6, <3>3, OneChanges
  <2> QED
    BY <2>7, <2>8
<1>8. ASSUME NEW p \in Pids, Exit(p)
      PROVE  [Registry!Next]_([s \in Servers |-> StatusOf(s)])
  <2>1. CASE proc[p] # "child"
    BY <1>8, <2>1, <1>a DEF Exit, SameChildren, TypeOK
  <2>2. CASE proc[p] = "child"
    <3>1. PICK s \in Servers : owner[p] = s /\ Alive(s) = {p}
      BY <1>0, <2>2 DEF NoLostChild, Children, Alive
    <3>2. /\ proc' = [proc EXCEPT ![p] = "zombie"] /\ owner' = owner
          /\ halting' = halting \ {p}
      BY <1>8, <2>2 DEF Exit, TypeOK
    <3>3. Alive(s)' = {}
      BY <3>1, <3>2 DEF Alive, TypeOK
    <3>4. StatusOf(s) # "down" /\ StatusOf(s)' = "down"
      BY <3>1, <3>3 DEF StatusOf
    <3>5. \A t \in Servers \ {s} : Alive(t)' = Alive(t) /\ p \notin Alive(t)
      BY <3>1, <3>2 DEF Alive, TypeOK
    <3>6. \A t \in Servers \ {s} : StatusOf(t)' = StatusOf(t)
      BY <3>2, <3>5 DEF StatusOf
    <3> QED
      BY <3>4, <3>6, OneChanges
  <2> QED
    BY <2>1, <2>2
<1>9. ASSUME NEW p \in Pids, ForeignProcess(p)
      PROVE  [Registry!Next]_([s \in Servers |-> StatusOf(s)])
  BY <1>9, <1>a DEF ForeignProcess, SameChildren, TypeOK
<1>10. CASE UNCHANGED vars
  BY <1>10, <1>a, <1>b DEF vars
<1> QED
  BY <1>1, <1>2, <1>3, <1>4, <1>5, <1>6, <1>7, <1>8, <1>9, <1>10
     DEF Next, DaemonStep, Environment, Terminated, HonourStop, ExitAlone

LEMMA HaltingSpec == Spec => []HaltingWaited
<1>1. Init => HaltingWaited
  BY DEF Init, HaltingWaited
<1> QED
  BY <1>1, TypeCorrect, NoChildIsLost, PipeSpec, HaltingStep, PTL DEF Spec

\* The servers go up and down as ServerRegistry promises: a server that is told
\* to stop is down before it is up again, and none is told before the last is down.
THEOREM RegistryImplemented == Spec => ImplementsRegistry
<1>1. Init => Registry!Init
  <2> SUFFICES ASSUME Init PROVE Registry!Init
    OBVIOUS
  <2>1. \A s \in Servers : Alive(s) = {}
    BY DEF Init, Alive
  <2>2. \A s \in Servers : StatusOf(s) = "down"
    BY <2>1 DEF StatusOf
  <2> QED
    BY <2>2 DEF Registry!Init
<1>2. Spec => []NoLost
  <2>1. Init => NoLost
    BY DEF Init, NoLost, NoLostChild, LaunchClear, Children
  <2> QED
    BY <2>1, TypeCorrect, NoLostStep, PTL DEF Spec
<1> QED
  BY <1>1, <1>2, TypeCorrect, PipeSpec, HaltingSpec, RegistryStep, PTL
     DEF Spec, ImplementsRegistry, Registry!Spec
=============================================================================
