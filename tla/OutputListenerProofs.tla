------------------------ MODULE OutputListenerProofs ------------------------
(***************************************************************************)
(* Theorems about OutputListener, for any number of launches, any size of  *)
(* the pipes and any choice of faults.                                     *)
(***************************************************************************)
EXTENDS OutputListener, TLAPS

\* No thread is left when the daemon has come to grief.
CrashedAtRest == crashed => \A t \in Launches : thread[t] \in {"none", "ended"}

\* Only what was launched runs.
Started == alive => launches > 0

\* The invariant is about a base that is used as the code means it to be.
Calm == ~ hurried /\ ~ crashed

\* A thread that has still to enter the loop.
OnTheWay(t) == thread[t] \in {"created", "added", "entering"}

\* The flag is set while one thread is beyond its test, and only the thread of the
\* last launch can still be before it.
Loops ==
    /\ \A t \in Launches : t > launches => thread[t] = "none"
    /\ \A t \in Launches : OnTheWay(t) => t = launches
    /\ \A t, u \in Launches : Inside(t) /\ Inside(u) => t = u
    /\ running <=> \E t \in Launches : Inside(t)
    /\ \A t, u \in Launches : thread[t] = "entering" => ~ Inside(u)

SomeLeft == \E g \in registered : Left(g)

\* A base with events has a thread that serves them or is about to, or the last
\* one left behind an end of file.
Attended ==
    registered # {} =>
       SomeLeft \/ \E t \in Launches : OnTheWay(t) \/ InLoop(t)
LeavingLeaves ==
    registered # {} /\ (\E t \in Launches : thread[t] = "leaving") => SomeLeft
BusyHasEvents ==
    \A t, u \in Launches : OnTheWay(t) /\ Inside(u) => registered # {}
AwryHasEnd == Awry => \E g \in registered : g \in failed \/ Eof(g)
EventsLaunched ==
    /\ registered \subseteq 1..launches
    /\ \A t \in Launches : thread[t] = "created" => t \notin registered

Events == Attended /\ LeavingLeaves /\ BusyHasEvents /\ AwryHasEnd /\ EventsLaunched

Inv == TypeOK /\ Started /\ CrashedAtRest /\ (Calm => Loops /\ Events)

LEMMA TypesInit == Init => TypeOK /\ Started
<1> SUFFICES ASSUME Init PROVE TypeOK /\ Started
  OBVIOUS
<1>1. MaxLaunches \in Nat /\ Capacity \in Nat
  BY ConstantsAssumption
<1>2. launches \in 0..MaxLaunches /\ unread \in [Launches -> 0..Capacity]
  BY <1>1 DEF Init
<1> QED
  BY <1>2 DEF Init, TypeOK, Started

LEMMA TypesStep == TypeOK /\ Started /\ [Next]_vars => TypeOK' /\ Started'
<1> SUFFICES ASSUME TypeOK, Started, [Next]_vars PROVE TypeOK' /\ Started'
  OBVIOUS
<1> USE ConstantsAssumption DEF processVars, baseVars
<1>a. launches \in Nat /\ MaxLaunches \in Nat /\ Capacity \in Nat /\ 0 \in 0..Capacity
  BY DEF TypeOK
<1>b. alive => launches \in Launches
  BY <1>a DEF TypeOK, Started, Launches
\* The server process.
<1>1. ASSUME NEW forked \in BOOLEAN, Launch(forked) PROVE TypeOK' /\ Started'
  <2>1. launches' \in Launches /\ launches' \in 0..MaxLaunches /\ launches' > 0
    BY <1>1, <1>a DEF Launch, Launches, TypeOK
  <2>2. hurried' \in BOOLEAN
    BY <1>1 DEF Launch
  <2> QED
    BY <1>1, <2>1, <2>2 DEF Launch, TypeOK, Started
<1>2. ASSUME alive, unread[launches] < Capacity,
             unread' = [unread EXCEPT ![launches] = @ + 1]
      PROVE  unread' \in [Launches -> 0..Capacity]
  <2>1. unread[launches] + 1 \in 0..Capacity
    BY <1>2, <1>a, <1>b DEF TypeOK
  <2> QED
    BY <1>2, <2>1 DEF TypeOK
<1>3. CASE Output
  BY <1>3, <1>2 DEF Output, TypeOK, Started
<1>4. CASE StopsItself
  BY <1>4, <1>2 DEF StopsItself, TypeOK, Started
<1>5. CASE StopServer \/ Crash
  BY <1>5 DEF StopServer, Crash, TypeOK, Started
\* The threads.
<1>6. ASSUME NEW t \in Launches, AddEvent(t) PROVE TypeOK' /\ Started'
  <2>1. torn' \in BOOLEAN
    BY <1>6 DEF AddEvent
  <2>2. registered' \subseteq Launches /\ active \subseteq registered'
    BY <1>6 DEF AddEvent, TypeOK
  <2> QED
    BY <1>6, <2>1, <2>2 DEF AddEvent, TypeOK, Started
<1>7. ASSUME NEW t \in Launches, Enter(t) PROVE TypeOK' /\ Started'
  <2>1. torn' \in BOOLEAN
    BY <1>7 DEF Enter
  <2> QED
    BY <1>7, <2>1 DEF Enter, TypeOK, Started
<1>8. ASSUME NEW t \in Launches, Dispatch(t) \/ FindNothing(t) \/ Leave(t)
      PROVE  TypeOK' /\ Started'
  <2>1. CASE Dispatch(t)
    BY <2>1 DEF Dispatch, TypeOK, Started
  <2>2. CASE FindNothing(t)
    BY <2>2 DEF FindNothing, TypeOK, Started
  <2>3. CASE Leave(t)
    BY <2>3 DEF Leave, TypeOK, Started
  <2> QED
    BY <1>8, <2>1, <2>2, <2>3
<1>9. ASSUME NEW t \in Launches, Wait(t) PROVE TypeOK' /\ Started'
  <2>1. active' \subseteq registered
    BY <1>9 DEF Wait, Ready, TypeOK
  <2> QED
    BY <1>9, <2>1 DEF Wait, TypeOK, Started
<1>10. ASSUME NEW t \in Launches, NEW g \in Launches, ServerOutputEvent(t, g)
      PROVE  TypeOK' /\ Started'
  <2>1. unread' \in [Launches -> 0..Capacity]
    BY <1>10, <1>a DEF ServerOutputEvent, TakeOutput, TakeEnd, TypeOK
  <2>2. active' \subseteq registered /\ UNCHANGED <<processVars, registered, running, torn>>
    BY <1>10 DEF ServerOutputEvent, TakeOutput, TakeEnd, TypeOK
  <2>3. thread' = thread \/ thread' = [thread EXCEPT ![t] = "leaving"]
    BY <1>10 DEF ServerOutputEvent, TakeOutput, TakeEnd
  <2> QED
    BY <2>1, <2>2, <2>3 DEF TypeOK, Started
<1>11. CASE BaseBreaks
  <2>1. thread' \in [Launches -> {"none", "ended"}]
    BY <1>11 DEF BaseBreaks
  <2> QED
    BY <1>11, <2>1 DEF BaseBreaks, TypeOK, Started
<1>12. CASE UNCHANGED vars
  BY <1>12 DEF vars, TypeOK, Started
<1> QED
  BY <1>1, <1>3, <1>4, <1>5, <1>6, <1>7, <1>8, <1>9, <1>10, <1>11, <1>12
     DEF Next, StartServer, StartServerFails, ThreadStep, AtRest

LEMMA CrashedStep == TypeOK /\ CrashedAtRest /\ [Next]_vars => CrashedAtRest'
<1> SUFFICES ASSUME TypeOK, CrashedAtRest, [Next]_vars, crashed',
                    NEW t \in Launches
             PROVE  thread'[t] \in {"none", "ended"}
  BY DEF CrashedAtRest
<1> USE DEF processVars, baseVars
<1>1. CASE BaseBreaks
  BY <1>1 DEF BaseBreaks
<1>2. CASE ~ BaseBreaks
  <2>1. crashed
    BY <1>2
       DEF Next, StartServer, StartServerFails, Launch, Output, StopServer, StopsItself,
           Crash, ThreadStep, AddEvent, Dispatch, Enter, FindNothing, Wait, Leave,
           ServerOutputEvent, AtRest, vars
  <2>2. \A u \in Launches : thread[u] \in {"none", "ended"}
    BY <2>1 DEF CrashedAtRest
  <2>3. thread' = thread
    BY <1>2, <2>1, <2>2
       DEF Next, StartServer, StartServerFails, Launch, Output, StopServer, StopsItself,
           Crash, ThreadStep, AddEvent, Dispatch, Enter, FindNothing, LoopHead, Wait,
           Leave, ServerOutputEvent, AtRest, vars
  <2> QED
    BY <2>2, <2>3
<1> QED
  BY <1>1, <1>2

\* Nobody calms down again.
LEMMA CalmBefore == [Next]_vars /\ Calm' => Calm /\ ~ BaseBreaks
<1> SUFFICES ASSUME [Next]_vars, Calm' PROVE Calm /\ ~ BaseBreaks
  OBVIOUS
<1> USE DEF processVars, baseVars, Calm
<1>1. CASE UNCHANGED <<hurried, crashed>>
  BY <1>1 DEF BaseBreaks
<1>2. ASSUME NEW forked, Launch(forked) PROVE Calm /\ ~ BaseBreaks
  BY <1>2 DEF Launch, BaseBreaks
<1>3. ASSUME BaseBreaks PROVE FALSE
  BY <1>3 DEF BaseBreaks
<1>4. ASSUME NEW t \in Launches, ThreadStep(t) PROVE UNCHANGED <<hurried, crashed>>
  BY <1>4 DEF ThreadStep, AddEvent, Dispatch, Enter, FindNothing, Wait, Leave,
              ServerOutputEvent
<1> QED
  BY <1>1, <1>2, <1>3, <1>4
     DEF Next, StartServer, StartServerFails, Output, StopServer, StopsItself, Crash,
         AtRest, vars

\* What a thread does in the loop, or on leaving it for its end, it does inside.
LEMMA ServeStays ==
    ASSUME TypeOK, NEW t \in Launches, NEW g \in Launches,
           FindNothing(t) \/ Wait(t) \/ ServerOutputEvent(t, g)
    PROVE  /\ InLoop(t)
           /\ thread'[t] \in {"serving", "leaving"}
           /\ \A u \in Launches : u # t => thread'[u] = thread[u]
           /\ UNCHANGED <<processVars, registered, running, torn>>
<1> USE DEF processVars, baseVars
<1>1. CASE FindNothing(t)
  BY <1>1 DEF FindNothing, LoopHead, InLoop, TypeOK
<1>2. CASE Wait(t)
  BY <1>2 DEF Wait, LoopHead, InLoop, TypeOK
<1>3. CASE ServerOutputEvent(t, g)
  BY <1>3 DEF ServerOutputEvent, TakeOutput, TakeEnd, InLoop, TypeOK
<1> QED
  BY <1>1, <1>2, <1>3

LEMMA LoopsStep ==
    ASSUME TypeOK, Calm, Loops, [Next]_vars, Calm'
    PROVE  Loops'
<1> USE DEF processVars, baseVars
\* Who changes neither place nor flag.
<1>1. ASSUME \A u \in Launches : /\ OnTheWay(u)' => OnTheWay(u)
                                 /\ thread[u] = "none" => thread'[u] = "none"
                                 /\ thread'[u] = "entering" => thread[u] = "entering"
                                 /\ Inside(u)' <=> Inside(u),
             UNCHANGED <<launches, running>>
      PROVE  Loops'
  BY <1>1 DEF Loops
<1>2. CASE UNCHANGED <<thread, launches, running>>
  BY <1>1, <1>2 DEF OnTheWay, Inside, InLoop
<1>3. ASSUME NEW forked, Launch(forked) PROVE Loops'
  <2>1. \A u \in Launches : ~ OnTheWay(u)
    BY <1>3 DEF Launch, Calm, Settled, OnTheWay, Inside, InLoop
  <2>2. \A u \in Launches : u # launches' => thread'[u] = thread[u]
    BY <1>3 DEF Launch, TypeOK
  <2>3. launches' \in Launches /\ thread'[launches'] = "created"
    BY <1>3, ConstantsAssumption DEF Launch, Launches, TypeOK
  <2>4. launches' > launches /\ launches \in Nat /\ launches' \in Nat
    BY <1>3 DEF Launch, TypeOK
  <2>5. thread[launches'] = "none"
    BY <2>3, <2>4 DEF Loops
  <2>6. \A u \in Launches : Inside(u)' <=> Inside(u)
    BY <2>2, <2>3, <2>5 DEF Inside, InLoop
  <2>7. \A u \in Launches : OnTheWay(u)' => u = launches'
    BY <2>1, <2>2 DEF OnTheWay
  <2>8. \A u \in Launches : u > launches' => thread'[u] = "none"
    BY <2>2, <2>4 DEF Loops, Launches
  <2>9. \A u \in Launches : thread'[u] # "entering"
    BY <2>1, <2>2, <2>3 DEF OnTheWay
  <2>10. running' = running
    BY <1>3 DEF Launch
  <2> QED
    BY <2>6, <2>7, <2>8, <2>9, <2>10 DEF Loops
<1>4. ASSUME NEW t \in Launches, AddEvent(t) PROVE Loops'
  BY <1>4, <1>1 DEF AddEvent, OnTheWay, Inside, InLoop, TypeOK
<1>5. ASSUME NEW t \in Launches, Dispatch(t) PROVE Loops'
  <2>1. \A u \in Launches : /\ OnTheWay(u)' => OnTheWay(u)
                            /\ thread[u] = "none" => thread'[u] = "none"
                            /\ Inside(u)' <=> Inside(u)
    BY <1>5 DEF Dispatch, OnTheWay, Inside, InLoop, TypeOK
  <2>2. \A u \in Launches : thread'[u] = "entering" => thread[u] = "entering" \/ ~ running
    BY <1>5 DEF Dispatch, TypeOK
  <2>3. UNCHANGED <<launches, running>>
    BY <1>5 DEF Dispatch
  <2> QED
    BY <2>1, <2>2, <2>3 DEF Loops
<1>6. ASSUME NEW t \in Launches, Enter(t) PROVE Loops'
  <2>1. \A u \in Launches : ~ Inside(u)
    BY <1>6 DEF Enter, Loops
  <2>2. \A u \in Launches : u # t => ~ OnTheWay(u) /\ thread'[u] = thread[u]
    BY <1>6 DEF Enter, Loops, OnTheWay, TypeOK
  <2>3. /\ thread[t] = "entering" /\ thread'[t] = "waiting"
        /\ running' /\ launches' = launches
    BY <1>6 DEF Enter, TypeOK
  <2> QED
    BY <2>1, <2>2, <2>3 DEF Loops, OnTheWay, Inside, InLoop
<1>7. ASSUME NEW t \in Launches, NEW g \in Launches,
             FindNothing(t) \/ Wait(t) \/ ServerOutputEvent(t, g)
      PROVE  Loops'
  BY <1>7, <1>1, ServeStays DEF OnTheWay, Inside, InLoop
<1>8. ASSUME NEW t \in Launches, Leave(t) PROVE Loops'
  <2>1. \A u \in Launches : u # t => ~ Inside(u) /\ thread'[u] = thread[u]
    BY <1>8 DEF Leave, Loops, Inside, TypeOK
  <2>2. /\ thread[t] = "leaving" /\ thread'[t] = "ended"
        /\ ~ running' /\ launches' = launches
    BY <1>8 DEF Leave, TypeOK
  <2> QED
    BY <2>1, <2>2 DEF Loops, OnTheWay, Inside, InLoop
<1>9. PICK g \in Launches : TRUE
  BY ConstantsAssumption DEF Launches
<1> QED
  BY <1>2, <1>3, <1>4, <1>5, <1>6, <1>7, <1>8, <1>9, CalmBefore
     DEF Next, StartServer, StartServerFails, Output, StopServer, StopsItself, Crash,
         ThreadStep, AtRest, vars

\* What is at its end stays there; a pipe that has been left stays behind.
LEMMA LeftStays ==
    ASSUME TypeOK, Started, [Next]_vars, ~ BaseBreaks
    PROVE  /\ registered \subseteq registered'
           /\ failed \subseteq failed'
           /\ Awry => Awry'
           /\ \A g \in Launches : Eof(g) => Eof(g)'
           /\ \A g \in Launches : Eof(g) /\ unread[g] = 0 => unread'[g] = 0
<1> USE DEF processVars, baseVars
<1>a. launches \in Nat
  BY DEF TypeOK
<1>b. ASSUME UNCHANGED <<launches, alive, unread>>
      PROVE  \A g \in Launches : /\ Eof(g) => Eof(g)'
                                 /\ unread[g] = 0 => unread'[g] = 0
  BY <1>b DEF Eof
<1>1. ASSUME NEW forked, Launch(forked) PROVE \A g \in Launches : Eof(g) => Eof(g)'
  BY <1>1, <1>a DEF Launch, Eof
<1>2. CASE Output \/ StopsItself
  <2>1. alive /\ UNCHANGED launches /\ (alive' => alive)
    BY <1>2 DEF Output, StopsItself
  <2>2. \A g \in Launches : g # launches => unread'[g] = unread[g]
    BY <1>2 DEF Output, StopsItself, TypeOK
  <2>3. \A g \in Launches : Eof(g) => g # launches /\ Eof(g)'
    BY <2>1 DEF Eof
  <2>4. UNCHANGED <<registered, failed, torn>>
    BY <1>2 DEF Output, StopsItself
  <2> QED
    BY <2>2, <2>3, <2>4 DEF Awry
<1>3. CASE StopServer
  BY <1>3, <1>b DEF StopServer, Awry
<1>4. CASE Crash
  BY <1>4 DEF Crash, Awry, Eof
<1>5. ASSUME NEW t \in Launches, AddEvent(t) \/ Dispatch(t) \/ Enter(t) \/ FindNothing(t)
                                 \/ Wait(t) \/ Leave(t)
      PROVE  /\ UNCHANGED <<processVars, unread>>
             /\ registered \subseteq registered'
             /\ torn => torn'
  <2>1. CASE AddEvent(t)
    BY <2>1 DEF AddEvent
  <2>2. CASE Enter(t)
    BY <2>2 DEF Enter
  <2>3. CASE Dispatch(t) \/ FindNothing(t) \/ Wait(t) \/ Leave(t)
    BY <2>3 DEF Dispatch, FindNothing, Wait, Leave
  <2> QED
    BY <1>5, <2>1, <2>2, <2>3
<1>6. ASSUME NEW t \in Launches, NEW h \in Launches, ServerOutputEvent(t, h)
      PROVE  /\ UNCHANGED <<processVars, registered, torn>>
             /\ \A g \in Launches : unread[g] = 0 => unread'[g] = 0
  BY <1>6 DEF ServerOutputEvent, TakeOutput, TakeEnd, TypeOK
<1>7. ASSUME NEW forked, Launch(forked)
      PROVE  failed \subseteq failed' /\ UNCHANGED <<unread, registered, torn>>
  BY <1>7 DEF Launch
<1>8. CASE UNCHANGED vars
  BY <1>8, <1>b DEF vars, Awry
<1>9. ASSUME NEW t \in Launches, ThreadStep(t)
      PROVE  /\ UNCHANGED processVars /\ registered \subseteq registered'
             /\ torn => torn'
             /\ \A g \in Launches : unread[g] = 0 => unread'[g] = 0
  BY <1>9, <1>5, <1>6 DEF ThreadStep
<1>10. CASE \E t \in Launches : ThreadStep(t)
  BY <1>10, <1>9 DEF Awry, Eof
<1>11. CASE StartServer \/ StartServerFails
  BY <1>11, <1>1, <1>7 DEF StartServer, StartServerFails, Awry
<1> QED
  BY <1>2, <1>3, <1>4, <1>8, <1>10, <1>11 DEF Next, AtRest

LEMMA SomeLeftStays ==
    ASSUME TypeOK, Started, [Next]_vars, ~ BaseBreaks, SomeLeft
    PROVE  SomeLeft'
<1>1. PICK g \in registered : Left(g)
  BY DEF SomeLeft
<1>2. g \in Launches /\ g \in registered'
  BY LeftStays DEF TypeOK
<1>3. Left(g)'
  BY <1>1, <1>2, LeftStays DEF Left
<1> QED
  BY <1>2, <1>3 DEF SomeLeft

\* An event that is not the last launch's can be left.
LEMMA OldEventsEnd ==
    ASSUME TypeOK, EventsLaunched, NEW g \in registered, g # launches
    PROVE  Eof(g)
BY DEF EventsLaunched, Eof, TypeOK

LEMMA EventsStep ==
    ASSUME TypeOK, Started, Calm, Loops, Events, [Next]_vars, ~ BaseBreaks, Calm', Loops'
    PROVE  Events'
<1> USE DEF processVars, baseVars
<1>a. TypeOK'
  BY TypesStep
<1>b. launches \in Nat /\ MaxLaunches \in Nat \ {0}
  BY ConstantsAssumption DEF TypeOK
\* Steps that leave threads and events alone.
<1>1. ASSUME UNCHANGED <<launches, thread, registered, torn>> PROVE Events'
  <2>1. UNCHANGED Awry
    BY <1>1 DEF Awry
  <2>2. Attended' /\ LeavingLeaves'
    BY <1>1, SomeLeftStays DEF Events, Attended, LeavingLeaves, OnTheWay, InLoop
  <2>3. BusyHasEvents' /\ EventsLaunched'
    BY <1>1 DEF Events, BusyHasEvents, EventsLaunched, OnTheWay, Inside, InLoop
  <2>4. AwryHasEnd'
    BY <1>1, <2>1, LeftStays DEF Events, AwryHasEnd, TypeOK
  <2> QED
    BY <2>2, <2>3, <2>4 DEF Events
\* A new thread is on its way.
<1>2. ASSUME NEW forked, Launch(forked) PROVE Events'
  <2>1. launches' \in Launches /\ launches' > launches
    BY <1>2, <1>b DEF Launch, Launches
  <2>2. /\ thread'[launches'] = "created"
        /\ \A u \in Launches : u # launches' => thread'[u] = thread[u]
    BY <1>2, <2>1 DEF Launch, TypeOK
  <2>3. UNCHANGED <<registered, torn>>
    BY <1>2 DEF Launch
  <2>4. \A u \in Launches : ~ OnTheWay(u)
    BY <1>2 DEF Launch, Calm, Settled, OnTheWay, Inside, InLoop
  <2>5. Attended'
    BY <2>1, <2>2 DEF Attended, OnTheWay
  <2>6. LeavingLeaves'
    BY <2>2, <2>3, SomeLeftStays DEF Events, LeavingLeaves
  <2>7. BusyHasEvents'
    <3>1. ASSUME NEW u \in Launches, Inside(u)' PROVE registered # {}
      <4>1. Inside(u)
        BY <3>1, <2>2 DEF Inside, InLoop
      <4>2. Settled(u)
        BY <1>2 DEF Launch, Calm
      <4> QED
        BY <4>1, <4>2 DEF Settled, Inside, InLoop
    <3> QED
      BY <3>1, <2>3 DEF BusyHasEvents
  <2>8. AwryHasEnd'
    BY <2>3, LeftStays DEF Events, AwryHasEnd, Awry, TypeOK
  <2>9. EventsLaunched'
    <3>1. registered \subseteq 1..launches'
      BY <1>b, <2>1 DEF Events, EventsLaunched, Launches
    <3>2. launches' \notin registered
      BY <1>b, <2>1 DEF Events, EventsLaunched, Launches
    <3> QED
      BY <2>2, <2>3, <3>1, <3>2 DEF Events, EventsLaunched
  <2> QED
    BY <2>5, <2>6, <2>7, <2>8, <2>9 DEF Events
<1>3. ASSUME NEW t \in Launches, AddEvent(t) PROVE Events'
  <2>1. t = launches /\ OnTheWay(t) /\ thread'[t] = "added" /\ t \notin registered
    BY <1>3 DEF AddEvent, Loops, OnTheWay, Events, EventsLaunched, TypeOK
  <2>2. \A u \in Launches : u # t => thread'[u] = thread[u]
    BY <1>3 DEF AddEvent, TypeOK
  <2>3. /\ registered \subseteq registered' /\ registered' \subseteq registered \cup {t}
        /\ UNCHANGED launches
    BY <1>3 DEF AddEvent
  \* Events come while a thread is inside only to others.
  <2>4. ASSUME NEW u \in Launches, Inside(u) PROVE registered # {}
    BY <2>1, <2>4 DEF Events, BusyHasEvents
  <2>5. Attended'
    BY <2>1 DEF Attended, OnTheWay
  <2>6. LeavingLeaves'
    <3>1. ASSUME NEW u \in Launches, thread'[u] = "leaving" PROVE SomeLeft'
      <4>1. thread[u] = "leaving" /\ Inside(u)
        BY <3>1, <2>1, <2>2 DEF Inside
      <4>2. SomeLeft
        BY <4>1, <2>4 DEF Events, LeavingLeaves
      <4> QED
        BY <4>2, SomeLeftStays
    <3> QED
      BY <3>1 DEF LeavingLeaves
  <2>7. BusyHasEvents'
    BY <2>1, <2>2, <2>3, <2>4 DEF BusyHasEvents, Inside, InLoop
  <2>8. AwryHasEnd'
    <3>1. CASE Awry
      BY <3>1, LeftStays DEF Events, AwryHasEnd, TypeOK
    <3>2. ASSUME ~ Awry, Awry' PROVE \E g \in registered' : Eof(g)'
      <4>1. PICK u \in Launches : InLoop(u)
        BY <1>3, <3>2 DEF AddEvent, Awry, Beside
      <4>2. PICK g \in registered : TRUE
        BY <4>1, <2>4 DEF Inside
      <4>3. Eof(g)
        BY <2>1, OldEventsEnd DEF Events
      <4> QED
        BY <4>2, <4>3, LeftStays DEF TypeOK
    <3> QED
      BY <3>1, <3>2 DEF AwryHasEnd
  <2>9. EventsLaunched'
    BY <2>1, <2>2, <2>3, <1>b DEF Events, EventsLaunched, Launches
  <2> QED
    BY <2>5, <2>6, <2>7, <2>8, <2>9 DEF Events
<1>4. ASSUME NEW t \in Launches, Dispatch(t) PROVE Events'
  <2>1. /\ \A u \in Launches : u # t => thread'[u] = thread[u]
        /\ thread[t] = "added" /\ thread'[t] = IF running THEN "ended" ELSE "entering"
        /\ UNCHANGED <<registered, launches, torn>>
    BY <1>4 DEF Dispatch, TypeOK
  <2>2. Attended'
    <3>1. CASE ~ running
      BY <3>1, <2>1 DEF Attended, OnTheWay
    <3>2. CASE running
      <4>1. PICK u \in Launches : Inside(u)
        BY <3>2 DEF Loops
      <4>2. u # t
        BY <4>1, <2>1 DEF Inside, InLoop
      <4>3. CASE InLoop(u)
        BY <2>1, <4>2, <4>3 DEF Attended, InLoop
      <4>4. CASE thread[u] = "leaving"
        BY <2>1, <4>4, SomeLeftStays DEF Events, LeavingLeaves, Attended
      <4> QED
        BY <4>1, <4>3, <4>4 DEF Inside
    <3> QED
      BY <3>1, <3>2
  <2>3. LeavingLeaves'
    BY <2>1, SomeLeftStays DEF Events, LeavingLeaves
  <2>4. BusyHasEvents' /\ EventsLaunched'
    BY <2>1 DEF Events, BusyHasEvents, EventsLaunched, OnTheWay, Inside, InLoop
  <2>5. AwryHasEnd'
    BY <2>1, LeftStays DEF Events, AwryHasEnd, Awry, TypeOK
  <2> QED
    BY <2>2, <2>3, <2>4, <2>5 DEF Events
<1>5. ASSUME NEW t \in Launches, Enter(t) PROVE Events'
  <2>1. /\ \A u \in Launches : u # t => thread'[u] = thread[u]
        /\ thread[t] = "entering" /\ thread'[t] = "waiting"
        /\ UNCHANGED <<registered, launches>>
    BY <1>5 DEF Enter, TypeOK
  \* Nobody is inside, so that nothing is torn.
  <2>2. torn' = torn
    BY <1>5 DEF Enter, Beside, Loops, Inside, TypeOK
  <2>3. \A u \in Launches : u # t => ~ OnTheWay(u) /\ ~ Inside(u)
    BY <2>1 DEF Loops, OnTheWay
  <2>4. Attended'
    BY <2>1 DEF Attended, InLoop
  <2>5. LeavingLeaves' /\ BusyHasEvents' /\ EventsLaunched'
    BY <2>1, <2>3
       DEF Events, LeavingLeaves, BusyHasEvents, EventsLaunched, OnTheWay, Inside
  <2>6. AwryHasEnd'
    BY <2>1, <2>2, LeftStays DEF Events, AwryHasEnd, Awry, TypeOK
  <2> QED
    BY <2>4, <2>5, <2>6 DEF Events
\* The loop is left when it has no event, or when things are awry, or at an end.
<1>6. ASSUME NEW t \in Launches, NEW g \in Launches,
             FindNothing(t) \/ Wait(t) \/ ServerOutputEvent(t, g)
      PROVE  Events'
  <2>1. /\ InLoop(t) /\ thread'[t] \in {"serving", "leaving"}
        /\ \A u \in Launches : u # t => thread'[u] = thread[u]
        /\ UNCHANGED <<launches, registered, torn>>
    BY <1>6, ServeStays
  <2>2. CASE thread'[t] = "serving"
    <3>1. Attended'
      BY <2>1, <2>2 DEF Attended, InLoop
    <3>2. LeavingLeaves'
      BY <2>1, <2>2, SomeLeftStays DEF Events, LeavingLeaves
    <3>3. BusyHasEvents' /\ EventsLaunched'
      BY <2>1, <2>2 DEF Events, BusyHasEvents, EventsLaunched, OnTheWay, Inside, InLoop
    <3>4. AwryHasEnd'
      BY <2>1, LeftStays DEF Events, AwryHasEnd, Awry, TypeOK
    <3> QED
      BY <3>1, <3>2, <3>3, <3>4 DEF Events
  <2>3. CASE thread'[t] = "leaving"
    <3>1. registered # {} => SomeLeft'
      <4>a. ASSUME Awry PROVE SomeLeft
        BY <4>a DEF Events, AwryHasEnd, SomeLeft, Left
      <4>1. CASE FindNothing(t)
        BY <4>1, <4>a, SomeLeftStays DEF FindNothing
      <4>2. CASE Wait(t)
        BY <4>2, <2>3 DEF Wait, TypeOK
      <4>3. CASE ServerOutputEvent(t, g)
        <5>1. (TakeEnd(t, g) \/ Awry) /\ g \in registered
          BY <4>3, <2>3 DEF ServerOutputEvent, TakeOutput, TypeOK
        <5>2. SomeLeft
          BY <5>1, <4>a DEF TakeEnd, SomeLeft, Left
        <5> QED
          BY <5>2, SomeLeftStays
      <4> QED
        BY <1>6, <4>1, <4>2, <4>3
    <3>2. Attended' /\ LeavingLeaves'
      BY <2>1, <3>1 DEF Attended, LeavingLeaves
    <3>3. BusyHasEvents' /\ EventsLaunched'
      BY <2>1, <2>3 DEF Events, BusyHasEvents, EventsLaunched, OnTheWay, Inside, InLoop
    <3>4. AwryHasEnd'
      BY <2>1, LeftStays DEF Events, AwryHasEnd, Awry, TypeOK
    <3> QED
      BY <3>2, <3>3, <3>4 DEF Events
  <2> QED
    BY <2>1, <2>2, <2>3
<1>7. ASSUME NEW t \in Launches, Leave(t) PROVE Events'
  <2>1. /\ \A u \in Launches : u # t => thread'[u] = thread[u]
        /\ thread[t] = "leaving" /\ thread'[t] = "ended"
        /\ UNCHANGED <<registered, launches, torn>>
    BY <1>7 DEF Leave, TypeOK
  <2>2. Attended' /\ LeavingLeaves'
    BY <2>1, SomeLeftStays DEF Events, LeavingLeaves, Attended
  <2>3. BusyHasEvents' /\ EventsLaunched'
    BY <2>1 DEF Events, BusyHasEvents, EventsLaunched, OnTheWay, Inside, InLoop
  <2>4. AwryHasEnd'
    BY <2>1, LeftStays DEF Events, AwryHasEnd, Awry, TypeOK
  <2> QED
    BY <2>2, <2>3, <2>4 DEF Events
<1>8. CASE Output \/ StopServer \/ StopsItself \/ Crash
  BY <1>8, <1>1 DEF Output, StopServer, StopsItself, Crash
<1>9. CASE UNCHANGED vars
  BY <1>9, <1>1 DEF vars
<1>10. PICK g \in Launches : TRUE
  BY <1>b DEF Launches
<1>11. ASSUME NEW t \in Launches, ThreadStep(t) PROVE Events'
  BY <1>11, <1>3, <1>4, <1>5, <1>6, <1>7, <1>10 DEF ThreadStep
<1> QED
  BY <1>2, <1>8, <1>9, <1>11 DEF Next, StartServer, StartServerFails, AtRest

LEMMA Invariant == Spec => []Inv
<1>1. Init => Inv
  <2> SUFFICES ASSUME Init PROVE Inv
    OBVIOUS
  <2>1. \A t \in Launches : thread[t] = "none"
    BY DEF Init
  <2>2. Loops
    BY <2>1 DEF Init, Loops, OnTheWay, Inside, InLoop
  <2>3. Events
    BY <2>1
       DEF Init, Events, Attended, LeavingLeaves, BusyHasEvents, AwryHasEnd, Awry,
           EventsLaunched, OnTheWay
  <2> QED
    BY <2>1, <2>2, <2>3, TypesInit DEF Inv, CrashedAtRest
<1>2. Inv /\ [Next]_vars => Inv'
  <2> SUFFICES ASSUME Inv, [Next]_vars PROVE Inv'
    OBVIOUS
  <2>1. TypeOK' /\ Started' /\ CrashedAtRest'
    BY TypesStep, CrashedStep DEF Inv
  <2>2. ASSUME Calm' PROVE Loops' /\ Events'
    BY <2>2, CalmBefore, LoopsStep, EventsStep DEF Inv
  <2> QED
    BY <2>1, <2>2 DEF Inv
<1> QED
  BY <1>1, <1>2, PTL DEF Spec

\* Every variable stays in its domain.
THEOREM ListenerTypes == Spec => []TypeOK
<1>1. Inv => TypeOK
  BY DEF Inv
<1> QED
  BY <1>1, Invariant, PTL

\* However many launches share the base of a Server object, and although its flag is
\* tested and set in two steps, two threads serve its events at once only after a
\* launch that did not wait for the thread of the one before to get to its loop.
THEOREM OneThreadServes == Spec => []TwoLoopsOnlyInHurry
<1>1. Inv => TwoLoopsOnlyInHurry
  BY DEF Inv, CrashedAtRest, Calm, Loops, Inside, InLoop, TwoLoopsOnlyInHurry
<1> QED
  BY <1>1, Invariant, PTL

\* Without such a launch the last thread leaves the loop of a base that has events
\* only behind a pipe at its end, or one that is another file's.
THEOREM LoopLeftAtEof == Spec => []LeftOnlyAtEof
<1>1. Inv => LeftOnlyAtEof
  BY DEF Inv, Calm, Events, Attended, SomeLeft, OnTheWay, InLoop, LeftOnlyAtEof
<1> QED
  BY <1>1, Invariant, PTL
=============================================================================
