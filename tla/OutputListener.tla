--------------------------- MODULE OutputListener ---------------------------
(***************************************************************************)
(* How the output of one Server object's processes is read.                *)
(*                                                                         *)
(* Each startServer() opens a new stdout pipe and detaches a new thread.   *)
(* The thread adds a level-triggered event for its pipe to the event_base  *)
(* of the Server object, which all its threads share, and dispatches the   *)
(* base.  The event is never deleted and the pipe never closed.  When the  *)
(* process is gone the callback reads end-of-file and breaks the loop.     *)
(*                                                                         *)
(* Launches are numbered.  libevent is external.  It refuses a second loop *)
(* on a base, but nobody calls evthread_use_pthreads(), so that it takes   *)
(* no lock: a thread finds the flag of the loop clear (Dispatch), and sets *)
(* it (Enter), with others in between.                                     *)
(***************************************************************************)
EXTENDS Naturals, FiniteSets

CONSTANTS
    MaxLaunches,    \* bound: startServer() calls that get as far as fork()
    Capacity,       \* chunks of output that a pipe holds
    Faults          \* "fork": fork() may fail; "race": what several threads do
                    \* to the base at once, without a lock, may go wrong

ASSUME ConstantsAssumption ==
    /\ MaxLaunches \in Nat \ {0}
    /\ Capacity \in Nat \ {0}
    /\ Faults \subseteq {"fork", "race"}

Launches == 1..MaxLaunches

VARIABLES
    launches,   \* launches so far; the last one is the current process, if any
    alive,      \* the process of the last launch is running
    stopping,   \* it has been told to stop
    failed,     \* launches whose fork() failed: their pipes are closed
    unread,     \* output in each launch's pipe
    thread,     \* the listener thread of each launch
    registered, \* launches whose pipe has an event in the base
    active,     \* the base: events found ready and not yet served
    running,    \* the base: the flag running_loop
    torn,       \* two threads have used the base at once, one of them in its loop
    crashed,    \* the daemon has come to grief over that
    hurried     \* history: a launch came before the last one's thread was in its loop

processVars == <<launches, alive, stopping, failed, crashed, hurried>>
vars == <<processVars, unread, thread, registered, active, running, torn>>

Eof(g) == g \in 1..launches /\ ~ (g = launches /\ alive)

\* In the loop, and in event_base_dispatch() beyond the test of the flag.
InLoop(t) == thread[t] \in {"waiting", "serving"}
Inside(t) == InLoop(t) \/ thread[t] = "leaving"

\* At rest, or in a loop that has something to wait for.
Settled(t) == thread[t] \in {"none", "ended"} \/ (Inside(t) /\ registered # {})

Init ==
    /\ launches = 0 /\ alive = FALSE /\ stopping = FALSE /\ failed = {}
    /\ unread = [g \in Launches |-> 0]
    /\ thread = [g \in Launches |-> "none"]
    /\ registered = {} /\ active = {} /\ running = FALSE
    /\ torn = FALSE /\ crashed = FALSE /\ hurried = FALSE

-----------------------------------------------------------------------------
(* The main thread and the server process *)

\* startServer(): the process and its listener thread.  The thread is started
\* whether or not there is a process.
Launch(forked) ==
    /\ ~ alive /\ ~ crashed
    /\ launches < MaxLaunches
    /\ launches' = launches + 1
    /\ alive' = forked /\ stopping' = FALSE
    /\ failed' = IF forked THEN failed ELSE failed \cup {launches'}
    /\ thread' = [thread EXCEPT ![launches'] = "created"]
    /\ hurried' = (hurried \/ \E t \in Launches : ~ Settled(t))
    /\ UNCHANGED <<crashed, unread, registered, active, running, torn>>

StartServer == Launch(TRUE)
StartServerFails == "fork" \in Faults /\ Launch(FALSE)

\* The process writes output; it blocks while the pipe is full.
Output ==
    /\ alive
    /\ unread[launches] < Capacity
    /\ unread' = [unread EXCEPT ![launches] = @ + 1]
    /\ UNCHANGED <<processVars, thread, registered, active, running, torn>>

\* stopServer() has written "stop" and polls isRunning().
StopServer ==
    /\ alive /\ ~ stopping
    /\ stopping' = TRUE
    /\ UNCHANGED <<launches, alive, failed, crashed, hurried, unread, thread, registered,
                   active, running, torn>>

\* A server that stops logs it, then exits.
StopsItself ==
    /\ alive /\ stopping
    /\ unread[launches] < Capacity
    /\ unread' = [unread EXCEPT ![launches] = @ + 1]
    /\ alive' = FALSE /\ stopping' = FALSE
    /\ UNCHANGED <<launches, failed, crashed, hurried, thread, registered, active, running,
                   torn>>

Crash ==
    /\ alive
    /\ alive' = FALSE /\ stopping' = FALSE
    /\ UNCHANGED <<launches, failed, crashed, hurried, unread, thread, registered, active,
                   running, torn>>

-----------------------------------------------------------------------------
(* outputListenerThread() *)

baseVars == <<registered, active, running>>

\* Another thread is in the loop of the base.
Beside(t) == \E u \in Launches : u # t /\ InLoop(u)

\* The base may behave otherwise than its one thread would have it: it loses a
\* break, takes another thread's for its own, or miscounts its events.
Awry == torn /\ "race" \in Faults

\* Mutant: the event is made and never added.
AddEventLost(t) ==
    /\ thread[t] = "created"
    /\ thread' = [thread EXCEPT ![t] = "added"]
    /\ UNCHANGED <<processVars, unread, baseVars, torn>>

\* event_new(), event_add().  After a failed fork() the descriptor is closed, and
\* adding it fails unnoticed; unless its number is another file's by now.
AddEvent(t) ==
    /\ thread[t] = "created"
    /\ \/ registered' = registered \cup {t}
       \/ t \in failed /\ UNCHANGED registered
    /\ torn' = (torn \/ Beside(t))
    /\ thread' = [thread EXCEPT ![t] = "added"]
    /\ UNCHANGED <<processVars, unread, active, running>>

\* event_base_dispatch() returns at once when the flag is set.
Dispatch(t) ==
    /\ thread[t] = "added"
    /\ thread' = [thread EXCEPT ![t] = IF running THEN "ended" ELSE "entering"]
    /\ UNCHANGED <<processVars, unread, baseVars, torn>>

\* It sets the flag,
Enter(t) ==
    /\ thread[t] = "entering"
    /\ running' = TRUE
    /\ torn' = (torn \/ Beside(t))
    /\ thread' = [thread EXCEPT ![t] = "waiting"]
    /\ UNCHANGED <<processVars, unread, registered, active>>

LoopHead(t) == thread[t] = "waiting" \/ (thread[t] = "serving" /\ active = {})

\* ends the loop when the base has no event,
FindNothing(t) ==
    /\ LoopHead(t)
    /\ registered = {} \/ Awry
    /\ thread' = [thread EXCEPT ![t] = "leaving"]
    /\ UNCHANGED <<processVars, unread, baseVars, torn>>

Ready == {g \in registered \ failed : unread[g] > 0 \/ Eof(g)}

\* waits until some are ready, those for the files of others at any time,
Wait(t) ==
    /\ LoopHead(t)
    /\ \E others \in SUBSET (registered \cap failed) :
         active' = active \cup Ready \cup others
    /\ active' # {}
    /\ thread' = [thread EXCEPT ![t] = "serving"]
    /\ UNCHANGED <<processVars, unread, registered, running, torn>>

\* Mutants of the callback: the loop is left behind any output; the event serves
\* only once (EV_PERSIST is missing); the end of a file is taken for output.
OutputBreaks(t, g) ==
    /\ thread[t] = "serving" /\ g \in active
    /\ active' = active \ {g}
    /\ thread' = [thread EXCEPT ![t] = "leaving"]
    /\ unread' = [unread EXCEPT ![g] = 0]
    /\ UNCHANGED <<processVars, registered, running, torn>>
OutputOnce(t, g) ==
    /\ thread[t] = "serving" /\ g \in active
    /\ active' = active \ {g} /\ registered' = registered \ {g}
    /\ thread' = [thread EXCEPT ![t] = IF unread[g] > 0 THEN "serving" ELSE "leaving"]
    /\ unread' = [unread EXCEPT ![g] = 0]
    /\ UNCHANGED <<processVars, running, torn>>
OutputWithoutEnd(t, g) ==
    /\ thread[t] = "serving" /\ g \in active
    /\ active' = active \ {g}
    /\ unread' = [unread EXCEPT ![g] = @ - 1]
    /\ UNCHANGED <<processVars, thread, registered, running, torn>>

\* serverOutputEvent(): read() takes all there is and the lines are logged.  It
\* waits if another has read it first.
TakeOutput(t, g) ==
    /\ unread[g] > 0 \/ g \in failed
    /\ \E h \in {g} \cup (IF g \in failed THEN {launches} ELSE {}) :
         unread' = [unread EXCEPT ![h] = 0]
    /\ active' = active \ {g} \/ (Awry /\ UNCHANGED active)
    /\ UNCHANGED thread \/ (Awry /\ thread' = [thread EXCEPT ![t] = "leaving"])

\* At end-of-file it breaks the loop.
TakeEnd(t, g) ==
    /\ unread[g] = 0 /\ Eof(g)
    /\ active' = active \ {g}
    /\ thread' = [thread EXCEPT ![t] = "leaving"] \/ (Awry /\ UNCHANGED thread)
    /\ UNCHANGED unread

ServerOutputEvent(t, g) ==
    /\ thread[t] = "serving" /\ g \in active
    /\ TakeOutput(t, g) \/ TakeEnd(t, g)
    /\ UNCHANGED <<processVars, registered, running, torn>>

\* Mutant: the thread dispatches the base again whenever its loop is over.
LeaveAndReturn(t) ==
    /\ thread[t] = "leaving"
    /\ running' = FALSE
    /\ thread' = [thread EXCEPT ![t] = "added"]
    /\ UNCHANGED <<processVars, unread, registered, active, torn>>

\* and clears the flag behind the loop.
Leave(t) ==
    /\ thread[t] = "leaving"
    /\ running' = FALSE
    /\ thread' = [thread EXCEPT ![t] = "ended"]
    /\ UNCHANGED <<processVars, unread, registered, active, torn>>

ThreadStep(t) ==
    \/ AddEvent(t) \/ Dispatch(t) \/ Enter(t)
    \/ FindNothing(t) \/ Wait(t) \/ Leave(t)
    \/ \E g \in Launches : ServerOutputEvent(t, g)

\* Lists that two threads have changed at once end the daemon: "not on queue",
\* or a pointer that leads nowhere.  What becomes of its server is told elsewhere.
BaseBreaks ==
    /\ Awry /\ ~ crashed
    /\ crashed' = TRUE
    /\ alive' = FALSE /\ stopping' = FALSE
    /\ thread' = [t \in Launches |-> IF thread[t] = "none" THEN "none" ELSE "ended"]
    /\ UNCHANGED <<launches, failed, hurried, unread, baseVars, torn>>

-----------------------------------------------------------------------------

\* The last process is gone and every listener has come to rest.
AtRest ==
    /\ launches = MaxLaunches \/ crashed
    /\ ~ alive
    /\ \A t \in Launches : thread[t] \in {"none", "ended"}
    /\ UNCHANGED vars

Next ==
    \/ StartServer \/ StartServerFails
    \/ Output \/ StopServer \/ StopsItself \/ Crash
    \/ \E t \in Launches : ThreadStep(t)
    \/ BaseBreaks
    \/ AtRest

Spec == Init /\ [][Next]_vars

\* Threads are scheduled.  A server told to stop does, if it gets to log it: a
\* write that finds the pipe full waits, and has its turn each time the pipe
\* is drained, however much else the server logs meanwhile.
FairSpec ==
    /\ Spec
    /\ \A t \in Launches : WF_vars(ThreadStep(t))
    /\ SF_vars(StopsItself)

-----------------------------------------------------------------------------
(* Properties *)

\* Every variable stays in its domain.
TypeOK ==
    /\ launches \in 0..MaxLaunches
    /\ alive \in BOOLEAN /\ stopping \in BOOLEAN
    /\ failed \subseteq Launches
    /\ unread \in [Launches -> 0..Capacity]
    /\ thread \in [Launches -> {"none", "created", "added", "entering", "waiting",
                               "serving", "leaving", "ended"}]
    /\ registered \subseteq Launches
    /\ active \subseteq registered
    /\ running \in BOOLEAN
    /\ torn \in BOOLEAN /\ crashed \in BOOLEAN /\ hurried \in BOOLEAN

\* Two threads of one Server object serve the events of their base at the same time
\* only if a launch came in a hurry: while an earlier thread had still to enter its
\* loop, or found nothing there to wait for.  A restart that waits for the server to
\* go is not one, although the old thread may then be on its way out.
TwoLoopsOnlyInHurry ==
    ~ hurried => \A t, u \in Launches : InLoop(t) /\ InLoop(u) => t = u

\* Without such a launch, a loop is left only behind an event at its end: when
\* nobody is in the loop or on the way to it, some pipe with an event has been read
\* to its end, or the event was for another file.
Left(g) == g \in failed \/ (Eof(g) /\ (unread[g] = 0 \/ Awry))
LeftOnlyAtEof ==
    ~ hurried /\ ~ crashed /\ registered # {}
      => \/ \E t \in Launches : thread[t] \notin {"none", "ended"}
         \/ \E g \in registered : Left(g)

\* As long as the server was started only once, its output is read and
\* stopping it ends.
FirstOutputIsRead == unread[1] > 0 ~> unread[1] = 0 \/ launches > 1
FirstStopEnds == stopping ~> ~ stopping \/ launches > 1

\* README.md:39 says of stop that it "Stops a server".
StopEnds == stopping ~> ~ stopping
=============================================================================
