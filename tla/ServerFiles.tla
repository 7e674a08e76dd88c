---------------------------- MODULE ServerFiles ----------------------------
(***************************************************************************)
(* The jar files of the servers, and the working directory of the daemon.  *)
(*                                                                         *)
(* startServer() changes the working directory of the whole daemon to the  *)
(* server's own, and runs the jar by its full path.  updateServer() stops  *)
(* the server, unlinks and downloads its jar BY ITS NAME ALONE, that is,   *)
(* in the directory of the server started last, and starts the server.     *)
(* Commands come one at a time, and one for all servers does to each in    *)
(* turn what a row of single commands does.  Each change of a file and     *)
(* each stop or start of a server is a step.  Backups read the jars and    *)
(* change none; they are in ServerLifecycle.                               *)
(***************************************************************************)
EXTENDS Naturals

CONSTANTS
    N,          \* number of servers
    Dirs,       \* directories
    Root,       \* "/", the working directory the daemon starts in
    Path,       \* serverPath of each server
    JarNames,   \* names of jar files
    Jar,        \* serverJarName of each server
    Updatable,  \* the VANILLA servers
    Versions,   \* versions that can be downloaded
    Installed,  \* the version installed for each server at first
    Broken,     \* nothing that java can run: no file, an empty one, the part or
                \* the error page that a failed download leaves
    None,       \* no process, or no version
    Faults      \* "exit": a server exits by itself; "download": a download fails

Servers == 1..N

ASSUME ConstantsAssumption ==
    /\ N \in Nat \ {0}
    /\ Root \in Dirs
    /\ Path \in [Servers -> Dirs \ {Root}]
    /\ Jar \in [Servers -> JarNames]
    /\ Updatable \subseteq Servers
    /\ Installed \in [Servers -> Versions]
    /\ \A s, t \in Servers :
         Path[s] = Path[t] /\ Jar[s] = Jar[t] => Installed[s] = Installed[t]
    /\ {Broken, None} \cap Versions = {}
    /\ Faults \subseteq {"exit", "download"}

Files == Dirs \X JarNames

VARIABLES
    pc,         \* where the main thread is
    op,         \* the command it executes
    cur,        \* the server the command is for
    version,    \* the version an update was asked for
    cwd,        \* the working directory
    file,       \* what each jar file contains
    process,    \* the version that each server's process runs
    writer,     \* history: the server whose update wrote each file, 0 if none
    again       \* history: the command before this one started the same server anew

commandVars == <<op, cur, version, again>>
fileVars == <<file, writer>>
vars == <<pc, op, cur, version, cwd, file, process, writer, again>>

\* The jar that server s is started from.
JarPath(s) == <<Path[s], Jar[s]>>

\* The file that updateServer() unlinks and opens.
UpdatePath(s) == <<cwd, Jar[s]>>

-----------------------------------------------------------------------------

Init ==
    /\ pc = "start" /\ op = "setup" /\ cur = 1 /\ version = None
    /\ cwd = Root
    /\ file = [f \in Files |->
                 IF \E s \in Servers : JarPath(s) = f
                 THEN Installed[CHOOSE s \in Servers : JarPath(s) = f]
                 ELSE Broken]
    /\ process = [s \in Servers |-> None]
    /\ writer = [f \in Files |-> 0]
    /\ again = FALSE

\* The next command: where its work on a server begins.
Receive(c, s, v, l) ==
    /\ pc = "idle"
    /\ pc' = l /\ op' = c /\ cur' = s /\ version' = v
    /\ again' = (op \in {"setup", "restart", "update"} /\ cur = s)
    /\ UNCHANGED <<cwd, process, fileVars>>

ReceiveStart == \E s \in Servers : Receive("start", s, None, "start")
ReceiveStop == \E s \in Servers : Receive("stop", s, None, "stop")

\* Mutant: restartServer() relies on startServer() to replace the process.
RestartRunning ==
    \E s \in Servers : process[s] # None /\ Receive("restart", s, None, "start")

\* restartServer() of a server that is down does nothing.
ReceiveRestart ==
    \E s \in Servers : process[s] # None /\ Receive("restart", s, None, "stop")

\* Mutant: updateServer() does not stop the server.
UpdateRunning ==
    \E s \in Updatable, v \in Versions : Receive("update", s, v, "replace")

ReceiveUpdate ==
    \E s \in Updatable, v \in Versions : Receive("update", s, v, "stop")

\* Mutant: setupServers() goes one server too far.
SetupTooFar ==
    /\ pc = "start"
    /\ IF process[cur] # None
       THEN UNCHANGED <<cwd, process>>
       ELSE /\ cwd' = Path[cur]
            /\ process' = [process EXCEPT ![cur] =
                 IF file[JarPath(cur)] \in Versions THEN file[JarPath(cur)] ELSE None]
    /\ IF op = "setup" /\ cur <= N
       THEN cur' = cur + 1 /\ UNCHANGED <<pc, op, version, again>>
       ELSE pc' = "answer" /\ UNCHANGED commandVars
    /\ UNCHANGED fileVars

\* Mutant: startServer() leaves the change of directory to the new process.
StartInPlace ==
    /\ pc = "start"
    /\ IF process[cur] # None
       THEN UNCHANGED process
       ELSE process' = [process EXCEPT ![cur] =
              IF file[JarPath(cur)] \in Versions THEN file[JarPath(cur)] ELSE None]
    /\ IF op = "setup" /\ cur < N
       THEN cur' = cur + 1 /\ UNCHANGED <<pc, op, version, again>>
       ELSE pc' = "answer" /\ UNCHANGED commandVars
    /\ UNCHANGED <<cwd, fileVars>>

\* startServer(), of one server or, in setupServers(), of each in turn.  A java
\* process with a broken jar exits at once.
StartServer ==
    /\ pc = "start"
    /\ IF process[cur] # None
       THEN UNCHANGED <<cwd, process>>
       ELSE /\ cwd' = Path[cur]
            /\ process' = [process EXCEPT ![cur] =
                 IF file[JarPath(cur)] \in Versions THEN file[JarPath(cur)] ELSE None]
    /\ IF op = "setup" /\ cur < N
       THEN cur' = cur + 1 /\ UNCHANGED <<pc, op, version, again>>
       ELSE pc' = "answer" /\ UNCHANGED commandVars
    /\ UNCHANGED fileVars

\* stopServer(), with its wait.
StopServer ==
    /\ pc = "stop"
    /\ process' = [process EXCEPT ![cur] = None]
    /\ pc' = CASE op = "stop"    -> "answer"
               [] op = "restart" -> "start"
               [] op = "update"  -> "replace"
    /\ UNCHANGED <<commandVars, cwd, fileVars>>

\* unlink() and fopen(..., "wb").
Replace ==
    /\ pc = "replace"
    /\ file' = [file EXCEPT ![UpdatePath(cur)] = Broken]
    /\ writer' = [writer EXCEPT ![UpdatePath(cur)] = cur]
    /\ pc' = "download"
    /\ UNCHANGED <<commandVars, cwd, process>>

\* curl_easy_perform() and fclose(): nobody looks at how it went.
Download ==
    /\ pc = "download"
    /\ \/ file' = [file EXCEPT ![UpdatePath(cur)] = version]
       \/ "download" \in Faults /\ file' = [file EXCEPT ![UpdatePath(cur)] = Broken]
    /\ pc' = "start"
    /\ UNCHANGED <<commandVars, cwd, process, writer>>

Answer ==
    /\ pc = "answer"
    /\ pc' = "idle"
    /\ UNCHANGED <<commandVars, cwd, process, fileVars>>

Exit(s) ==
    /\ "exit" \in Faults
    /\ process[s] # None
    /\ process' = [process EXCEPT ![s] = None]
    /\ UNCHANGED <<pc, commandVars, cwd, fileVars>>

Next ==
    \/ ReceiveStart \/ ReceiveStop \/ ReceiveRestart \/ ReceiveUpdate
    \/ StartServer \/ StopServer \/ Replace \/ Download \/ Answer
    \/ \E s \in Servers : Exit(s)

Spec == Init /\ [][Next]_vars

-----------------------------------------------------------------------------
(* Properties.                                                             *)

Contents == Versions \cup {Broken}

\* Every variable has its type.
TypeOK ==
    /\ pc \in {"idle", "start", "stop", "replace", "download", "answer"}
    /\ op \in {"setup", "start", "stop", "restart", "update"}
    /\ cur \in Servers
    /\ version \in Versions \cup {None}
    /\ cwd \in Dirs
    /\ file \in [Files -> Contents]
    /\ process \in [Servers -> Versions \cup {None}]
    /\ writer \in [Files -> Servers \cup {0}]
    /\ again \in BOOLEAN

\* A server runs something other than its installed jar only when the update of
\* ANOTHER server has replaced that jar: updateServer() stops its own server
\* before it unlinks anything, but writes wherever the daemon happens to be.
StaleOnlyByOthers ==
    \A s \in Servers :
        process[s] \notin {None, file[JarPath(s)]} => writer[JarPath(s)] # s

\* A server that restartServer() or updateServer() has just been answered for
\* runs what its jar file holds now, or is down: startServer() alone leaves a
\* running server as it is.
FreshAfterRestart ==
    pc = "answer" /\ op \in {"restart", "update"}
        => process[cur] \in {None, file[JarPath(cur)]}

\* An update that comes right behind an update or a restart of the same server, or
\* behind the set-up that started it last, reaches that server's own jar, whatever
\* file the one before may have written: its server runs the version, or the download
\* has failed.  The directory that the one command left the daemon in is the next
\* one's.
RetryTakesEffect ==
    pc = "answer" /\ op = "update" /\ again
        => file[JarPath(cur)] \in {version, Broken} /\ process[cur] \in {version, None}

\* updateServer(): "Updates the server to the specified version."
UpdateTakesEffect ==
    pc = "answer" /\ op = "update" => file[JarPath(cur)] = version
=============================================================================
