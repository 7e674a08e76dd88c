------------------------- MODULE ServerFilesProofs -------------------------
(***************************************************************************)
(* The invariants of ServerFiles, for every configuration.                 *)
(***************************************************************************)
EXTENDS ServerFiles, TLAPS

\* updateServer() is the only command that writes, and it has a version to write;
\* stopServer() is only reached from the commands that call it.
Steps ==
    /\ pc \in {"replace", "download"} => op = "update"
    /\ op = "update" => version \in Versions
    /\ pc = "stop" => op \in {"stop", "restart", "update"}

\* Between stopServer() and startServer() the server is down: nothing starts it
\* in between.
Down ==
    (pc \in {"replace", "download"} \/ (pc = "start" /\ op \in {"restart", "update"}))
        => process[cur] = None

\* A command that starts a server that is down takes the daemon to its directory:
\* there it still is when the next command comes,
AtHome ==
    /\ pc \in {"answer", "idle"} /\ op \in {"setup", "restart", "update"}
         => cwd = Path[cur]
    /\ again /\ pc # "idle" => cwd = Path[cur]

\* so that the update that comes next has written its own server's jar.
OwnJar ==
    again /\ op = "update" /\ pc \in {"start", "answer"}
        => file[JarPath(cur)] \in {version, Broken}

\* The set-up is the first command, and the servers that it has not yet started are
\* down.
SettingUp ==
    op = "setup" =>
      /\ pc \in {"start", "answer", "idle"} /\ ~ again
      /\ pc = "start" => \A s \in Servers : s >= cur => process[s] = None

\* The file that is being downloaded is the one that was unlinked.
Writing == pc = "download" => writer[UpdatePath(cur)] = cur

FilesInv ==
    /\ TypeOK /\ Steps /\ Down /\ Writing /\ AtHome /\ OwnJar /\ SettingUp
    /\ StaleOnlyByOthers /\ FreshAfterRestart /\ RetryTakesEffect

\* The jars that the configuration names are files.
LEMMA PathsAreFiles ==
    \A s \in Servers : JarPath(s) \in Files /\ (cwd \in Dirs => UpdatePath(s) \in Files)
BY ConstantsAssumption DEF JarPath, UpdatePath, Files

LEMMA InitFiles == Init => FilesInv
<1>1. SUFFICES ASSUME Init PROVE FilesInv
  OBVIOUS
<1>2. \A s \in Servers : file[JarPath(s)] \in Versions
  <2>1. SUFFICES ASSUME NEW s \in Servers PROVE file[JarPath(s)] \in Versions
    OBVIOUS
  <2>2. PICK t \in Servers : t = CHOOSE u \in Servers : JarPath(u) = JarPath(s)
    OBVIOUS
  <2>3. file[JarPath(s)] = Installed[t]
    BY <1>1, <2>2, PathsAreFiles DEF Init
  <2>4. QED BY <2>3, ConstantsAssumption
<1>3. file \in [Files -> Contents]
  <2>1. \A f \in Files : (\E s \in Servers : JarPath(s) = f)
            => Installed[CHOOSE s \in Servers : JarPath(s) = f] \in Versions
    BY ConstantsAssumption
  <2>2. QED BY <1>1, <2>1 DEF Init, Contents
<1>4. TypeOK
  <2>1. cur \in Servers
    <3>1. N \in Nat \ {0}
      BY ConstantsAssumption
    <3>2. cur = 1
      BY <1>1 DEF Init
    <3>3. QED BY ONLY <3>1, <3>2 DEF Servers
  <2>2. /\ process \in [Servers -> Versions \cup {None}]
        /\ writer \in [Files -> Servers \cup {0}]
        /\ cwd \in Dirs
    BY <1>1, ConstantsAssumption DEF Init
  <2>3. QED BY <1>1, <1>3, <2>1, <2>2 DEF Init, TypeOK
<1>5. Steps /\ Down /\ Writing /\ FreshAfterRestart
  BY <1>1 DEF Init, Steps, Down, Writing, FreshAfterRestart
<1>6. StaleOnlyByOthers
  BY <1>1 DEF Init, StaleOnlyByOthers
<1>7. AtHome /\ OwnJar /\ SettingUp /\ RetryTakesEffect
  BY <1>1 DEF Init, AtHome, OwnJar, SettingUp, RetryTakesEffect
<1>8. QED BY <1>4, <1>5, <1>6, <1>7 DEF FilesInv

LEMMA ReceiveKeeps ==
    ASSUME FilesInv,
           NEW c \in {"start", "stop", "restart", "update"}, NEW s \in Servers,
           NEW v \in Versions \cup {None}, NEW l \in {"start", "stop"},
           Receive(c, s, v, l),
           c = "update" => v \in Versions,
           c \in {"restart", "update"} => l = "stop",
           c = "start" => l = "start"
    PROVE  FilesInv'
<1>1. TypeOK' /\ Steps' /\ Down' /\ Writing'
  BY DEF FilesInv, Receive, TypeOK, Steps, Down, Writing, fileVars
<1>2. StaleOnlyByOthers' /\ FreshAfterRestart' /\ RetryTakesEffect'
  BY DEF FilesInv, Receive, StaleOnlyByOthers, FreshAfterRestart, RetryTakesEffect, JarPath,
         fileVars
<1>3. AtHome' /\ SettingUp'
  BY DEF FilesInv, Receive, AtHome, SettingUp
<1>4. OwnJar'
  BY DEF Receive, OwnJar
<1>5. QED BY <1>1, <1>2, <1>3, <1>4 DEF FilesInv

LEMMA StartKeeps == FilesInv /\ StartServer => FilesInv'
<1>1. SUFFICES ASSUME FilesInv, StartServer PROVE FilesInv'
  OBVIOUS
<1>2. USE PathsAreFiles, ConstantsAssumption
<1>3. TypeOK'
  <2>1. /\ cwd' \in Dirs /\ process' \in [Servers -> Versions \cup {None}]
        /\ UNCHANGED <<file, writer>>
    BY <1>1 DEF FilesInv, StartServer, TypeOK, fileVars
  <2>2. /\ pc' \in {"start", "answer"} /\ cur' \in Servers
        /\ UNCHANGED <<op, version, again>>
    BY <1>1 DEF FilesInv, StartServer, TypeOK, Servers, commandVars
  <2>3. QED BY <1>1, <2>1, <2>2 DEF FilesInv, TypeOK
<1>4. Steps' /\ Writing'
  BY <1>1 DEF FilesInv, StartServer, Steps, Writing, commandVars
<1>5. Down'
  BY <1>1 DEF FilesInv, StartServer, Down, commandVars
<1>6. StaleOnlyByOthers'
  BY <1>1 DEF FilesInv, StartServer, TypeOK, StaleOnlyByOthers, JarPath, fileVars
<1>7. FreshAfterRestart'
  BY <1>1 DEF FilesInv, StartServer, TypeOK, Down, FreshAfterRestart, JarPath, fileVars,
              commandVars
<1>8. AtHome'
  <2>1. \/ op = "setup" /\ UNCHANGED <<pc, op, again>>
        \/ UNCHANGED commandVars
    BY <1>1 DEF StartServer, commandVars
  <2>2. process[cur] = None => cwd' = Path[cur]
    BY <1>1 DEF StartServer
  <2>3. op \in {"setup", "restart", "update"} => process[cur] = None
    BY <1>1 DEF FilesInv, StartServer, TypeOK, Down, SettingUp, Servers
  <2>4. again => cwd' = Path[cur]
    BY <1>1, <2>2 DEF FilesInv, StartServer, AtHome
  <2>5. CASE UNCHANGED commandVars
    BY <2>2, <2>3, <2>4, <2>5 DEF AtHome, commandVars
  <2>6. CASE op = "setup" /\ UNCHANGED <<pc, op, again>>
    <3>1. ~ again
      BY <1>1, <2>6 DEF FilesInv, SettingUp
    <3>2. QED BY <1>1, <2>6, <3>1 DEF StartServer, AtHome
  <2>7. QED BY <2>1, <2>5, <2>6
<1>9. OwnJar'
  BY <1>1 DEF FilesInv, StartServer, Down, OwnJar, JarPath, commandVars, fileVars
<1>10. SettingUp'
  BY <1>1 DEF FilesInv, StartServer, TypeOK, SettingUp, commandVars, Servers
<1>11. RetryTakesEffect'
  <2>1. /\ FreshAfterRestart' /\ OwnJar' /\ TypeOK'
    BY <1>3, <1>7, <1>9
  <2>2. QED BY <2>1 DEF FreshAfterRestart, OwnJar, TypeOK, RetryTakesEffect
<1>12. QED
  BY <1>3, <1>4, <1>5, <1>6, <1>7, <1>8, <1>9, <1>10, <1>11 DEF FilesInv

LEMMA StopKeeps == FilesInv /\ StopServer => FilesInv'
<1>1. SUFFICES ASSUME FilesInv, StopServer PROVE FilesInv'
  OBVIOUS
<1>2. TypeOK' /\ Steps' /\ Down' /\ Writing'
  BY <1>1 DEF FilesInv, StopServer, TypeOK, Steps, Down, Writing, commandVars, fileVars
<1>3. StaleOnlyByOthers' /\ FreshAfterRestart' /\ RetryTakesEffect'
  BY <1>1 DEF FilesInv, StopServer, TypeOK, Steps, StaleOnlyByOthers, FreshAfterRestart,
              RetryTakesEffect, JarPath, commandVars, fileVars
<1>4. AtHome' /\ OwnJar' /\ SettingUp'
  BY <1>1 DEF FilesInv, StopServer, Steps, AtHome, OwnJar, SettingUp, commandVars, fileVars
<1>5. QED BY <1>2, <1>3, <1>4 DEF FilesInv

LEMMA ReplaceKeeps == FilesInv /\ Replace => FilesInv'
<1>1. SUFFICES ASSUME FilesInv, Replace PROVE FilesInv'
  OBVIOUS
<1>2. UpdatePath(cur) \in Files /\ \A s \in Servers : JarPath(s) \in Files
  BY <1>1, PathsAreFiles DEF FilesInv, TypeOK
<1>3. TypeOK' /\ Steps' /\ Down' /\ Writing'
  BY <1>1, <1>2 DEF FilesInv, Replace, TypeOK, Contents, Steps, Down, Writing, commandVars,
                    UpdatePath
<1>4. StaleOnlyByOthers'
  BY <1>1, <1>2 DEF FilesInv, Replace, TypeOK, Down, StaleOnlyByOthers, JarPath,
                    commandVars
<1>5. FreshAfterRestart' /\ RetryTakesEffect'
  BY <1>1 DEF Replace, FreshAfterRestart, RetryTakesEffect
<1>6. AtHome' /\ OwnJar' /\ SettingUp'
  BY <1>1 DEF FilesInv, Replace, Steps, AtHome, OwnJar, SettingUp, commandVars
<1>7. QED BY <1>3, <1>4, <1>5, <1>6 DEF FilesInv

LEMMA DownloadKeeps == FilesInv /\ Download => FilesInv'
<1>1. SUFFICES ASSUME FilesInv, Download PROVE FilesInv'
  OBVIOUS
<1>2. UpdatePath(cur) \in Files /\ \A s \in Servers : JarPath(s) \in Files
  BY <1>1, PathsAreFiles DEF FilesInv, TypeOK
<1>3. PICK x \in Versions \cup {Broken} : file' = [file EXCEPT ![UpdatePath(cur)] = x]
  BY <1>1 DEF FilesInv, Steps, Download
<1>4. TypeOK' /\ Steps' /\ Down' /\ Writing'
  BY <1>1, <1>2, <1>3 DEF FilesInv, Download, TypeOK, Contents, Steps, Down, Writing,
                          commandVars
<1>5. StaleOnlyByOthers'
  BY <1>1, <1>2, <1>3 DEF FilesInv, Download, TypeOK, Down, Writing, StaleOnlyByOthers,
                          JarPath, commandVars
<1>6. FreshAfterRestart' /\ RetryTakesEffect'
  BY <1>1 DEF Download, FreshAfterRestart, RetryTakesEffect
<1>7. AtHome' /\ SettingUp'
  BY <1>1 DEF FilesInv, Download, Steps, AtHome, SettingUp, commandVars
\* An update that comes at home downloads to its own server's jar.
<1>8. OwnJar'
  <2>1. SUFFICES ASSUME again PROVE file'[JarPath(cur)] \in {version, Broken}
    BY <1>1 DEF Download, OwnJar, JarPath, commandVars
  <2>2. UpdatePath(cur) = JarPath(cur)
    BY <1>1, <2>1 DEF FilesInv, Download, AtHome, UpdatePath, JarPath
  <2>3. QED BY <1>1, <1>2, <2>2 DEF FilesInv, TypeOK, Download
<1>9. QED BY <1>4, <1>5, <1>6, <1>7, <1>8 DEF FilesInv

LEMMA RestKeeps ==
    FilesInv /\ (Answer \/ (\E s \in Servers : Exit(s)) \/ UNCHANGED vars) => FilesInv'
<1>1. FilesInv /\ Answer => FilesInv'
  BY DEF FilesInv, Answer, TypeOK, Steps, Down, Writing, StaleOnlyByOthers, AtHome, OwnJar,
         SettingUp, FreshAfterRestart, RetryTakesEffect, JarPath, UpdatePath, commandVars,
         fileVars
<1>2. ASSUME FilesInv, NEW s \in Servers, Exit(s) PROVE FilesInv'
  <2>1. TypeOK' /\ Steps' /\ Down' /\ Writing'
    BY <1>2 DEF FilesInv, Exit, TypeOK, Steps, Down, Writing, UpdatePath, commandVars,
                fileVars
  <2>2. StaleOnlyByOthers' /\ FreshAfterRestart' /\ RetryTakesEffect'
    BY <1>2 DEF FilesInv, Exit, TypeOK, StaleOnlyByOthers, FreshAfterRestart, RetryTakesEffect,
                JarPath, commandVars, fileVars
  <2>3. AtHome' /\ OwnJar' /\ SettingUp'
    BY <1>2 DEF FilesInv, Exit, TypeOK, AtHome, OwnJar, SettingUp, JarPath, commandVars,
                fileVars
  <2>4. QED BY <2>1, <2>2, <2>3 DEF FilesInv
<1>3. FilesInv /\ UNCHANGED vars => FilesInv'
  BY DEF FilesInv, vars, TypeOK, Steps, Down, Writing, AtHome, OwnJar, SettingUp,
         StaleOnlyByOthers, FreshAfterRestart, RetryTakesEffect, JarPath, UpdatePath
<1>4. QED BY <1>1, <1>2, <1>3

\* Every step keeps the invariant, one lemma for each action.
LEMMA NextFiles == FilesInv /\ [Next]_vars => FilesInv'
<1>1. SUFFICES ASSUME FilesInv, [Next]_vars PROVE FilesInv'
  OBVIOUS
<1>2. CASE ReceiveStart
  <2>1. PICK s \in Servers : Receive("start", s, None, "start")
    BY <1>2 DEF ReceiveStart
  <2>2. QED BY ONLY <1>1, <2>1, ReceiveKeeps
<1>3. CASE ReceiveStop
  <2>1. PICK s \in Servers : Receive("stop", s, None, "stop")
    BY <1>3 DEF ReceiveStop
  <2>2. QED BY ONLY <1>1, <2>1, ReceiveKeeps
<1>4. CASE ReceiveRestart
  <2>1. PICK s \in Servers : Receive("restart", s, None, "stop")
    BY <1>4 DEF ReceiveRestart
  <2>2. QED BY ONLY <1>1, <2>1, ReceiveKeeps
<1>5. CASE ReceiveUpdate
  <2>1. PICK s \in Servers, v \in Versions : Receive("update", s, v, "stop")
    BY <1>5, ConstantsAssumption DEF ReceiveUpdate
  <2>2. QED BY ONLY <1>1, <2>1, ReceiveKeeps
<1>6. QED
  BY <1>1, <1>2, <1>3, <1>4, <1>5, StartKeeps, StopKeeps, ReplaceKeeps, DownloadKeeps,
     RestKeeps DEF Next

\* The conjunction is an invariant of every configuration.
THEOREM FilesInvariant == Spec => []FilesInv
<1>1. QED BY InitFiles, NextFiles, PTL DEF Spec

\* Whatever the servers share, only an update of another server leaves a server
\* running a jar that is no longer installed.
THEOREM StaleProved == Spec => []StaleOnlyByOthers
<1>1. FilesInv => StaleOnlyByOthers
  BY DEF FilesInv
<1>2. QED BY FilesInvariant, <1>1, PTL

\* A restarted or updated server runs the jar that is installed, or none.
THEOREM FreshProved == Spec => []FreshAfterRestart
<1>1. FilesInv => FreshAfterRestart
  BY DEF FilesInv
<1>2. QED BY FilesInvariant, <1>1, PTL

\* The update that follows an update or a restart of the same server reaches that
\* server's own jar.
THEOREM RetryProved == Spec => []RetryTakesEffect
<1>1. FilesInv => RetryTakesEffect
  BY DEF FilesInv
<1>2. QED BY FilesInvariant, <1>1, PTL

\* Every variable stays in its domain.
THEOREM FilesTypes == Spec => []TypeOK
<1>1. FilesInv => TypeOK
  BY DEF FilesInv
<1>2. QED BY FilesInvariant, <1>1, PTL
=============================================================================
