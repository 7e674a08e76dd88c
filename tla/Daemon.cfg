\* Two clients and two servers; clients give up, servers exit,
\* descriptors run out.
CONSTANTS
    N = 2
    Pids = {p1, p2}
    NoPid = NoPid
    Gone = Gone
    Closed = Closed
    a = a
    Names <- MCNames
    Name <- MCName
    Class <- MCClass
    Countdown = 1
    Clients = {c1, c2}
    NoClient = NoClient
    Options = {"stop", "backupall", "stopdaemon", "updateall"}
    Backlog = 2
    Sequential = FALSE
    Faults = {"kill", "exit", "emfile"}
SPECIFICATION FairSpec
INVARIANTS
    ServersActOnRequest
PROPERTIES
    ToldTheTruth
    ImplementsSocket
    CommandsEnd
    ClientsReturn
