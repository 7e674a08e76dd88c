\* Two concurrent clients, every option; clients may be interrupted, the daemon
\* may run out of descriptors, and may end at any point.
CONSTANTS
    Clients = {c1, c2}
    NoClient = NoClient
    Options <- Everything
    Names = {"v", "b", "x"}
    Known = {"v", "b"}
    Vanilla = {"v"}
    Backlog = 5
    Sequential = FALSE
    Faults = {"kill", "emfile", "die"}
SPECIFICATION Spec
SYMMETRY Symmetry
INVARIANTS
    TypeOK
    NoMutualWait
    SigpipeOnlyByLeaving
    ExecutedAsAsked
    AcceptFindsOne
    LeftBehind
PROPERTIES
    ImplementsService
