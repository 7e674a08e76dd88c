\* Two servers of different classes, two daemon runs, every fault.
CONSTANTS
    N = 2
    Pids = {p1, p2, p3, p4}
    NoPid = NoPid
    Gone = Gone
    Closed = Closed
    a = a
    b = b
    stranger = stranger
    Names <- MCNames
    Name <- MCName
    Class <- MCClass
    Countdown = 1
    MaxRuns = 2
    Faults = {"entry", "exit", "fork", "pipe", "account", "hangup", "interrupt", "reuse"}
SPECIFICATION Spec
SYMMETRY Symmetry
INVARIANTS
    TypeOK
    NoLostChild
    AtMostOneProcess
    AnsweredMeansDown
    StopDaemonLeavesNone
    ReadonlyOnlyInBackup
    SigpipeOnlyFromBackup
PROPERTIES
    ImplementsRegistry
