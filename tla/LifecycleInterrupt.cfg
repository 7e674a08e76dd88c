\* SIGINT with two servers running.
CONSTANTS
    N = 2
    Pids = {p1, p2}
    NoPid = NoPid
    Gone = Gone
    Closed = Closed
    a = a
    b = b
    stranger = stranger
    Names <- MCNames
    Name <- MCName
    Class <- MCClass
    Countdown = 1
    MaxRuns = 1
    Faults = {"exit", "interrupt"}
SPECIFICATION Spec
SYMMETRY Symmetry
INVARIANTS
    InterruptKillsChildren
