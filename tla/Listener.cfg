\* Three launches of one server, some of which fail, and threads that
\* use the base at once.
CONSTANTS
    MaxLaunches = 3
    Capacity = 2
    Faults = {"fork", "race"}
SPECIFICATION FairSpec
INVARIANTS
    TypeOK
    TwoLoopsOnlyInHurry
    LeftOnlyAtEof
PROPERTIES
    FirstOutputIsRead
    FirstStopEnds
