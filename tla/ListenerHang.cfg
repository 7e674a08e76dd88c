\* Stopping a server that was started again.
CONSTANTS
    MaxLaunches = 2
    Capacity = 2
    Faults = {}
SPECIFICATION FairSpec
PROPERTIES
    StopEnds
