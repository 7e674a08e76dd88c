\* One update.
CONSTANTS
    Clients = {c1}
    NoClient = NoClient
    Options = {"update"}
    Names = {"v"}
    Known = {"v"}
    Vanilla = {"v"}
    Backlog = 5
    Sequential = TRUE
    Faults = {}
SPECIFICATION FairSpec
PROPERTIES
    UpdateReturns
\* The daemon and the client wait for ever: that is what the run is about.
CHECK_DEADLOCK FALSE
