SPECIFICATION FairSpec
CONSTANTS
    s1 = s1
    s2 = s2
    Servers <- MCServers
    Length <- MCLength
    MaxText = 4
INVARIANTS
    TypeOK
    AloneLogsItsLines
    StaysInText
PROPERTY
    CallbacksReturn
