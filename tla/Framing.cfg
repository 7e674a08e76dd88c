SPECIFICATION FairSpec
CONSTANTS
    Base = 2
    Width = 2
    Lengths = {0, 1, 3, 5}
    MaxMessages = 3
    Faults = {"beyond"}
INVARIANTS
    FieldsIntact
    WaitsOnlyForEmpty
PROPERTY
    FieldsArrive
