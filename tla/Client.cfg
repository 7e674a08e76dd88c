SPECIFICATION Spec
INVARIANTS
    TypeOK
    WindowsExist
    HighlightsSelection
PROPERTIES
    StaysInBar
\* The program may exit or crash.
CHECK_DEADLOCK FALSE
