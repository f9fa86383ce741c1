SPECIFICATION Spec
CONSTANTS
    Proc = {p1, p2, p3}
    Change = {a, b}
    None = None
    MaxCalls = 5
    MaxFiles = 2
    MaxCrash = 1
    DiskFull = FALSE
CHECK_DEADLOCK FALSE
INVARIANTS
    ConfigWhole
    LostOnlyInWindow
PROPERTIES
    LoadsSeeSaved
    CallsEnd
