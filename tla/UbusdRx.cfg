SPECIFICATION Spec
CONSTANTS
    HDR = 2
    Lens = {0, 2}
    Cap = 1
    MaxMsgs = 4
INVARIANT RequestsWhole
PROPERTIES
    RequestsServed
    ClosedIsFreed
CHECK_DEADLOCK FALSE
