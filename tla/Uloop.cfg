SPECIFICATION Spec
CONSTANTS
    Fd = {f1, f2}
    Edge = {f1}
    Proc = {p1}
    MaxDepth = 4
    MaxArrive = 2
    MaxOps = 2
INVARIANT DeletedIsSilent
PROPERTIES
    DataAreRead
    ChildrenAreTold
CHECK_DEADLOCK FALSE
