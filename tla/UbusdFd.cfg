SPECIFICATION Spec
CONSTANTS
    Client = {c1, c2}
    NumFd = 4
    MaxTxq = 2
    MaxFile = 6
INVARIANTS
    FdIntact
    NoFdLeak
CHECK_DEADLOCK FALSE
