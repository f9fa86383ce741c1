SPECIFICATION Spec
CONSTANTS
    MaxReq = 3
    MaxData = 3
    MaxObj = 2
    NumPeers = 2
    MaxPeers = 1
INVARIANTS
    RequestsLive
    ObjectMessagesInOrder
    DataBeforeStatus
PROPERTIES
    CallsReturn
    PutOffIsServed
CHECK_DEADLOCK FALSE
