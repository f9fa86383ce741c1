SPECIFICATION FairSpec
CONSTANTS
    HDR = 2
    Lens = {1, 3}
    TXQ_MAX = 5
    W = 16
    SockCap = 4
    MaxMsgs = 4
INVARIANTS
    OffsetInHead
    NoLostWakeup
    FramedUnlessTorn
    CounterMeaning
PROPERTY QueueDrains
