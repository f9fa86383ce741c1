SPECIFICATION Spec
CONSTANTS
    o1 = o1
    o2 = o2
    c1 = c1
    c2 = c2
    ubusd = ubusd
    Object = {o1, o2}
    Owner <- MCOwner
    Sender = {c1, ubusd}
    Key <- Strings
    EventId <- MCEventId
    AclEvent <- MCAclEvent
    MaxPat = 3
    MaxSeq = 3
INVARIANTS
    OnlyListenersServed
PROPERTY DeliveredExactlyOnce
CHECK_DEADLOCK FALSE
