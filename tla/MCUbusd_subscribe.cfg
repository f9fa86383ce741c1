SPECIFICATION Spec
CONSTANTS
    Client = {c1, c2}
    ObjId = {o1, o2, o3}
    Path = {}
    TypeId = {}
    Pattern = {}
    EventId = {}
    Null = Null
    Rank <- MCRank
    Matches <- MCMatches
    MaxSub = 3
    MaxPat = 0
    MaxTx = 4
    Cmd = {"ADD_OBJECT", "REMOVE_OBJECT", "SUBSCRIBE", "UNSUBSCRIBE", "NOTIFY", "PING", "INVOKE", "RESPONSE"}
SYMMETRY Symmetry
INVARIANTS
    OwnerKnowsSubscribers
    SubscriberKnowsTargets
    NothingForTheGone
PROPERTY ImplementsRegistry
