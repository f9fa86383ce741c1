SPECIFICATION Spec
CONSTANTS
    Client = {c1, c2}
    ObjId = {o1, o2, o3}
    Path = {p1}
    TypeId = {t1}
    Pattern = {"*"}
    EventId = {"net.up"}
    Null = Null
    Rank <- MCRank
    Matches <- MCMatches
    MaxSub = 1
    MaxPat = 1
    MaxTx = 3
    Cmd = {"ADD_OBJECT", "REMOVE_OBJECT", "REGISTER", "SEND"}
SYMMETRY Symmetry
INVARIANTS
    
    ListenerTracksObjects
    MessagesFindTheirObject
PROPERTY ImplementsRegistry
