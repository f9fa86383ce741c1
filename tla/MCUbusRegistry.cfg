SPECIFICATION Spec
CONSTANTS
    Client = {c1, c2}
    ObjId = {o1, o2, o3}
    Path = {p1, p2}
    TypeId = {t1}
    Pattern = {e1}
    MaxDup = 2
    Null = Null
SYMMETRY Symmetry
INVARIANTS
    PathTreeExact
    TypeRefcountExact
    NoDanglingSubscription
