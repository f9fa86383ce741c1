SPECIFICATION Spec
CONSTANTS
    Obj = {o1}
    Target = {1, 2, 3}
    MaxGen = 3
    MaxOther = 3
INVARIANTS
    TargetsCovered
    HasSubscribersKnown
PROPERTY Recovers
CHECK_DEADLOCK FALSE
