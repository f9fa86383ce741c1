SPECIFICATION Spec
CONSTANTS
    N = 3
    Visible = {1, 3}
    Prefix = {1, 2}
    Cap = 1
    MaxSeq = 2
    MaxGen = 3
    FreeCursor = FALSE
INVARIANTS
    AnswersComplete
PROPERTY LookupsFinish
CHECK_DEADLOCK FALSE
