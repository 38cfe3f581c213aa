SPECIFICATION Spec
CONSTANTS
    Graph <- Crossing
    MayBeAsync = {5}
    Workers = 2
    Blocks = 1
    Empty = {}
    MayKill = FALSE
    MayFail = FALSE
INVARIANTS
    FinishedMeansDone
    
    WaitingIsAsleep
PROPERTIES
    NothingAfterOnFinish
    QueryEnds
CHECK_DEADLOCK FALSE
