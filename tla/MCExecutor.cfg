SPECIFICATION Spec
CONSTANTS
    Graph <- Chain
    MayBeAsync = {1, 3}
    Workers = 2
    Blocks = 2
    Empty = {1}
    MayKill = TRUE
    MayFail = TRUE
INVARIANTS
    OneHolder
