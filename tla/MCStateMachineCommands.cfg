SPECIFICATION Spec
CONSTANTS
    n1 = n1
    n2 = n2
    k1 = k1
    k2 = k2
    Replicas <- OneReplica
    KeyOrder <- Order
    Payloads <- AllCommands
    MaxLog = 3
    MaxTime = 4
    Second = 2
    MonotoneTime = FALSE
    Installs = FALSE
INVARIANTS
    IndexIsExact
    ExpiredAreRemoved
PROPERTIES
    ChangesExplainEntry
