SPECIFICATION Spec
CONSTANTS
    t1 = t1
    t2 = t2
    Txn <- TwoStatements
    Programs <- AllPrograms
    MaxNow = 2
    Delta = 1
    MaxRetries = 1
    Transient = FALSE
    Lossy = TRUE
CHECK_DEADLOCK FALSE
SYMMETRY Interchangeable
INVARIANTS
    SummaryMatchesSegments
    HistoryIsAChain
    CurrentIsReadable
    
    LoadedOnceWithoutTruncate
PROPERTIES
    TrackedFromTheStart
    Serializes
