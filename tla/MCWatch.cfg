SPECIFICATION Spec
CONSTANTS
    k1 = k1
    k2 = k2
    w1 = w1
    w2 = w2
    Key = {k1, k2}
    Watcher = {w1, w2}
    Requests <- SomeRequests
    Entries <- SomeEntries
    Cap = 1
    MaxChanges = 2
    MayInstall = TRUE
INVARIANTS
    ExactlyOnceInOrder
    NoEventOutOfOrder
    NothingMissed
    RegisteredIsServed
PROPERTIES
    Converges
    GoneIsRemoved
CHECK_DEADLOCK FALSE
