SPECIFICATION Spec
CONSTANTS
    k1 = k1
    k2 = k2
    StrKeys <- TwoKeys
    Times <- OneTime
    MaxLog = 2
    MaxLevels = 2
    KeepSnapshots = 3
    MayExport = FALSE
    Follower = TRUE
PROPERTIES
    KeepsPromise
