SPECIFICATION Spec
CONSTANTS
    k1 = k1
    k2 = k2
    StrKeys <- OneKey
    Times <- OneTime
    MaxLog = 3
    MaxLevels = 2
    KeepSnapshots = 1
    MayExport = FALSE
    Follower = TRUE
VIEW WithoutBoot
INVARIANTS
    ViewIsHistory
    RangeIsGet
    SnapshotsAreHistory
    RestartCanCatchUp
