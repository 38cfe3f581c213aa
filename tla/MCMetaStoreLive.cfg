SPECIFICATION FairSpec
CONSTANTS
    k1 = k1
    k2 = k2
    StrKeys <- OneKey
    Times <- OneTime
    MaxLog = 1
    MaxLevels = 2
    KeepSnapshots = 1
    MayExport = TRUE
    Follower = TRUE
INVARIANTS
    TypeOK
PROPERTIES
    BuildSettles
    InstallSettles
