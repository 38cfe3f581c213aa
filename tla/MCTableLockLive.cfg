SPECIFICATION FairSpec
CONSTANTS
    s1 = s1
    s2 = s2
    s3 = s3
    t1 = t1
    Sessions = {s1, s2}
    Tables = {t1}
    TableOf <- OneTable
    ExtendBound = 3
    MaxRetry = 0
PROPERTIES RequestSettles  LocksAreReclaimed
CHECK_DEADLOCK FALSE
