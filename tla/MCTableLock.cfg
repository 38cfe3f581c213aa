SPECIFICATION Spec
CONSTANTS
    s1 = s1
    s2 = s2
    s3 = s3
    t1 = t1
    Sessions = {s1, s2}
    Tables = {t1}
    TableOf <- OneTable
    ExtendBound = 6
    MaxRetry = 1
SYMMETRY SessionSymmetry
INVARIANTS MutualExclusion QueueOrder NoLostWakeup InsertLockIsFresh
PROPERTY NoResurrection
CHECK_DEADLOCK FALSE
