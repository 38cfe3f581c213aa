SPECIFICATION Spec
CONSTANTS
    n1 = n1
    n2 = n2
    k1 = k1
    k2 = k2
    Replicas <- TwoReplicas
    KeyOrder <- Order
    Payloads <- Expiring
    MaxLog = 3
    MaxTime = 3
    Second = 2
    MonotoneTime = TRUE
    Installs = TRUE
INVARIANTS
    ReplicasAgree
    ExpiredAreRemoved
