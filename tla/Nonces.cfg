SPECIFICATION FairSpec
CONSTANTS
    Values = {n1, n2, n3}
    NoValue = NoValue
    Procs = {p1, p2}
    NonceMax = 1
    Ttl = 1
    MaxTime = 3
    DbErrors = TRUE
INVARIANTS
    NoReplay
    NoneBurned
    CapOvershoot
PROPERTIES
    OnlyExpiredPruned
    CapDrainsWhilePruning
