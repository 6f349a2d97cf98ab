SPECIFICATION Spec
CONSTANTS
    Procs = {p1, p2}
    Nobody = Nobody
    p1 = p1
    p2 = p2
    WithRedis = FALSE
    FailOpen = TRUE
    RedisFaults = FALSE
    Buffer = 1
    DefaultTTL = 2
    Lifetimes = {2}
    MaxRetries = 0
    MaxPurges = 1
    MaxIssued = 2
    MaxNow = 1
INVARIANT PurgeEffective
