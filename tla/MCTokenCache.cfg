SPECIFICATION FairSpec
CONSTANTS
    Procs = {p1, p2}
    Nobody = Nobody
    p1 = p1
    p2 = p2
    WithRedis = TRUE
    FailOpen = FALSE
    RedisFaults = TRUE
    Buffer = 1
    DefaultTTL = 2
    Lifetimes = {0, 2}
    MaxRetries = 1
    MaxPurges = 1
    MaxIssued = 2
    MaxNow = 2
INVARIANTS SingleFlight NoEternalEntry
PROPERTIES StaleRecognised OneTokenPerSource CallsReturn
