\* One key, an outage across the end of a window, Close racing the worker for flushMu.
CONSTANTS
    k1 = k1
    k2 = k2
    Keys = {k1}
    Reqs = {r1}
    Costs = {1}
    Limit = 2
    Duration = 1
    Grace = 0
    Jitter = 1
    MaxTime = 1
    NumStripes = 1
    StripeOf <- OneStripe
    StripeCap = 1
    ScanLimit = 8
    Budget = 1
    Chunk = 1
    FailOpen = FALSE
    FailClosedThreshold = 2
    MaxOther = 0
    MayClose = TRUE
    RedisFails = TRUE
    MaxGrant = 2
    MaxAmbiguous = 0
SPECIFICATION FairSpec
CHECK_DEADLOCK FALSE
PROPERTY RecoversFromOutage
PROPERTY EventuallyFlushed
PROPERTY GlobalBaseMonotone
