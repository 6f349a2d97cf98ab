\* A stripe that holds one key: every new key evicts the other; pipelines fail half-way.
CONSTANTS
    k1 = k1
    k2 = k2
    Keys = {k1, k2}
    Reqs = {r1}
    Costs = {1}
    Limit = 1
    Duration = 1
    Grace = 0
    Jitter = 1
    MaxTime = 1
    NumStripes = 1
    StripeOf <- OneStripe
    StripeCap = 1
    ScanLimit = 8
    Budget = 2
    Chunk = 2
    FailOpen = TRUE
    FailClosedThreshold = 2
    MaxOther = 0
    MayClose = FALSE
    RedisFails = TRUE
    MaxGrant = 1
    MaxAmbiguous = 1
SPECIFICATION Spec
CHECK_DEADLOCK FALSE
INVARIANT NoLostCount
