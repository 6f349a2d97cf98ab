\* Two keys in one window, chunked pipelines that fail whole, another replica.
CONSTANTS
    k1 = k1
    k2 = k2
    Keys = {k1, k2}
    Reqs = {r1}
    Costs = {1}
    Limit = 2
    Duration = 2
    Grace = 0
    Jitter = 1
    MaxTime = 0
    NumStripes = 1
    StripeOf <- OneStripe
    StripeCap = 2
    ScanLimit = 8
    Budget = 2
    Chunk = 1
    FailOpen = TRUE
    FailClosedThreshold = 2
    MaxOther = 1
    MayClose = FALSE
    RedisFails = TRUE
    MaxGrant = 3
    MaxAmbiguous = 0
SPECIFICATION Spec
CHECK_DEADLOCK FALSE
INVARIANT CountedOnce
INVARIANT PerReplicaLimit
