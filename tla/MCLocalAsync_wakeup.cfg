\* Two stripes, a flush budget of one entry, fail-closed, outages, Close.
CONSTANTS
    k1 = k1
    k2 = k2
    Keys = {k1, k2}
    Reqs = {r1, r2}
    Costs = {1}
    Limit = 1
    Duration = 2
    Grace = 0
    Jitter = 1
    MaxTime = 0
    NumStripes = 2
    StripeOf <- TwoStripes
    StripeCap = 1
    ScanLimit = 8
    Budget = 1
    Chunk = 1
    FailOpen = FALSE
    FailClosedThreshold = 2
    MaxOther = 0
    MayClose = TRUE
    RedisFails = TRUE
    MaxGrant = 3
    MaxAmbiguous = 0
SPECIFICATION Spec
SYMMETRY ReqSymmetry
CHECK_DEADLOCK FALSE
INVARIANT NoLostWakeup
INVARIANT OneMarker
INVARIANT DownStaysArmed
