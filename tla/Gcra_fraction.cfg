SPECIFICATION Spec
CONSTANTS
    Keys = {k1}
    Limit = 1
    Duration = 3
    Burst = 1
    Backend = "redis"
    Second = 2
    MaxCost = 1
    MaxTime = 8
    MaxDebt = 6
INVARIANT RateKept
CHECK_DEADLOCK FALSE
