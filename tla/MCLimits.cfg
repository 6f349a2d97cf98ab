SPECIFICATION SuiteSpec
CONSTANTS
    Parts = {"gcra", "window", "cache", "delegates"}
    Keys = {k1}
    Limit = 2
    Duration = 4
    Burst = 3
    Backend = "memory"
    Second = 2
    MaxCost = 3
    MaxTime = 8
    MaxDebt = 10
    Deployments <- AllDeployments
    Reqs = {q1, q2}
    MaxTokens = 2
    Grace = 1
    Jitter = 2
    ExpireUnit = 2
    ScriptUnit = 2
    Never = 1000
    LastTime = 3
    MaxCalls = 2
    Attachments = {"a1", "a2", "a3"}
    RouteOf <- Routing
    LevelOf <- LevelsApart
    Params = {"p1"}
    Quotas = {"qa", "qr"}
    ApiScoped = {"qa"}
    Shared = "shared"
    MaxGen = 2
    Kinds = {"token", "cost", "mcp"}
    Clients = {u1, u2, u3}
    Nil = Nil
    Configs = {"c1", "c2"}
    NoConfig = "none"
    MaxChanges = 2
    MaxRefs = 2
SYMMETRY ReqSymmetry
INVARIANTS CountExact AllowWithinLimit DenialReported OvershootBounded KeysExpire NoClosedInUse ApiScopeShared ReadsAgree RateKept DelegateSettled
PROPERTY BucketSpec
CHECK_DEADLOCK FALSE
