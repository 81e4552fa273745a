SPECIFICATION ServiceSpec
CONSTANTS
    r1 = r1
    r2 = r2
    Requests = {r1, r2}
    Inputs <- PlainInput
    AllowedPaths = {}
    Strict = TRUE
    MaxBodySize = 1
    MaxResponseBuffer = 1
    ChunkSizes = {1}
    Enabled = {"rate_limiter", "token_budget"}
    RequireApiKey = TRUE
    MaxRestarts = 1
    Keys = {"k1", "k2"}
    Addresses = {"a1", "a2"}
    Callers <- SomeCallers
    Estimates = {1, 2}
    MaxRequestTokens = 1
    MaxWindowTokens = 1
    WindowSecs = 1
    RequestsPerMinute = 1
    Minute = 2
    MaxStale = 1
    MaxTime = 2
SYMMETRY SymmetricRequests
INVARIANTS
    ForwardedWithinBudget
    RateRefusalsAreFree
    FailuresStayCharged
    RateBound
    RateRefusedForUse
PROPERTIES
    BudgetKept
