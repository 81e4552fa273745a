SPECIFICATION Spec
CONSTANTS
    r1 = r1
    r2 = r2
    Requests = {r1, r2}
    Inputs <- FarInputs
    AllowedPaths <- ServedPaths
    Strict = TRUE
    MaxBodySize = 1
    MaxResponseBuffer = 1
    ChunkSizes = {1}
    Enabled = {"token_budget", "output_sanitizer"}
    RequireApiKey = TRUE
    MaxRestarts = 1
INVARIANTS
    MetricsBalance
    CountersAgreeWithHelp
PROPERTIES
    ImplementsContract
    ReadRequestsSettle
