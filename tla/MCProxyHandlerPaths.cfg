SPECIFICATION Spec
CONSTANTS
    r1 = r1
    Requests = {r1}
    Inputs <- AllInputs
    AllowedPaths <- ServedPaths
    Strict = TRUE
    MaxBodySize = 2
    MaxResponseBuffer = 2
    ChunkSizes = {1, 2}
    Enabled <- Detectors
    RequireApiKey = TRUE
    MaxRestarts = 1
INVARIANTS
    TypeOK
    ForwardedAsInspected
    DeliveredAsInspected
    BodiesWholeOrRefused
    AuditMatchesAnswer
    HandlerInv
