SPECIFICATION ScrapeSpec
CONSTANTS
    r1 = r1
    r2 = r2
    Requests = {r1, r2}
    Inputs <- ShortInputs
    AllowedPaths = {}
    Strict = TRUE
    MaxBodySize = 1
    MaxResponseBuffer = 1
    ChunkSizes = {1}
    Enabled = {}
    RequireApiKey = FALSE
    MaxRestarts = 1
    MaxPages = 2
SYMMETRY SymmetricRequests
PROPERTIES
    ShownWhileRendered
    PagesGrow
    SkewBounded
