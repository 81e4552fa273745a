SPECIFICATION ExchangeSpec
CONSTANTS
    r1 = r1
    Requests = {r1}
    Inputs <- CleanInputs
    AllowedPaths = {}
    Strict = TRUE
    MaxBodySize = 1
    MaxResponseBuffer = 1
    ChunkSizes = {1}
    Enabled <- Detectors
    RequireApiKey = FALSE
    MaxRestarts = 0
    MaxRequestTokens = 60
    UsizeValues = 1000
    Marks <- AllMarks
    KeyOrder <- SortedKeys
    MaxNesting = 7
    Numeral <- SmallNumeral
    Escapes <- SmallEscapes
    Prompt <- PolicyPrompt
    InjectionPhrases <- SmallPhrases
    ExecutablePatterns <- ScriptPatterns
    AuditPatterns <- SecretPatterns
    Exchanges <- DeltaExchanges
INVARIANT StreamedCallsAllowed
