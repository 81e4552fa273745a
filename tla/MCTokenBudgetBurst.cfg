SPECIFICATION Spec
CONSTANTS
    r1 = r1
    r2 = r2
    r3 = r3
    r4 = r4
    p1 = p1
    Requests = {r1, r2, r3, r4}
    Principals = {p1}
    Estimates = {1, 2}
    MaxRequestTokens = 2
    MaxWindowTokens = 2
    WindowSecs = 1
    MaxStale = 2
    MaxTime = 5
    MaxRestarts = 0
SYMMETRY SymmetricIds
INVARIANTS
    ThroughputBound
