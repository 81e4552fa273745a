SPECIFICATION Spec
CONSTANTS
    r1 = r1
    r2 = r2
    r3 = r3
    p1 = p1
    p2 = p2
    Requests = {r1, r2, r3}
    Principals = {p1, p2}
    Estimates = {1, 2, 3}
    MaxRequestTokens = 2
    MaxWindowTokens = 3
    WindowSecs = 1
    MaxStale = 1
    MaxTime = 4
    MaxRestarts = 1
SYMMETRY SymmetricIds
INVARIANTS
    TypeOK
    WindowWithinLimit
    BalanceIsWindowSum
    WindowsApart
    BudgetInv
PROPERTIES
    RefusedForRecentUse
    ImplementsQuota
