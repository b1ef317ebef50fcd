SPECIFICATION Spec
CONSTANTS
    a1 = a1
    a2 = a2
    a3 = a3
    p1 = p1
    p2 = p2
    Names = {a1, a2, a3}
    Paths = {p1, p2}
    ServerAliases <- MCDistinctAliases
    BadPath = BadPath
    NoEntry = NoEntry
    NoPath = NoPath
    MaxBatch = 2
INVARIANT OneAliasPerPath
