SPECIFICATION Spec
CONSTANTS
    c = c
    d = d
    s = s
    x = x
    y = y
    z = z
    r = r
    Leaves = {x, y, z, r}
    Dirs = {c, d, s}
    DirOf <- MCDirOf
    KeyLeaves = {}
    ReadOnly = {r, s}
    Values = {1}
    None = None
    Empty = Empty
    Nil = Nil
    HasStateConfig = TRUE
    MaxOps = 2
    MaxSets = 2
    Disjoint = TRUE
    Merges = FALSE
INVARIANTS FailedSetKeepsEarlierSet DeletedIsGone
