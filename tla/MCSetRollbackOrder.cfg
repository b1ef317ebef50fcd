SPECIFICATION Spec
CONSTANTS
    c = c
    d = d
    s = s
    x = x
    y = y
    z = z
    r = r
    Leaves = {x, y, z, r}
    Dirs = {c, d, s}
    DirOf <- MCDirOf
    KeyLeaves = {}
    ReadOnly = {r, s}
    Values = {1, 2}
    None = None
    Empty = Empty
    Nil = Nil
    HasStateConfig = FALSE
    MaxOps = 2
    MaxSets = 1
    Disjoint = FALSE
    Merges = FALSE
INVARIANT RollbackRestoresTree
