SPECIFICATION Spec
CONSTANTS
    c1 = c1  c2 = c2  c3 = c3
    Conns = {c1, c2, c3}
    Addrs = {a1, a2}
    None = None
    MaxCloses = 2
    ReusedAddrs = {a1}
SYMMETRY MCSymmetry
INVARIANT SessionWhileInUse
