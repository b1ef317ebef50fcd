SPECIFICATION PSpec
CONSTANTS
    CertIDs = {i1}
    Certs = {c1, c2}
    CAs = {}
    None = None
    Procs = {p1, p2}
    Notifiers = {n1}
    MaxOps = 3
    MaxDrops = 1
    BadPEM = FALSE
    SendFails = TRUE
INVARIANT RotateOkIsAccepted
