SPECIFICATION TSpec
CONSTANTS
    CertIDs = {i1}
    Certs = {c1}
    CAs = {ca}
    None = None
    Procs = {p1, p2}
    Notifiers = {n1, n2}
    MaxOps = 3
    BadPEM = FALSE
    SendFails = FALSE
CHECK_DEADLOCK FALSE
INVARIANT RightModeWhenQuiet
