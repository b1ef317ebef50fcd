SPECIFICATION TSpec
CONSTANTS
    CertIDs = {i1, i2}
    Certs = {c1}
    CAs = {ca}
    None = None
    Procs = {p1, p2}
    Notifiers = {n1, n2}
    MaxOps = 3
    BadPEM = TRUE
    SendFails = TRUE
CHECK_DEADLOCK FALSE
INVARIANTS ModeMatchesCredentials NothingOnOldServers
