SPECIFICATION TFairSpec
CONSTANTS
    CertIDs = {i1}
    Certs = {c1}
    CAs = {ca}
    None = None
    Procs = {p1, p2}
    Notifiers = {n1}
    MaxOps = 1
    BadPEM = FALSE
    SendFails = FALSE
CHECK_DEADLOCK FALSE
PROPERTY SwitchesToAuthenticated
