SPECIFICATION Spec
CONSTANTS
    c1 = c1  c2 = c2  p1 = p1  p2 = p2  i1 = i1  i2 = i2
    CertIDs = {i1, i2}
    Certs = {c1, c2}
    CAs = {ca}
    None = None
    Procs = {p1, p2}
    Notifiers = {n1, n2}
    MaxOps = 4
    BadPEM = TRUE
    SendFails = TRUE
SYMMETRY MCSymmetry
INVARIANTS
    NotifierCountsCurrent NotifiedWhenQuiet
    OneOperationPerCert CommittedWhenUnlocked BundleSettled
PROPERTY ImplementsStore
