SPECIFICATION Spec
CONSTANTS
    Models <- DeviceModels
    RootSchema <- IfSchema
    SyncPathList <- CountersSync
    Requests <- PlainRequests
    Clients = {c1, c2}
    Ifs = {"eth0"}
    Responders = {"eth0"}
    Loaded = {"eth1"}
    MaxVersion = 1
    MaxCalls = 1
SYMMETRY Symmetry
INVARIANTS
    SyncRegistered
    GetFresh
PROPERTY
    AnswerIsExact
CHECK_DEADLOCK FALSE
