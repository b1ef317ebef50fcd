SPECIFICATION Spec
CONSTANTS
    Models <- DeviceModels
    RootSchema <- IfSchema
    SyncPathList <- CountersSync
    Requests <- SubscribeRequests
    Clients = {c1}
    Ifs = {"eth0"}
    Responders = {"eth0"}
    Loaded = {"eth1"}
    MaxVersion = 1
    MaxCalls = 1
INVARIANT GetFresh
CHECK_DEADLOCK FALSE
