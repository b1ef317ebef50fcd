SPECIFICATION Spec
CONSTANTS
    Models <- DeviceModels
    RootSchema <- IfSchema
    SyncPathList <- NestedSync
    Requests <- SubscribeRequests
    Clients = {c1}
    Ifs = {"eth0"}
    Responders = {"eth0"}
    Loaded = {"eth1"}
    MaxVersion = 1
    MaxCalls = 1
INVARIANT NoPanic
CHECK_DEADLOCK FALSE
