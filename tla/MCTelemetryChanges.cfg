SPECIFICATION FairSpec
CONSTANTS
    Subs = {s1}
    Paths = {x}
    Values = {1, 2}
    None = None
    OnChange = {s1}
    Suppress = {}
    PrefixIsRoot = TRUE
    UpdateFails = TRUE
    SilentSets = TRUE
    EventCap = 1
    RespCap = 1
    TimerCap = 1
    MaxTx = 2
    MaxTicks = 2
    MaxReq = 2
INVARIANTS ViewConverges SyncedBeforeTelemetry
PROPERTIES TransactionEnds SessionStops ChangeDelivered HeartbeatRepairs
