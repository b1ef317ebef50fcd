SPECIFICATION FairSpec
CONSTANTS
    Subs = {s1}
    Paths = {x}
    Values = {1}
    None = None
    OnChange = {s1}
    Suppress = {}
    PrefixIsRoot = TRUE
    UpdateFails = FALSE
    SilentSets = FALSE
    EventCap = 1
    RespCap = 1
    TimerCap = 1
    MaxTx = 3
    MaxTicks = 0
    MaxReq = 1
CHECK_DEADLOCK FALSE
PROPERTY UpdateEndReturns
