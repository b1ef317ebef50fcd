SPECIFICATION Spec
CONSTANTS
    Subs = {s1}
    Paths = {x}
    Values = {1}
    None = None
    OnChange = {s1}
    Suppress = {}
    PrefixIsRoot = FALSE
    UpdateFails = FALSE
    SilentSets = FALSE
    EventCap = 2
    RespCap = 2
    TimerCap = 1
    MaxTx = 2
    MaxTicks = 0
    MaxReq = 1
INVARIANT DeletedLeavesView
