SPECIFICATION Spec
CONSTANTS
    Subs = {s1, s2}
    Paths = {x}
    Values = {1}
    None = None
    OnChange = {s1}
    Suppress = {s2}
    PrefixIsRoot = TRUE
    UpdateFails = FALSE
    SilentSets = FALSE
    EventCap = 2
    RespCap = 1
    TimerCap = 1
    MaxTx = 2
    MaxTicks = 1
    MaxReq = 1
INVARIANTS ViewConverges
