CONSTANTS
    sx = sx
    sy = sy
    tab = tab
    lis = lis
    v0 = v0
    v1 = v1
    s1 = s1
    s2 = s2
    g1 = g1
    NoRequest = NoRequest
    NoEntry = NoEntry
    Leaves = {sx}
    Tables = {tab, lis}
    Rows = {1}
    Values = {v0, v1}
    Default = v0
    MaxVbs = 3
    ServiceAnswers = {TRUE}
    Setters = {s1, s2}
    Getters = {g1}
    SetPdus <- LivePdus
    GetPdus <- ListenerGets
    Listeners <- OneListener
SPECIFICATION FairHSpec
INVARIANTS
    ListenersHeld
    CommitFindsEntry
    ReadersExcluded
PROPERTIES
    AllAnswered
