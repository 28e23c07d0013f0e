CONSTANTS
    sx = sx
    sy = sy
    tab = tab
    lis = lis
    v0 = v0
    v1 = v1
    s1 = s1
    s2 = s2
    g1 = g1
    NoRequest = NoRequest
    NoEntry = NoEntry
    Leaves = {sx, sy}
    Tables = {tab}
    Rows = {1}
    Values = {v0, v1}
    Default = v0
    MaxVbs = 3
    ServiceAnswers = {TRUE}
    Setters = {s1}
    Getters = {}
    SetPdus <- RepeatPdus
    GetPdus <- PlainGets
    Listeners <- NoListeners
SPECIFICATION FairHSpec
PROPERTIES
    ChangedOnlyBySuccess
