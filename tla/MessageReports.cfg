SPECIFICATION FairSpec
CONSTANTS
    c1 = c1
    a1 = a1
    Callers = {c1}
    Askers = {a1}
    V3 = {a1, c1}
    Cancelled = {}
    Failing <- SomeFail
    Retries = 0
    Copies = 1
    Id <- OwnId
    Poller = Poller
    None = None
INVARIANTS FreedOnce
PROPERTIES RequestsEnd
