SPECIFICATION Spec
CONSTANTS
    c1 = c1
    a1 = a1
    Callers = {}
    Askers = {a1}
    V3 = {a1}
    Cancelled = {}
    Failing <- FirstFail
    Retries = 0
    Copies = 1
    Id <- OwnId
    Poller = Poller
    None = None
INVARIANTS FreedOnce
