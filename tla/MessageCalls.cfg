SPECIFICATION Spec
CONSTANTS
    c1 = c1
    a1 = a1
    Callers = {c1}
    Askers = {a1}
    V3 = {}
    Cancelled = {a1}
    Failing <- SomeFail
    Retries = 1
    Copies = 1
    Id <- OwnId
    Poller = Poller
    None = None
INVARIANTS TypeOK CallbackOnce
PROPERTIES AnswerBeatsTimeout ImplementsExchange
