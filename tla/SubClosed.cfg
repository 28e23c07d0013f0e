SPECIFICATION Spec
CONSTANTS
    s1 = s1
    s2 = s2
    g1 = g1
    g2 = g2
    e1 = e1
    e2 = e2
    Sets = {s1, s2}
    Gets = {g1}
    Entries = {e1, e2}
    Named <- Tables
    Region <- Rows
    Size = 2
    Late <- AllPdus
    Refusals <- AllPdus
    Abandoned = {s1, s2}
    Expiring = {}
    CloseWhen = "between"
    Nobody = Nobody
INVARIANTS NoStaleUse
CHECK_DEADLOCK FALSE
