SPECIFICATION FairSpec
CONSTANTS
    s1 = s1
    s2 = s2
    g1 = g1
    g2 = g2
    e1 = e1
    e2 = e2
    Sets = {s1, s2}
    Gets = {g1}
    Entries = {e1, e2}
    Named <- Tables
    Region <- Rows
    Size = 2
    Late <- LatePhases
    Refusals <- AllPdus
    Abandoned = {s1, s2}
    Expiring = {s2}
    CloseWhen = "orderly"
    Nobody = Nobody
INVARIANTS LocksHaveOwner NoStaleUse UndoneUnseen
PROPERTIES EntriesComeFree
CHECK_DEADLOCK FALSE
