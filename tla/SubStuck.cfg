SPECIFICATION FairSpec
CONSTANTS
    s1 = s1
    s2 = s2
    g1 = g1
    g2 = g2
    e1 = e1
    e2 = e2
    Sets = {s1, s2}
    Gets = {g1}
    Entries = {e1, e2}
    Named <- Leaves
    Region <- Objects
    Size = 4
    Late <- LateTests
    Refusals = {}
    Abandoned = {}
    Expiring = {}
    CloseWhen = "never"
    Nobody = Nobody
PROPERTIES EntriesComeFree
CHECK_DEADLOCK FALSE
