SPECIFICATION FairSpec
CONSTANTS
    sa = sa
    sb = sb
    ix = ix
    iy = iy
    NoSession = NoSession
    NoPdu = NoPdu
    Sessions = {sa, sb}
    Indexes = {ix, iy}
    MaxValue = 2
    MaxPdus = 4
    Closings = {"closePdu", "lost", "timeout"}
    Pdus <- ApartPdus
INVARIANTS TypeOK ClaimsOwned FreshUnlessClosed UsedAreFree NoOrphans
PROPERTIES NoTheft ClosedSessionsLoseIndexes
