SPECIFICATION Spec
CONSTANTS
    sa = sa
    sb = sb
    ix = ix
    iy = iy
    NoSession = NoSession
    NoPdu = NoPdu
    Sessions = {sa, sb}
    Indexes = {ix, iy}
    MaxValue = 2
    MaxPdus = 2
    Closings = {"closePdu", "lost", "admin", "timeout"}
    Pdus <- ExplicitPdus
INVARIANTS NoOrphans
