SPECIFICATION Spec
CONSTANTS
    sa = sa
    sb = sb
    ix = ix
    iy = iy
    NoSession = NoSession
    NoPdu = NoPdu
    Sessions = {sa, sb}
    Indexes = {ix, iy}
    MaxValue = 3
    MaxPdus = 5
    Closings = {}
    Pdus <- MixedPdus
INVARIANTS AnyIsFree
