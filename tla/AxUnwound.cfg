SPECIFICATION Spec
CONSTANTS
    r1 = r1
    r2 = r2
    r3 = r3
    n1 = n1
    n2 = n2
    s1 = s1
    s2 = s2
    NoOne = NoOne
    Requests = {r1, r2}
    Nodes = {n1, n2}
    Sessions = {s1, s2}
    SessionOf <- MCSessionOf
    Names <- TwoNames
    Refusing = {}
    Denied = {}
    Slow = {s1}
    Leaving = {}
    MaxTimeouts = 3
INVARIANT Unwound
CHECK_DEADLOCK FALSE
