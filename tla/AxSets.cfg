SPECIFICATION Spec
CONSTANTS
    r1 = r1
    r2 = r2
    r3 = r3
    n1 = n1
    n2 = n2
    s1 = s1
    s2 = s2
    NoOne = NoOne
    Requests = {r1, r2, r3}
    Nodes = {n1, n2}
    Sessions = {s1, s2}
    SessionOf <- MCSessionOf
    Names <- ThreeNames
    Refusing <- AloneRefused
    Denied = {r1}
    Slow = {}
    Leaving = {}
    MaxTimeouts = 3
PROPERTIES ImplementsAgreement AllAnswered
