SPECIFICATION SpuriousSpec
CONSTANTS
    Setters = {s1, s2}
    Getters = {g1}
    Targets = {t1, t2}
    Queue = Queue
    NoOne = NoOne
INVARIANTS Exclusive

