SPECIFICATION Spec
CONSTANTS
    Callers = {c1, c2}
    Size = 1
    MaxTasks = 2
INVARIANTS EndedAreIdle
