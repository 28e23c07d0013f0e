SPECIFICATION FairSpec
CONSTANTS
    Callers = {c1, c2}
    Size = 2
    MaxTasks = 3
INVARIANTS TypeOK InOnePlace
PROPERTIES ImplementsBag TasksRun PoolGoes
