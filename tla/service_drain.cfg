\* One standalone worker, stopped once: no crash, no database error.
SPECIFICATION Spec
CONSTANTS
    j1 = j1
    j2 = j2
    j3 = j3
    w1 = w1
    w2 = w2
    Jobs = {j1, j2}
    Workers = {w1}
    Embedded = {}
    Unreadable = {}
    WorkerConcurrency = 2
    AttemptsPerJob = 2
    FaultBudget <- OneStop
    NoJob = NoJob
INVARIANT
    StopDrains
