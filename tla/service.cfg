\* Two jobs (one unreadable) and two workers, one of them embedded.
SPECIFICATION FairSpec
CONSTANTS
    j1 = j1
    j2 = j2
    j3 = j3
    w1 = w1
    w2 = w2
    Jobs = {j1, j2}
    Workers = {w1, w2}
    Embedded = {w1}
    Unreadable = {j2}
    WorkerConcurrency = 2
    AttemptsPerJob = 2
    FaultBudget <- OneOfEach
    NoJob = NoJob
INVARIANTS
    OneHolder
    RunningIsHeldOrLost
    ClaimedInOrder
    JudgeCallsBounded
    PermitsConserved
    JudgeOpenDuringEvaluation
PROPERTIES
    ImplementsJobLifecycle
    AcceptedIsSettled
    StopCompletes
