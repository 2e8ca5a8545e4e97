\* Both metrics, up to three claims in batches of two, up to three runs.
SPECIFICATION FairSpec
CONSTANTS
    a = a
    b = b
    c = c
    Texts = {a, b, c}
    BatchSize = 2
    Extractions <- SmallExtractions
    Selections <- BothMetrics
    QuestionCount = 3
    NoClaim = NoClaim
    MaxRetries = 2
    MaxAttempts = 2
CHECK_DEADLOCK FALSE
INVARIANTS
    CostIsBounded
    RunsLineUp
    VerdictsArePlural
    ScoreIsAShare
PROPERTIES
    EveryStepCounts
    EvaluationEnds
