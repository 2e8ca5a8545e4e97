\* Four ways to start the campaign, two days, two faults.
SPECIFICATION Spec
CONSTANTS
    a = a
    b = b
    c1 = c1
    c2 = c2
    Tags = {a, b}
    Cloud = Cloud
    External = External
    Configs = {c1, c2}
    Plans <- FourPlans
    F1Values = {0, 1, 2}
    MaxDays = 2
    Faults = 2
    None = None
CHECK_DEADLOCK FALSE
INVARIANTS
    
    AblationIsOnTheBest
    ArchiveIsOfOneDay
    StackIsTakenDown
