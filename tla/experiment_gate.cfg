\* One plan under two settings, two days, no fault.
SPECIFICATION Spec
CONSTANTS
    a = a
    b = b
    c1 = c1
    c2 = c2
    Tags = {a, b}
    Cloud = Cloud
    External = External
    Configs = {c1, c2}
    Plans <- TwoSettings
    F1Values = {0, 1, 2}
    MaxDays = 2
    Faults = 0
    None = None
CHECK_DEADLOCK FALSE
INVARIANT
    PreflightForetells
