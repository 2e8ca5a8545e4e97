\* One session, killed once.
SPECIFICATION Spec
CONSTANTS
    s1 = s1
    s2 = s2
    s3 = s3
    c1 = c1
    c2 = c2
    Samples = {s1, s2}
    Limits = {1, 2}
    Draw <- Extended
    Configs = {c1, c2}
    Budget <- OneKill
    NoManifest = NoManifest
    Unparsable = Unparsable
CHECK_DEADLOCK FALSE
INVARIANT
    InterruptedRunContinues
