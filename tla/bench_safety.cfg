\* Two samples, two configurations, three sessions with two kills, one deletion, one commit.
SPECIFICATION Spec
CONSTANTS
    s1 = s1
    s2 = s2
    s3 = s3
    c1 = c1
    c2 = c2
    Samples = {s1, s2}
    Limits = {1, 2}
    Draw <- Extended
    Configs = {c1, c2}
    Budget <- Series
    NoManifest = NoManifest
    Unparsable = Unparsable
CHECK_DEADLOCK FALSE
INVARIANTS
    OneRowPerSample
    OneConfiguration
    FinishedCoversDraw
    GitShasCoverRows
PROPERTIES
    RowsAreKept
