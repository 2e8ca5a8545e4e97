\* One rows file over five samples, any scores.
SPECIFICATION Spec
CONSTANTS
    t1 = t1
    t2 = t2
    official = official
    other = other
    slm = slm
    cloud = cloud
    m1 = m1
    m2 = m2
    d1 = d1
    d2 = d2
    c1 = c1
    c2 = c2
    Tasks = {t1, t2}
    Splits = {official, other}
    NoSplit = NoSplit
    NoLimit = NoLimit
    Populations <- Drawable
    Requests <- ManyRequests
    Benchmarks <- FiveBenchmark
    Judges = {slm, cloud}
    Models = {m1, m2}
    Datasets = {d1, d2}
    Confs = {c1, c2}
    Scores = {0, 2, 4}
    Thresholds = {0, 1, 2, 3, 4}
    FileSeqs <- OneFile
    Folds <- SomeFolds
    Shape <- Shapes
    Missing = Missing
CHECK_DEADLOCK FALSE
INVARIANT
    ErrorsAddUp
