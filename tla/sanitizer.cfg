\* Batches of a text of three tokens and one of at most one.
SPECIFICATION Spec
CONSTANTS
    x = x
    A = A
    B = B
    m1 = m1
    m2 = m2
    m3 = m3
    Markers = {m1, m2, m3}
    Templates <- Labellings
    Words = {x}
    EntityTypes = {A, B}
    Batches <- SmallBatches
    Findings <- SmallFindings
CHECK_DEADLOCK FALSE
INVARIANTS
    NothingFoundSurvives
    PlaceholdersAreUnambiguous
    RestoreInverts
    TableIsRight
    MissesAreExposed
