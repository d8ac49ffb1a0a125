\* Once the events are used up and no space is left, nothing is to be done.
CHECK_DEADLOCK FALSE
SPECIFICATION Spec
CONSTANTS
    s1 = s1
    s2 = s2
    p1 = p1
    p2 = p2
    j1 = j1
    j2 = j2
    Spaces = {s1}
    Pages = {p1, p2}
    Home <- FirstSpace
    StatsPage = p1
    Order <- ByName
    Limit = 1
    Jobs = {j1}
    Overlap = 2
    Skew = 2
    EmptyUpsertFails = FALSE
    MaxClock = 3
    MaxEvents <- Once
    MaxKinds = 5
INVARIANTS
    TypeOK
    EmbeddingsHaveRecords
    StaleIsInWindow
