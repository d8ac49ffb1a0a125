\* Once the events are used up and no space is left, nothing is to be done.
CHECK_DEADLOCK FALSE
SPECIFICATION FairSpec
CONSTANTS
    s1 = s1
    s2 = s2
    p1 = p1
    p2 = p2
    j1 = j1
    j2 = j2
    Spaces = {s1, s2}
    Pages = {p1, p2}
    Home <- OwnSpaces
    StatsPage = p1
    Order <- ByName
    Limit = 2
    Jobs = {j1}
    Overlap = 1
    Skew = 0
    EmptyUpsertFails = TRUE
    MaxClock = 2
    MaxEvents <- BothSpaces
    MaxKinds = 4
PROPERTIES
    Converges
