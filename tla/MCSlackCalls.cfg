SPECIFICATION Spec
CONSTANTS
    m1 = m1
    m2 = m2
    c1 = c1
    im = im
    Callers = {p1, p2}
    Threads = {p1, p2}
    p1 = p1
    p2 = p2
    Second = 2
    Recovery = 1
    InitialPause = 2
    ExpBase = 15
    MaxAttempts = 3
    Messages = {m1, m2}
    Conversation <- Destinations
    Conversations = {c1, im}
    Ims = {im}
    MaxEvents <- OneLeave
INVARIANTS
    TypeOK
    PauseIsShared
    OutcomeIsTold
    LostToFirstInsertOnly
    SettledAgrees
SYMMETRY Alike
\* Nobody has to post, or to use the admin interface.
CHECK_DEADLOCK FALSE
