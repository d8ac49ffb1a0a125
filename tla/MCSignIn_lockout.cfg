SPECIFICATION Spec
CONSTANTS
    Tasks = {t1}
    t1 = t1
    Operations = {q1, q2}
    q1 = q1
    q2 = q2
    NoOperation = NoOperation
    MaxLinks = 3
    OverlappingClicks = TRUE
    MaxEvents <- FailedRefresh
INVARIANTS
    UpdateTokensAssertion
SYMMETRY Symmetric
\* The system rests when the user asks nothing and opens nothing.
CHECK_DEADLOCK FALSE
