SPECIFICATION Spec
CONSTANTS
    Tasks = {t1, t2}
    t1 = t1
    t2 = t2
    Operations = {q1, q2}
    q1 = q1
    q2 = q2
    NoOperation = NoOperation
    MaxLinks = 3
    OverlappingClicks = FALSE
    MaxEvents <- Everything
INVARIANTS
    TypeOK
    RecordedLinkVisible
    PendingPaired
    ServedOncePerSignIn
PROPERTIES
    ConsumedLinkNeverReaccepted
    KeepsAccess
SYMMETRY Symmetric
\* The system rests when the user asks nothing and opens nothing.
CHECK_DEADLOCK FALSE
