SPECIFICATION FairSpec
CONSTANTS
    Tasks = {t1}
    t1 = t1
    Operations = {q1, q2}
    q1 = q1
    q2 = q2
    NoOperation = NoOperation
    MaxLinks = 4
    OverlappingClicks = TRUE
    MaxEvents <- Uneventful
INVARIANTS
    SingleLink
    ValidTokenHasNoRequest
PROPERTIES
    LockoutLasts
    SignInEventually
    AskedIsServed
\* The system rests when the user asks nothing and opens nothing.
CHECK_DEADLOCK FALSE
