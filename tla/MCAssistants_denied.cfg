\* Everything is answered in the end.
CHECK_DEADLOCK FALSE
SPECIFICATION Spec
CONSTANTS
    q = q
    f1 = f1
    f2 = f2
    Question = q
    FollowUps = {f1}
    PoolSize = 2
    MaxAttempts = 2
INVARIANTS
    DeniedSignsInAgain
