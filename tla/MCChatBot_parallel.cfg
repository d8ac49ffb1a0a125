\* Nothing has to happen next: users may stay silent.
CHECK_DEADLOCK FALSE
SPECIFICATION Spec
CONSTANTS
    w1 = w1
    w2 = w2
    t1 = t1
    q1 = q1
    q2 = q2
    q3 = q3
    f1 = f1
    f2 = f2
    c1 = c1
    NoMessage = NoMessage
    Workers = {w1, w2}
    WebThreads = {t1}
    Processes <- TwoWorkersAndWeb
    Questions = {q1, q2, q3}
    FollowUps = {f1}
    Clicks = {c1}
    Thread <- InFirstThread
    Skipped = {q3}
    InChannel = {}
    MaxDeliveries <- FirstTwice
    MaxEvents <- OneOfEach
    MaxKinds = 2
    MaxRows = 2
INVARIANTS
    TypeOK
    PostedAnswerStored
    MarkedIsPosted
    HistoryHasAnswer
    ScoredIsMarked
SYMMETRY WorkersAlike
