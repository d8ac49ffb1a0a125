\* Nothing has to happen next: users may stay silent.
CHECK_DEADLOCK FALSE
SPECIFICATION FairSpec
CONSTANTS
    w1 = w1
    w2 = w2
    t1 = t1
    q1 = q1
    q2 = q2
    q3 = q3
    f1 = f1
    f2 = f2
    c1 = c1
    NoMessage = NoMessage
    Workers = {w1}
    WebThreads = {}
    Processes <- OneWorker
    Questions = {q1, q2}
    FollowUps = {f1, f2}
    Clicks = {c1}
    Thread <- InFirstThread
    Skipped = {}
    InChannel = {q2}
    MaxDeliveries <- FirstTwice
    MaxEvents <- NobodySignsIn
    MaxKinds = 2
    MaxRows = 1
INVARIANTS
    HistoryComplete
    FollowUpAnsweredOnce
    KnownCoversRows
PROPERTIES
    RoutedIsAnswered
    KeepsPromise
