\* Two workers and two control requests on one job.
SPECIFICATION FairSpec
CONSTANTS
    w1 = w1
    w2 = w2
    c1 = c1
    c2 = c2
    Null = Null
    MaxJobs = 1
    Workers = {w1, w2}
    Operators = {c1, c2}
    MaxAttempts = 2
    MaxPages = 2
PROPERTIES
    SettledOnlyRetried
    AtMostOnePageRepeated
    AttemptsSpent
    JobsSettle
    CancelEnds
CHECK_DEADLOCK FALSE
