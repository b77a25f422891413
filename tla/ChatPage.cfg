\* A first visit and a conversation of two turns: two submissions, one run another client may have
\* started, one stop, polls and earlier turns.
SPECIFICATION FairSpec
CONSTANTS
    c1 = c1
    c2 = c2
    q1 = q1
    None = None
    Conversations = {c1, c2}
    Questions = {q1}
    Histories <- Visits
    PageSize = 1
    MaxRuns = 3
    MaxRevision = 1
    MaxSends = 2
    MaxStops = 1
INVARIANTS
    TypeOK
    ActiveRunsOfConversation
    AttemptOfConversation
PROPERTIES
    EarlierTurnsAdjoin
    RevisionsGrow
    ShownSettles
CHECK_DEADLOCK FALSE
