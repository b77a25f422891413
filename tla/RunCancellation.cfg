\* Two cancellations of one run race its task, its deadline and a crash; under the
\* fairness of the event loop, the clock and the polling clients everything ends.
SPECIFICATION FairSpec
CONSTANTS
    r1 = r1
    c1 = c1
    c2 = c2
    NoKey = NoKey
    None = None
    Runs = {r1}
    Retries = {r1}
    Operators = {c1, c2}
    Key <- WithoutKey
    Request <- RetriesAndOthers
    Limits = {1}
    MaxCrashes = 1
INVARIANTS
    ResultIffCompleted
    CancelReplyIsFinal
    CancelledStops
PROPERTIES
    RecordSpec
    RunsEnd
    SlotsReturn
