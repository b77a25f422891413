\* Two parallel tool calls, one item of evidence, a database whose errors may come after the
\* commit, and a stream that is promised the end.
SPECIFICATION FairSpec
CONSTANTS
    a = a
    b = b
    None = None
    Calls = {a, b}
    ToolLimit = 2
    MaxEvidence = 1
    MaxEvents = 2
INVARIANTS
    EvidenceFirst
    TraceClosed
    OneEndEach
    NoGaps
PROPERTIES
    StreamEnds
CHECK_DEADLOCK FALSE
