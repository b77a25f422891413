\* Two retries of one request under one key race each other, another request that reuses
\* the key, an edit of the concurrency limit and a crash.
SPECIFICATION Spec
CONSTANTS
    r1 = r1
    r2 = r2
    r3 = r3
    NoKey = NoKey
    None = None
    Runs = {r1, r2, r3}
    Retries = {r1, r2}
    Operators = {}
    Key <- SameKey
    Request <- RetriesAndOthers
    Limits = {1, 2}
    MaxCrashes = 1
SYMMETRY Symmetric
INVARIANTS
    SlotAccounting
    OneRunPerKey
    ReplyIsFinal
