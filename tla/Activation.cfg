\* Three evaluations and two administrators while the process is restarted, also with other files.
SPECIFICATION Spec
CONSTANTS
    r1 = r1
    r2 = r2
    r3 = r3
    v1 = v1
    v2 = v2
    p = p
    q = q
    a = a
    b = b
    None = None
    Revisions = {r1, r2, r3}
    Reviews = {v1, v2}
    Platforms = {p, q}
    Agents = {a, b}
    MaxProcesses = 1
SYMMETRY Symmetric
INVARIANTS
    ActiveApproved
    Restorable
PROPERTIES
    DecisionsStand
    HistorySpec
