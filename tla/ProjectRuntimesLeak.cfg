\* A job whose task is cancelled while a request has the lock that its release waits for.
SPECIFICATION Spec
CONSTANTS
    u1 = u1
    j = j
    p1 = p1
    p2 = p2
    e1 = e1
    e2 = e2
    None = None
    Users = {u1, j}
    Jobs = {j}
    Projects = {p1, p2}
    Entries = {e1, e2}
    Maximum = 2
    MaxStops = 1
INVARIANTS
    ReferencesReturn
CHECK_DEADLOCK FALSE
