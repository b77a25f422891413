\* Two requests and a job, three projects and room for one workspace.
SPECIFICATION FairSpec
CONSTANTS
    u1 = u1
    u2 = u2
    j = j
    p1 = p1
    p2 = p2
    p3 = p3
    e1 = e1
    e2 = e2
    None = None
    Users = {u1, u2, j}
    Jobs = {j}
    Projects = {p1, p2, p3}
    Entries = {e1, e2}
    Maximum = 1
    MaxStops = 1
INVARIANTS
    LeaseHolds
    NothingForgotten
PROPERTIES
    Answered
CHECK_DEADLOCK FALSE
