\* Two tickets, two filters, two questions, two handlers of the analyst and one step of another.
SPECIFICATION Spec
CONSTANTS
    t1 = t1
    t2 = t2
    q1 = q1
    q2 = q2
    None = None
    Finding = Finding
    Triage = Triage
    app = app
    Tickets = {t1, t2}
    Queries = {q1, q2}
    Teams = {app}
    Filters <- Buckets
    First <- Start
    MaxActs = 2
    MaxOthers = 1
SYMMETRY Symmetry
INVARIANTS
    ToolOfWorkspace
    ResultOfQuery
PROPERTIES
    SelectionKept
CHECK_DEADLOCK FALSE
