\* Two loads of the page in flight, and nobody else at work.
SPECIFICATION Spec
CONSTANTS
    e1 = e1
    e2 = e2
    n1 = n1
    n2 = n2
    r1 = r1
    r2 = r2
    Forms <- ThreeForms
    Blank <- First
    Rests = {r1, r2}
    None = None
    Starts <- Projects
    MaxActs = 3
    MaxLoads = 2
    MaxTests = 1
    MaxChanges = 0
INVARIANT
    UnsavedIsDirty
CHECK_DEADLOCK FALSE
