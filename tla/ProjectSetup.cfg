\* Four things the user starts, one candidate test, one change by another administrator.
SPECIFICATION Spec
CONSTANTS
    e1 = e1
    e2 = e2
    n1 = n1
    n2 = n2
    r1 = r1
    r2 = r2
    Forms <- ThreeForms
    Blank <- First
    Rests = {r1, r2}
    None = None
    Starts <- Projects
    MaxActs = 4
    MaxLoads = 1
    MaxTests = 1
    MaxChanges = 1
INVARIANTS
    ReceiptOfShown
PROPERTIES
    AppliedWasTested
    OthersSettingsKept
CHECK_DEADLOCK FALSE
