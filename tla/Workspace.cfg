\* Two accounts of which one owns its projects, two acts of the user, one change by an administrator.
SPECIFICATION Spec
CONSTANTS
    a1 = a1
    a2 = a2
    p1 = p1
    p2 = p2
    None = None
    Accounts = {a1, a2}
    Projects = {p1, p2}
    Membership <- Memberships
    Owners = {a1}
    Starts <- Browsers
    MaxActs = 2
    MaxChanges = 1
INVARIANTS
    ShownOfProject
    QuietIsConsistent
CHECK_DEADLOCK FALSE
