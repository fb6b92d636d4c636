CONSTANTS
    n1 = n1
    n2 = n2
    o1 = o1
    o2 = o2
    Nodes = {n1, n2}
    First = n1
    MaxGen = 4
    Objects = {o1, o2}
    MaxLsn = 2
    Budgets <- AllKinds
SPECIFICATION Spec
SYMMETRY Symmetry
INVARIANTS
    TypeOK
    ReferencedIsThere
    HeaderIsSafe
    ConfirmedIsCovered
PROPERTIES
    RestartIsFresh
CHECK_DEADLOCK FALSE
