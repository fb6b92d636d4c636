CONSTANTS
    n1 = n1
    n2 = n2
    o1 = o1
    o2 = o2
    Nodes = {n1, n2}
    First = n1
    MaxGen = 4
    Objects = {o1, o2}
    MaxLsn = 2
    Budgets <- OneRecord
SPECIFICATION Spec
INVARIANTS
    AdvertisedIsCovered
CHECK_DEADLOCK FALSE
