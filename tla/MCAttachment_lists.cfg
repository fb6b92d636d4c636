CONSTANTS
    n1 = n1
    n2 = n2
    o1 = o1
    o2 = o2
    Nodes = {n1, n2}
    First = n1
    MaxGen = 3
    Objects = {o1}
    MaxLsn = 0
    Budgets <- Consumed
SPECIFICATION FairSpec
PROPERTIES
    ListsAreConsumed
CHECK_DEADLOCK FALSE
