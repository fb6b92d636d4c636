CONSTANTS
    p1 = p1
    p2 = p2
    p3 = p3
    Nodes = {p1, p2, p3}
    First = p1
    Second = {p2}
    Secondaries = 1
    Budgets <- Scenarios
SPECIFICATION FairSpec
INVARIANTS
    TypeOK
    WritersAreExclusive
    CleanIsSettled
PROPERTIES
    GenerationsAreGivenOnce
    ComputeKeepsItsPageserver
    Converges
CHECK_DEADLOCK FALSE
