CONSTANTS
    p1 = p1
    p2 = p2
    p3 = p3
    Nodes = {p1, p2, p3}
    First = p1
    Second = {p2}
    Secondaries = 1
    Budgets <- ThereAndBack
SPECIFICATION Spec
INVARIANTS
    UnnotifiedIsRemembered
CHECK_DEADLOCK FALSE
