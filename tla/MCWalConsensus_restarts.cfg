CONSTANTS
    s1 = s1
    s2 = s2
    s3 = s3
    c1 = c1
    c2 = c2
    Safekeepers = {s1, s2, s3}
    Computes = {c1}
    MaxTerm = 3
    MaxLsn = 2
    MaxInFlight = 2
    MaxLate = 0
    MaxConnected = 2
    Budgets <- Restarts
SPECIFICATION Spec
SYMMETRY SafekeeperSymmetry
INVARIANTS
    TypeOK
    CommittedIsDurable
    ServedIsCommitted
    HorizonIsEverywhere
CHECK_DEADLOCK FALSE
