CONSTANTS
    s1 = s1
    s2 = s2
    s3 = s3
    c1 = c1
    c2 = c2
    Safekeepers = {s1, s2, s3}
    Computes = {c1, c2}
    MaxTerm = 2
    MaxLsn = 2
    MaxInFlight = 1
    MaxLate = 0
    MaxConnected = 2
    Budgets <- OneCrash
SPECIFICATION HandOverSpec
SYMMETRY SafekeeperSymmetry
INVARIANTS
    CommittedIsDurable
    ServedIsCommitted
    TruncationIsExact
    ElectedAssertionsHold
    CommittedIsNotTruncated
    BasebackupIsCommitted
    HorizonIsEverywhere
    CommonPointIsHighest
    BothSidesAgree
PROPERTIES
    ImplementsCommittedLog
CHECK_DEADLOCK FALSE
