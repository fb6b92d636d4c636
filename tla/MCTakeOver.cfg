CONSTANTS
    s1 = s1
    s2 = s2
    s3 = s3
    c1 = c1
    c2 = c2
    Safekeepers = {s1, s2, s3}
    Computes = {c1, c2}
    MaxTerm = 4
    MaxLsn = 2
    MaxInFlight = 1
    MaxLate = 0
    MaxConnected = 2
    OldTerms = 1
    Budgets <- OneBreak
SPECIFICATION TakeOverSpec
INVARIANTS
    CommittedIsDurable
    CommittedIsNotTruncated
PROPERTIES
    SyncTerminates
    WrittenIsCommitted
CHECK_DEADLOCK FALSE
