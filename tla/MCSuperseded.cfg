CONSTANTS
    s1 = s1
    s2 = s2
    s3 = s3
    s4 = s4
    s5 = s5
    c1 = c1
    c2 = c2
    c3 = c3
    Safekeepers = {s1, s2, s3, s4, s5}
    Computes = {c1, c2, c3}
    MaxTerm = 3
    MaxLsn = 3
    MaxInFlight = 1
    MaxLate = 0
    MaxConnected = 4
    Budgets <- OneInfo
SPECIFICATION SupersededSpec
INVARIANTS
    CommittedIsNotTruncated
CHECK_DEADLOCK FALSE
