CONSTANTS
    s1 = s1
    s2 = s2
    s3 = s3
    c1 = c1
    c2 = c2
    Safekeepers = {s1, s2, s3}
    Computes = {c1, c2}
    MaxTerm = 2
    MaxLsn = 2
    MaxInFlight = 1
    MaxLate = 1
    MaxConnected = 2
    Budgets <- NoFaults
SPECIFICATION Spec
SYMMETRY Symmetry
INVARIANTS
    OneElectionPerTerm
    CommittedIsDurable
    LeaderCoversCommitted
    PostgresWalIsOwn
PROPERTIES
    ImplementsCommittedLog
CHECK_DEADLOCK FALSE
