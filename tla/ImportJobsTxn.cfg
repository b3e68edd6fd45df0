SPECIFICATION Spec
CONSTANTS
    TXN = TXN
    DETAILED = DETAILED
    STATEMENTS = STATEMENTS
    r1 = r1
    r2 = r2
    r3 = r3
    Job <- MCJob
    Ttl <- MCTtl
    Run = {r1, r2, r3}
    Requests <- AnyJob
    MaxClock = 3
SYMMETRY Symmetric
INVARIANTS
    TypeOK
    LeaseExclusive
    OverlapNeedsOverrun
    NoOrphanTxnLock
PROPERTY ImplementsLease
CHECK_DEADLOCK FALSE
