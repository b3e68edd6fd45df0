SPECIFICATION FairSpec
CONSTANTS
    TXN = TXN
    DETAILED = DETAILED
    STATEMENTS = STATEMENTS
    r1 = r1
    r2 = r2
    r3 = r3
    Job <- MCJob
    Ttl <- MCTtl
    Run = {r1, r2, r3}
    Requests <- EachJob
    MaxClock = 1
PROPERTY RunSettles
CHECK_DEADLOCK FALSE
