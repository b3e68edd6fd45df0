SPECIFICATION Spec
CONSTANTS
    TXN = TXN
    DETAILED = DETAILED
    STATEMENTS = STATEMENTS
    r1 = r1
    r2 = r2
    r3 = r3
    Job <- MCJob
    Ttl <- MCTtl
    Run = {r1, r2, r3}
    Requests <- OnlyTxn
    MaxClock = 1
INVARIANT BannerShowsLastOutcome
CHECK_DEADLOCK FALSE
