SPECIFICATION WalletSpec
CONSTANTS
    HDFC = HDFC
    SBI = SBI
    AXIS = AXIS
    b1 = b1
    b2 = b2
    b3 = b3
    pw = pw
    i1 = i1
    i2 = i2
    e1 = e1
    e2 = e2
    None = None
    LastMonth = 2
    FirstDay <- Days
    MaxDom = 5
    DefaultDom = 2
    Card = {HDFC, SBI, AXIS}
    CycleDay <- Cycles
    Held = {HDFC, SBI}
    Source <- Sources
    CardOf <- Own
    Alike <- Nobody
    Flow <- Flows
    Explicit <- Passwords
    Fallback = None
    Guess <- Guesses
    Bill = {b1, b2, b3}
    BillOf <- Labels
    ReceivedOn <- Received
    DueOn <- DueDates
    Attached = {b1, b2, b3}
    LockedWith <- Locks
    Txn = {1, 2, 3}
    Amount = {1, 3}
    Importer = {i1, i2}
    Selections <- Asked
    Clerk = {k1}
    MaxAttempts = 2
    Earlier <- Undated
    TypedDays = {1, 4, 5}
    Editor = {e1, e2}
    Reader = {r1}
    PageSize = 1
    MaxMonths = 2
    Viewer = {v1}
    Lookback = 1
    Requests <- Orders
    Syncer = {y1}
    Script = {x1}
    Reach = 1
    Overlap = 2
    Mixes <- OneScan
    Starts = {4}
    MaxNights = 1
SYMMETRY Symmetric
INVARIANTS
    NothingSkipped
CHECK_DEADLOCK FALSE
