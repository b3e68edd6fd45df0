SPECIFICATION Spec
CONSTANTS
    HDFC = HDFC
    SBI = SBI
    HDFC_XX9335 = HDFC_XX9335
    SBI_XX5965 = SBI_XX5965
    m1 = m1
    m2 = m2
    w1 = w1
    w2 = w2
    None = None
    Folder <- OneFolder
    Legacy = {HDFC_XX9335}
    LegacyOf <- OneLegacy
    Msg <- TwoMsgs
    ReceivedAt <- Received
    Homes <- AnyHome
    Worker = {w1, w2}
    Retrier = {p1}
    PollLimit = 2
    Exclusive = TRUE
    MaxRebase = 0
SYMMETRY Symmetric
INVARIANTS
    TypeOK
    Accounted
    ResolvedIsStored
PROPERTY MarkMonotonic
CHECK_DEADLOCK FALSE
