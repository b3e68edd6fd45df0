SPECIFICATION Spec
CONSTANTS
    Month = {1, 2}
    Amount = {5, 10}
    MaxQuantity = 2
    Goal = {g}
    MaxPay = 1
    Entry = {e1, e2}
    Request = {r1, r2}
    None = None
SYMMETRY Symmetric
INVARIANTS
    TypeOK
    NothingOverbroken
    OffersBreakable
PROPERTIES
    MoveIsCovered
    KeepsBooks
