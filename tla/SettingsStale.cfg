SPECIFICATION Spec
CONSTANTS
    Asset = {MF}
    Month = {m1}
    MaxRupees = 2
    Sale = {s1, s2}
    Token = {t1, t2}
    Request = {r1, r2}
    Exclusive = FALSE
    None = None
SYMMETRY Symmetric
INVARIANTS
    SalesCovered
