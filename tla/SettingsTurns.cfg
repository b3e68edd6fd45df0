SPECIFICATION AccountSpec
CONSTANTS
    Asset = {MF}
    Month = {m1}
    MaxRupees = 2
    Sale = {s1, s2}
    Token = {t1}
    Request = {r1, r2}
    Exclusive = TRUE
    None = None
    g1 = g1
    g2 = g2
    e1 = e1
    e2 = e2
    u1 = u1
    Home = home
    Tenant = home
    Sub = {g1, g2}
    Email = {e1, e2}
    Profiles <- Reported
    User = {u1, u2}
    Seeded <- FromTheStart
    MaxSessions = 3
    MaxCalls = 4
    Caller = {r1, r2}
    Pad = {s1, s2}
    Sheet = {t1, t2}
    Client = {r1, r2}
    Clock = {8, 9, 14, 15}
    Amount = {1, 2}
    Author = {r1, r2}
SYMMETRY Symmetric
INVARIANTS
    TypeOK
    SalesCovered
    AccountTypes
    StableLookups
    StaysSignedIn
    OneSession
    SheetsDistinct
PROPERTIES
    TokenNeverErased
    DeductionsAddUp
    LockedKept
