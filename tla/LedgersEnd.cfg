SPECIFICATION FairSpec
CONSTANTS
    Month = {1}
    Amount = {5}
    MaxQuantity = 1
    Goal = {g}
    MaxPay = 1
    Entry = {e1}
    Request = {r1, r2}
    None = None
PROPERTIES
    Ends
