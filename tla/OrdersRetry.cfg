SPECIFICATION Spec
CONSTANTS
    Requests = {r1, r2}
    Free = {}
    Carts = {c1, c2}
    CartOf <- OwnCarts
    Reapers = {}
    OrderStatuses <- MigratedStatuses
    InitialStock = 1
    MaxAttempts = 2
    MaxCrashes = 0
    NoOrder = none
    c1 = c1
    c2 = c2
CHECK_DEADLOCK FALSE
INVARIANTS SoldWithinStock
