SPECIFICATION FairSpec
CONSTANTS
    Requests = {r1, r2}
    Free = {}
    Carts = {c1, c2}
    CartOf <- OwnCarts
    Reapers = {p1}
    OrderStatuses <- RepairedStatuses
    InitialStock = 1
    MaxAttempts = 2
    MaxCrashes = 1
    NoOrder = none
    c1 = c1
    c2 = c2
CHECK_DEADLOCK FALSE
INVARIANTS CompletedWasPaid RejectedReturnedStock
PROPERTIES StaleOrderExpires
