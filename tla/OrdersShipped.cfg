SPECIFICATION FairSpec
CONSTANTS
    Requests = {r1, r2, r3}
    Free = {r3}
    Carts = {c1, c2}
    CartOf <- SharedCart
    Reapers = {p1}
    OrderStatuses <- MigratedStatuses
    InitialStock = 2
    MaxAttempts = 1
    MaxCrashes = 1
    NoOrder = none
    c1 = c1
    c2 = c2
CHECK_DEADLOCK FALSE
INVARIANTS SoldWithinStock
PROPERTIES NothingTwice SettlesUnlessCutOff
