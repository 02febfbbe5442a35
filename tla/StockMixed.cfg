SPECIFICATION FairSpec
CONSTANTS
    Variants <- MCVariants
    InitialStock <- MCInitialStock
    LinesOf <- MCLinesOf
    Qty <- MCQty
    Orders = {o1, o2}
    Sessions = {s1}
    Releases = {r1}
    Adjustments = {}
    Overwrites = {w1}
    ShortOrders = {}
    NoTx = nobody
PROPERTIES ImplementsLedger
