SPECIFICATION FairSpec
CONSTANTS
    Variants <- MCVariants
    InitialStock <- MCInitialStock
    LinesOf <- MCLinesOf
    Qty <- MCQty
    Orders = {o1, o2, o3}
    Sessions = {}
    Releases = {}
    Adjustments = {a1}
    Overwrites = {}
    ShortOrders = {o3}
    NoTx = nobody
INVARIANTS NoOversell LedgerExplainsStock NoLockCycle
PROPERTIES EveryTransactionEnds
