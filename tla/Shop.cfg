CONSTANTS
    u1 = u1
    u2 = u2
    r1 = r1
    r2 = r2
    r3 = r3
    r4 = r4
    v1 = v1
    p1 = p1
    plan = plan
    g1 = g1
    g2 = g2
    w1 = w1
    Unset = Unset
    Calls = {r1, r2}
    Total = 2
    MaxStaff = 1
    MaxFaults = 1
    Users = {u1, u2}
    Requests = {r1, r2, r3, r4}
    UserOf <- Shoppers
    Kinds <- Carting
    Variants = {v1}
    Quantities = {1}
    MaxUses = 1
    MaxUsesPerCustomer = 1
    Sweepers = {w1}
    Plans = {plan}
    Goods = {g1, g2}
    MaxSessions = 2
    MaxEdits = 3
    MaxCarts = 2
    MaxMishaps = 1
    Hits = {r1, r2}
    HitKinds <- Visiting
    Paths = {1, 2}
    MaxClock = 2
    MaxAnswers = 1
    MaxCuts = 1
    Runs = {r1, r2}
    RunKinds <- Migrating
    Targets = {0, 24}
    MaxSwitches = 1
    MaxBreaks = 1

SPECIFICATION PackSpec
CHECK_DEADLOCK FALSE

INVARIANTS
    CartsAreAsAsked
    PaidIsOrdered
    SecondRefundIsCounted
    BooksCoverRefunds
    AgreesWithStripe
    DuplicatesAreCounted
    VisitsAddUp
    ContentIsAsSaved
    SchemaIsAsRecorded
PROPERTIES
    NoStepOversteps
