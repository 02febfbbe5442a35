CONSTANTS
    r1 = r1
    r2 = r2
    r3 = r3
    r4 = r4
    r5 = r5
    c1 = c1
    c2 = c2
    c3 = c3
    w1 = w1
    w2 = w2
    s1 = s1
    s2 = s2
    g1 = g1
    g2 = g2
    p1 = p1
    p2 = p2
    t1 = t1
    t2 = t2
    m1 = m1
    m2 = m2
    None = None
    Calls = {c1, c2, c3}
    MaxRequests = 2
    MaxFaults = 2
    Drafts <- Drawn
    Extra <- AddedLater
    MaxDepth = 3
    Requests = {r1}
    Workers = {w1, w2}
    MaxEnrolled = 2
    MaxMishaps = 1

SPECIFICATION PackSpec
CHECK_DEADLOCK FALSE

INVARIANTS
    UsersAreThemselves
    RightsAreKept
    WalksTheFlow
    FlowsAreFed
    AudiencesAreAsAsked
    MessagesAreAsWritten
PROPERTIES
    NobodyIsLeftBehind
