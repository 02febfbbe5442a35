SPECIFICATION ReceptionSpec
CONSTANTS
    Emails = {m1, m2}
    Users = {u1}
    UserOf <- MCUserOf
    TypeOf <- MCTypeOf
    Forced = {}
    Workers = {w1, w2}
    MaxAttempts = 1
    EventStatuses <- MigratedEventStatuses
    Providers = {"brevo", "sendgrid"}
    MaxReports = 2
    MaxFaults = 1
    NoEmail = none
    m1 = m1
    u1 = u1
    Events = {e1, e2}
    Deliveries = {d1, d2, d3, d4}
    EventOf <- MCEventOf
    d4 = d4
    e1 = e1
    e2 = e2
    MaxCrashes = 2
    NoDelivery = noDelivery
CHECK_DEADLOCK FALSE
INVARIANTS DuplicatesNeedAFault BouncesSuppress HandledAtMostOnce
PROPERTIES SettledStaysSettled EmailsSettle EventsAreHandled ImplementsInbox
