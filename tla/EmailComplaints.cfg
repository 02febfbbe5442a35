SPECIFICATION Spec
CONSTANTS
    Emails = {m1}
    Users = {u1}
    UserOf <- MCUserOf
    TypeOf <- MCTypeOf
    Forced = {}
    Workers = {w1}
    MaxAttempts = 1
    EventStatuses <- MigratedEventStatuses
    Providers = {"ses", "sendgrid"}
    MaxReports = 1
    MaxFaults = 0
    NoEmail = none
    m1 = m1
    u1 = u1
CHECK_DEADLOCK FALSE
INVARIANTS EveryComplaintSuppresses
