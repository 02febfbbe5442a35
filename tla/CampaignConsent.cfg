SPECIFICATION FairSpec
CONSTANTS
    Deliveries = {d1}
    Users = {u1, u2}
    Consenting = {u1, u2}
    Campaigns <- MCCampaigns
    Queries <- MigratedQueries
    MaxFaults = 0
    Nobody = nobody
CHECK_DEADLOCK FALSE
PROPERTIES ConsentEnforced
