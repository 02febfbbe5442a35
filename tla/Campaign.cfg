SPECIFICATION FairSpec
CONSTANTS
    Deliveries = {d1, d2}
    Users = {u1, u2}
    Consenting = {u1}
    Campaigns <- MCCampaigns
    Queries <- MigratedQueries
    MaxFaults = 1
    Nobody = nobody
CHECK_DEADLOCK FALSE
INVARIANTS AtMostOneMessage NobodyForgotten
PROPERTIES NumbersConsentEnforced RowsTell CampaignEnds
