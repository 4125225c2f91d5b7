SPECIFICATION FairSpec
CONSTANTS
    Order = {o1}
    Rider = {r1, r2, r3}
    InitialFleet = {r1}
    Proc = {h1, h2}
    NoOrder = NoOrder
    NoRider = NoRider
    MATCH_TTL = 2
    CANDIDATE_TTL = 3
    MaxRequests = 2
    MaxFaults = 0
    OverrideStatuses = {"DISPUTED"}
    Reassigns = FALSE
    FleetChanges = FALSE
    Prompt = TRUE
PROPERTY CustomerIsAnswered
PROPERTY OffersInTurn
