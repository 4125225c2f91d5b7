SPECIFICATION Spec
CONSTANTS
    Order = {o1}
    Rider = {r1}
    InitialFleet = {}
    Proc = {h1}
    NoOrder = NoOrder
    NoRider = NoRider
    MATCH_TTL = 1
    CANDIDATE_TTL = 2
    MaxRequests = 2
    MaxFaults = 0
    OverrideStatuses = {}
    Reassigns = FALSE
    FleetChanges = FALSE
    Prompt = FALSE
PROPERTY CancelledIsFinal
