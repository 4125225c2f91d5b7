SPECIFICATION Spec
CONSTANTS
    Order = {o1}
    Rider = {r1, r2, r3}
    InitialFleet = {}
    Proc = {h1, h2}
    NoOrder = NoOrder
    NoRider = NoRider
    MATCH_TTL = 2
    CANDIDATE_TTL = 3
    MaxRequests = 2
    MaxFaults = 1
    OverrideStatuses = {"DISPUTED"}
    Reassigns = TRUE
    FleetChanges = TRUE
    Prompt = FALSE
SYMMETRY Symmetry
INVARIANT TypeOK
INVARIANT CandidatesFollowRanking
INVARIANT AssigneeWasEligible
INVARIANT TimeoutCoversOffer
INVARIANT DispatchGoesOn
INVARIANT ChainsAreBounded
INVARIANT OneOpenOffer
PROPERTY AssignmentIsFinal
