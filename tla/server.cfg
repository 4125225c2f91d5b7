SPECIFICATION ServerSpec
CONSTANTS
    v0 = v0
    v1 = v1
    v2 = v2
    baseFare = baseFare
    perKmRate = perKmRate
    Key = {baseFare, perKmRate}
    Value = {v0, v1, v2}
    Absent = Absent
    Default <- Defaults
    Proc = {h1, h2}
    NoKey = NoKey
    MaxUpdates = 2
    MaxRestarts = 2
    MaxLosses = 1
    MaxFailures = 1
    Phone = {p1}
    Offered = {"RIDER", "VENDOR"}
    MaxCalls = 5
    MaxRunning = 2
    PageSizes = {1, 2}
    Asked <- Filters
    MaxRows = 4
    MaxChanges = 3
CHECK_DEADLOCK FALSE
SYMMETRY Symmetry
INVARIANT ServerTypeOK
INVARIANT PricesPersist
INVARIANT CodeServesOnce
INVARIANT RolesAgree
INVARIANT VerifiedAsJudged
INVARIANT OrderIsPricedAsPosted
INVARIANT EachExitHidesOne
INVARIANT EachEntryRepeatsOne
