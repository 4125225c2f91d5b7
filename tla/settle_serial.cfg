SPECIFICATION Spec
CONSTANTS
    o1 = o1
    o2 = o2
    Order = {o1, o2}
    Rider = {r1, r2}
    Proc = {h1}
    NoOrder = NoOrder
    NoRider = NoRider
    NoRow = NoRow
    Price <- OneNaira
    Method <- OpayAndCash
    PayoutAmounts <- Amounts
    MaxInitiations = 1
    MaxPayouts = 2
    MaxFaults = 0
    PayAfterAssign = TRUE
    Reassigns = TRUE
    SubscriptionsVary = TRUE
CHECK_DEADLOCK FALSE
INVARIANT WalletsMatchBooks
PROPERTY SettlesOnce
