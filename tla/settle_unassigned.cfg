SPECIFICATION Spec
CONSTANTS
    o1 = o1
    o2 = o2
    Order = {o1}
    Rider = {r1}
    Proc = {h1}
    NoOrder = NoOrder
    NoRider = NoRider
    NoRow = NoRow
    Price <- OneNaira
    Method <- Card
    PayoutAmounts = {85}
    MaxInitiations = 1
    MaxPayouts = 0
    MaxFaults = 0
    PayAfterAssign = FALSE
    Reassigns = FALSE
    SubscriptionsVary = FALSE
CHECK_DEADLOCK FALSE
INVARIANT EarningsAreCredited
