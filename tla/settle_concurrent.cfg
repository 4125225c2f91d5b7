SPECIFICATION FairSpec
CONSTANTS
    o1 = o1
    o2 = o2
    Order = {o1}
    Rider = {r1}
    Proc = {h1, h2}
    NoOrder = NoOrder
    NoRider = NoRider
    NoRow = NoRow
    Price <- OneNaira
    Method <- Card
    PayoutAmounts = {85}
    MaxInitiations = 2
    MaxPayouts = 0
    MaxFaults = 1
    PayAfterAssign = FALSE
    Reassigns = FALSE
    SubscriptionsVary = TRUE
CHECK_DEADLOCK FALSE
INVARIANT TypeOK
INVARIANT CapturedIsBooked
PROPERTY PaidIsCaptured
