SPECIFICATION FairSpec
CONSTANTS
    User = {u1, u2}
    RiderUser = {u1}
    Sub = {s1, s2}
    Proc = {h1}
    Cron = Cron
    NoSub = NoSub
    Week = 1
    Month = 2
    AdminStatuses = {"ACTIVE", "EXPIRED", "CANCELLED"}
    MaxTime = 2
    MaxFaults = 1
CHECK_DEADLOCK FALSE
INVARIANT TypeOK
INVARIANT ExpiredHasEnded
INVARIANT ModelFollowsPlan
INVARIANT OneActive
PROPERTY LapsedIsClosed
