SPECIFICATION Spec
CONSTANTS
    ada = ada
    bisi = bisi
    s1 = s1
    s2 = s2
    s3 = s3
    Order = {o1, stray}
    Placed = {o1}
    User = {ada, bisi}
    Rider = {bisi}
    customer <- Customers
    Socket = {s1, s2, s3}
    owner <- Owners
    Proc = {h1, h2}
    NoUser = NoUser
    NoSocket = NoSocket
    NoOrder = NoOrder
    MaxReports = 2
    MaxFaults = 1
SYMMETRY Symmetry
CHECK_DEADLOCK FALSE
INVARIANT TypeOK
INVARIANT MapHoldsNewest
INVARIANT CustomerFollows
INVARIANT MarkersAgree
