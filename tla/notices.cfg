SPECIFICATION Spec
CONSTANTS
    ada = ada
    bisi = bisi
    chidi = chidi
    d1 = d1
    Order = {o1}
    User = {ada, bisi, chidi}
    Rider = {bisi, chidi}
    customer <- Customers
    Device = {d1}
    Proc = {h1, h2}
    NoOrder = NoOrder
    NoUser = NoUser
    NoDevice = NoDevice
    MaxCalls = 2
    MaxUses = 1
    MaxFaults = 1
SYMMETRY Symmetry
CHECK_DEADLOCK FALSE
INVARIANT TypeOK
INVARIANT PartiesAreTold
INVARIANT ToldWereConcerned
INVARIANT PushesAreOfRows
