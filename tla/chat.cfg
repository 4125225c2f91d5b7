SPECIFICATION Spec
CONSTANTS
    ada = ada
    Order = {o1}
    User = {ada, bisi, chi, eve}
    Rider = {bisi, chi}
    Admin = {eve}
    customer <- Customers
    Socket = {s1, s2}
    Message = {m1}
    Proc = {h1, h2}
    NoUser = NoUser
    NoRow = NoRow
    MaxFaults = 1
CHECK_DEADLOCK FALSE
INVARIANT TypeOK
INVARIANT OnlyTheGapIsMissed
INVARIANT AdminsMissNothing
INVARIANT OnlyPartiesSee
SYMMETRY Symmetry
