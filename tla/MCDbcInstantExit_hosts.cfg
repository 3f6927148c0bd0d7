\* Every host, two exits that may overlap where the host allows it.
SPECIFICATION Spec
CONSTANTS
    Call = {c1, c2}
    Pool = {p1, p2}
    MaxAttempts = 2
    Fractional <- WholeLadder
    Options <- SomeOptions
    Hosts <- AnyHost
    HasTx <- AnyAnswer
    CalmNetwork = FALSE
    NoCall = NoCall
    NoTx = NoTx
    NoPool = NoPool
SYMMETRY InstantSymmetry
INVARIANTS
    StatusIsHonest
    OneCallAtATime
PROPERTIES
    NothingAfterSuccess
    AbortedAsksNoSignature
CHECK_DEADLOCK FALSE
