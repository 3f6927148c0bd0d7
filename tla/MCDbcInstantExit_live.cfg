\* The batch over two pools, fairness.
SPECIFICATION FairSpec
CONSTANTS
    Call = {c1, c2}
    Pool = {p1, p2}
    MaxAttempts = 2
    Fractional <- WholeLadder
    Options <- PlainClaim
    Hosts <- Batch
    HasTx <- AnyAnswer
    CalmNetwork = FALSE
    NoCall = NoCall
    NoTx = NoTx
    NoPool = NoPool
PROPERTIES
    CallSettles
    BatchEnds
CHECK_DEADLOCK FALSE
