\* The route as shipped on a network without failures.
SPECIFICATION Spec
CONSTANTS
    Call = {c1}
    Pool = {p1}
    MaxAttempts = 3
    Fractional <- DefaultFractional
    Options <- PlainClaim
    Hosts <- Button
    HasTx <- ShippedAnswer
    CalmNetwork = TRUE
    NoCall = NoCall
    NoTx = NoTx
    NoPool = NoPool
INVARIANTS
    NoEscalationWhenCalm
CHECK_DEADLOCK FALSE
