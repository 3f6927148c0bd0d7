\* Two calls of any commands on one pool, killed and failing anywhere.
CONSTANTS
    k1 = k1  k2 = k2  p = p
    Call = {k1, k2}
    Pool = p
    MaxAttempts = 3
    Inputs <- MCInputs
    Worlds <- MCWorlds
SPECIFICATION FairSpec
INVARIANTS
    ReturnedIsDone
    DryRunSendsNothing
    SwapOncePerCall
PROPERTIES
    RefusedOnlyForNews
    CallEnds
CHECK_DEADLOCK FALSE
