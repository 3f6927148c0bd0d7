\* Five positions in two pools, any answers.
SPECIFICATION Spec
CONSTANTS
    c1 = c1  c2 = c2  w1 = w1  w2 = w2  w3 = w3  p = p  q = q
    NoPool = NoPool
    Claim = {c1, c2}
    Withdraw = {w1, w2, w3}
    PoolOf <- MCPoolOf
    Fences <- MCFences
    Bases <- MCBases
INVARIANTS
    PlanIsSound
    PlanIsOrdered
    RetriesPayMore
CHECK_DEADLOCK FALSE
