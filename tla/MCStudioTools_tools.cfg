CONSTANTS
    k1 = k1  k2 = k2  p1 = p1  p2 = p2  n1 = n1  n2 = n2
    u1 = u1  u2 = u2  u3 = u3  m1 = m1  m2 = m2
    Call = {k1, k2}
    Position = {p1, p2, n1, n2}
    Unit = {u1, u2, k1, k2}
    NewPosition <- MCNewPosition
    ChunkSize = 2
    EscrowsPerTx = 2
    MaxLeaves = 7
    Groups = 2
    LpUnits = 5
    Candidates = 2
    SdkAttempts = 2
    Inputs <- MCInputs
SPECIFICATION FairSpec
INVARIANTS
    ListsAreHonoured
    ClaimsAreSound
    TradedAsShown
PROPERTIES
    CommandEnds
    PositionRefusedForNews
    NeverAheadOfItself
CHECK_DEADLOCK FALSE
