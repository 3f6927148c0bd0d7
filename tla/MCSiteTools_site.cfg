CONSTANTS
    k1 = k1  k2 = k2  p1 = p1  p2 = p2  n1 = n1  n2 = n2
    u1 = u1  u2 = u2  u3 = u3  m1 = m1  m2 = m2  l1 = l1  l2 = l2  wa = wa  wb = wb  ta = ta  tb = tb
    Call = {k1, k2}
    Position = {p1, p2, n1, n2}
    Unit = {u1, u2, u3, k1, k2}
    NewPosition <- MCNewPosition
    LpPool = {l1, l2}
    Mint = {m1, m2}
    Attempts = 2
    Wallet = {wa, wb}
    Scans = 3
    Clicks = 3
    Token = {ta, tb}
    Interval = {1, 2}
    Candle <- MCCandle
    Message <- MCMessage
    Supply = 3
    MarkPages = 2
    Moves = 5
    Inputs <- MCInputs
SPECIFICATION FairSpec
INVARIANTS
    ToldIsTrue
    FlagsAreHonest
    BarIsSound
    SuccessIsOneExit
    QuietMeansSettled
PROPERTIES
    RequestEnds
    RightInTheEnd
CHECK_DEADLOCK FALSE
