\* Calls that overlap because an abort lets the next one start; fairness.
CONSTANTS
    c1 = c1  w1 = w1  w2 = w2  p = p  q = q
    NoRun = NoRun  NoTx = NoTx
    Run = {r1, r2}
    Claim = {c1}
    Withdraw = {w1}
    MaxVariants = 1
    PatientUser = FALSE
    PoolOf <- MCPoolOf
SPECIFICATION FairSpec
INVARIANTS
    BusyIsHonest
PROPERTIES
    AbortedStaysOnItem
    RunEnds
