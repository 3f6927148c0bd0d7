\* A withdrawal that reverts on chain.
CONSTANTS
    c1 = c1  w1 = w1  w2 = w2  p = p  q = q
    NoRun = NoRun  NoTx = NoTx
    Run = {r1}
    Claim = {}
    Withdraw = {w1}
    MaxVariants = 2
    PatientUser = TRUE
    PoolOf <- MCPoolOf
SPECIFICATION Spec
INVARIANTS
    ConfirmedMeansExited
