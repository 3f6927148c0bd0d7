\* One call of run() after another, aborts at any moment.
CONSTANTS
    c1 = c1  w1 = w1  w2 = w2  p = p  q = q
    NoRun = NoRun  NoTx = NoTx
    Run = {r1, r2}
    Claim = {c1}
    Withdraw = {w1}
    MaxVariants = 2
    PatientUser = TRUE
    PoolOf <- MCPoolOf
SPECIFICATION Spec
INVARIANTS
    TypeOK
    RunningCanBeStopped
    ConfirmedIsOnChain
PROPERTIES
    NoRowForgotten
    ClaimsSentFirst
    BoardIsKept
SYMMETRY MCSymmetry
