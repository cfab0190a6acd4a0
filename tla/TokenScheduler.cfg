SPECIFICATION SchedSpec
CONSTANTS
    w1 = w1  w2 = w2  w3 = w3
    p = p  c = c
    Workers = {w1, w2, w3}
    NoWorker = NoWorker
    MayCrash = {}
    Window = 0
    Grace = 0
    Horizon = 1
    MaxEpoch = 2
    Tokens = {p, c}
    Nil = Nil
    Parent <- ForkParent
    LeaseTime = 0
    StallBudget = 0
    MaxAttempt = 2
SYMMETRY WorkerSymmetry
INVARIANTS
    AttemptsAreExclusive
    SuccessIsComplete
    UnresumableIsClosed
    EvictedFollowerHasNoLiveLease
PROPERTIES
    FinishedRowsStay
    ImplementsTokenLedger
