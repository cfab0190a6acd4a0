SPECIFICATION SchedFairSpec
CONSTANTS
    w1 = w1  w2 = w2  w3 = w3
    p = p  c = c
    Workers = {w1, w2}
    NoWorker = NoWorker
    MayCrash = {w2}
    Window = 0
    Grace = 0
    Horizon = 1
    MaxEpoch = 1
    Tokens = {p, c}
    Nil = Nil
    Parent <- ForkParent
    LeaseTime = 0
    StallBudget = 0
    MaxAttempt = 2
PROPERTY DeadWorkersLeaseIsRecovered
