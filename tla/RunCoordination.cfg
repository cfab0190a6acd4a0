SPECIFICATION FairSpec
CONSTANTS
    Workers = {w1, w2, w3}
    NoWorker = NoWorker
    MayCrash = {w1, w2, w3}
    Window = 1
    Grace = 1
    Horizon = 2
    MaxEpoch = 3
INVARIANTS
    EpochsAreExclusive
    TerminalTokenNeverLeadsRunning
PROPERTIES
    DeposedForever
    FreshFollowerNeverEvicted
    ImplementsFencedSeat
    DeadSeatLapses
