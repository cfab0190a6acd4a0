SPECIFICATION FairSpec
CONSTANTS
    MaxAttempts = 4
    MaxPending = 2
INVARIANTS
    RunningHasTicket
    WaiterGetsOwnResult
PROPERTIES
    DoneIsDelivered
    ShutdownEnds
CHECK_DEADLOCK FALSE
