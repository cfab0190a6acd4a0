SPECIFICATION FairSpec
CONSTANTS
    Producers = {1, 2, 3}
    Size = 2
    MaxEvents = 5
INVARIANTS
    JoinCountsOpenWork
PROPERTIES
    ThreadEndsAfterClose
    FlushReturns
CHECK_DEADLOCK FALSE
