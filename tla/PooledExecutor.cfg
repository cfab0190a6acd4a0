SPECIFICATION FairSpec
CONSTANTS
    Batches = {1, 2}
    Rows = 2
    PoolSize = 2
INVARIANTS
    NoStragglers
    FatalIsRaised
PROPERTIES
    BatchEnds
CHECK_DEADLOCK FALSE
