SPECIFICATION FairSpec
CONSTANTS
    Settings <- Triggers
    Bounds <- Small
    Graceful = {TRUE, FALSE}
INVARIANTS
    FirstToFireWins
PROPERTIES
    ExpiredBatchFlushes
    EveryRowIsFlushed
CHECK_DEADLOCK FALSE
