SPECIFICATION Spec
CONSTANTS
    Expected = 3
    Quorum = 2
    Groups = {1}
    Running = {"best_effort"}
    Selects = {0}
    AtSink = {TRUE}
    CacheSize = 2
    MaxCrashes = 0
INVARIANT ConsumedWithTheirMerge
CHECK_DEADLOCK FALSE
