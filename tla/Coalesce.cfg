SPECIFICATION FairSpec
CONSTANTS
    Expected = 3
    Quorum = 2
    Groups = {1}
    Running = {"require_all", "first", "quorum", "best_effort"}
    Selects = {0, 1}
    AtSink = {FALSE}
    CacheSize = 2
    MaxCrashes = 2
INVARIANTS
    MergeIsEntitled
    ArrivedNotLost
    SettledOnce
PROPERTIES
    CommittedMergeIsPublished
    EveryTokenLeaves
CHECK_DEADLOCK FALSE
