SPECIFICATION FairSpec
CONSTANTS
    Tokens = {1, 2}
    MaxEpoch = 3
    MaxEffects = 2
    Groups <- AnyGroup
    Adapters = {TRUE, FALSE}
    Skew <- TrueClocks
INVARIANTS
    OneHeldPublication
    FinalizedIsPublished
PROPERTIES
    ReconcileBeforeRepublish
    ImplementsSinkDelivery
    EventuallySettled
CHECK_DEADLOCK FALSE
