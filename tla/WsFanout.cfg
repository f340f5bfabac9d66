SPECIFICATION FairSpec
CONSTANTS
    Clients = {c1, c2}
    Viewers = {v1}
    MaxMessages = 2
    MaxPredictions = 1
INVARIANTS
    GaugeCountsSockets
    CopiesBounded
    MissesNeedRemoval
PROPERTIES
    ViewerReleased
CHECK_DEADLOCK FALSE
