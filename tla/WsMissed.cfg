SPECIFICATION Spec
CONSTANTS
    Clients = {c1, c2}
    Viewers = {}
    MaxMessages = 2
    MaxPredictions = 0
INVARIANTS
    EveryClientHears
CHECK_DEADLOCK FALSE
