SPECIFICATION Spec
CONSTANTS
    EPOCHS = 3
    PATIENCE = 2
    Losses = {1, 2}
    NaN = NaN
    Missing = Missing
    Torn = Torn
    Nothing = Nothing
    Users = {scheduler}
    MaxRuns = 2
    MaxData = 2
INVARIANTS
    TypeOK
    CheckpointIsBest
    PairsMatch
    BaselineMatches
CHECK_DEADLOCK FALSE
