SPECIFICATION FairSpec
CONSTANTS
    PageSize = 1
    MaxAlerts = 2
    MaxPolls = 2
    Models = {congestion, anomaly}
    NotAList = NotAList
    Cap = 2
    MaxPredictions = 3
    RuleIds = {1}
    ServerKey = key
    NoKey = NoKey
    ErrorObject = ErrorObject
    MaxRequests = 2
    MaxClicks = 1
    MaxChanges = 1
    MaxFaults = 1
INVARIANTS
    TypeOK
    GapsHaveTheirCause
    GaugesMatchHistory
PROPERTIES
    BlankNeedsRefusal
    PagesSettle
CHECK_DEADLOCK FALSE
