SPECIFICATION Spec
CONSTANTS
    Components = {page, panel}
    HistoryCap = 2
    StrictMode = TRUE
    MaxSockets = 4
    MaxVersions = 1
    MaxMessages = 3
INVARIANTS
    TypeOK
    NoLeakedSocket
    DenialHasItsCause
    CountWithinHistory
    ComponentsAgree
CHECK_DEADLOCK FALSE
