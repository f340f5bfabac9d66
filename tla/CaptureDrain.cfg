SPECIFICATION FairSpec
CONSTANTS
    MaxFrames = 2
    MaxBuffer = 2
    MaxFaults = 2
    NonIP = {}
    Rejected = {}
    InfluxConfigured = TRUE
    OtherErrors = TRUE
PROPERTIES
    BufferDrains
CHECK_DEADLOCK FALSE
