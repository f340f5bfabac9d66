SPECIFICATION FairSpec
CONSTANTS
    MaxFrames = 5
    MaxBuffer = 2
    MaxFaults = 2
    NonIP = {2}
    Rejected = {4}
    InfluxConfigured = TRUE
    OtherErrors = TRUE
INVARIANTS
    TypeOK
    Conservation
    LiveSendOvertakesNothing
    IrregularRowsAreDoubted
    AckedIsStored
    AnnouncedRegardless
PROPERTIES
    PostsAreFresh
    KeepsPromise
    DrainsOrBlocked
CHECK_DEADLOCK FALSE
