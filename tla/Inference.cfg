SPECIFICATION FairSpec
CONSTANTS
    SeqLen = 1
    WindowTicks = 1
    RecentTicks = 1
    Verdicts = {TRUE}
    MaxTicks = 2
    MaxStarts = 2
    MaxFaults = 1
INVARIANTS
    TypeOK
    AlertsRestOnPredictions
    SilenceHasItsOwnCause
    CounterCountsPublished
PROPERTIES
    ShutdownCompletes
    RoundsComplete
    WindowLagBounded
CHECK_DEADLOCK FALSE
