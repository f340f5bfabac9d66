SPECIFICATION Spec
CONSTANTS
    SeqLen = 1
    WindowTicks = 1
    RecentTicks = 1
    Verdicts = {TRUE}
    MaxTicks = 2
    MaxStarts = 2
    MaxFaults = 1
INVARIANTS
    ThresholdMakesAlert
CHECK_DEADLOCK FALSE
