SPECIFICATION Spec
CONSTANTS
    Requests = {r1}
    Priorities = {1, 2}
    MaxFaults = 0
INVARIANTS
    PrioritiesApplied
CHECK_DEADLOCK FALSE
