SPECIFICATION Spec
CONSTANTS
    Requests = {r1, r2}
    Priorities = {1, 2}
    MaxFaults = 2
SYMMETRY RequestSymmetry
INVARIANTS
    TypeOK
    EngineKeepsUp
    RowIsOneBody
PROPERTIES
    DeletedStaysDeleted
CHECK_DEADLOCK FALSE
