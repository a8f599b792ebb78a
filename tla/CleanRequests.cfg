SPECIFICATION LoopSpec
CONSTANTS
    Requests = {r1, r2, r3, r4}
    MaxLength = 4
INVARIANTS
    OnlyLeaversLeave
    EndsClean
PROPERTIES
    RefinesPurge
    Terminates
CHECK_DEADLOCK FALSE
