SPECIFICATION Spec
CONSTANTS
    MaxBytes = 2
    MaxPending = 3
CHECK_DEADLOCK FALSE
INVARIANTS
    CapacityBacked
    WorkInsideBuffers
    OutputOfThisRun
