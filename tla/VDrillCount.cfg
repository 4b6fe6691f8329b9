CONSTANTS
    MaxCycles = 1
    MaxRuns = 1
    MaxCrashes = 1
    MaxTarget = 1
SPECIFICATION Spec
INVARIANTS
    CountIsProved
CHECK_DEADLOCK FALSE
