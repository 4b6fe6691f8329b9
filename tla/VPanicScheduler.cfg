CONSTANTS
    MaxRuns = 2
    MaxCrashes = 0
SPECIFICATION Spec
INVARIANTS
    PanicDisables
CHECK_DEADLOCK FALSE
