CONSTANTS
    MaxRuns = 3
    MaxCrashes = 1
SPECIFICATION LiveSpec
INVARIANTS
    LateOnce
PROPERTIES
    Rearmed
    RunsGiveWay
CHECK_DEADLOCK FALSE
