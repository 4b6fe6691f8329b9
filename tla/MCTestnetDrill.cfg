CONSTANTS
    MaxCycles = 2
    MaxRuns = 2
    MaxCrashes = 1
    MaxTarget = 1
SPECIFICATION LiveSpec
INVARIANTS
    RealHasEvidence
    EvidenceIsOwn
PROPERTIES
    CyclesEnd
    DrillStops
CHECK_DEADLOCK FALSE
