CONSTANTS
    a1 = a1
    a2 = a2
    q1 = q1
    Max = 2
    Armers <- MCArmers
    Panics <- MCPanics
SPECIFICATION Spec
SYMMETRY Symmetry
INVARIANTS
    PanicBlocksEntries
    PanicLeavesDisarmed
CHECK_DEADLOCK FALSE
