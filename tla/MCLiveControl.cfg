CONSTANTS
    a1 = a1
    a2 = a2
    q1 = q1
    Max = 2
    Armers <- MCArmers
    Panics <- MCPanics
SPECIFICATION Spec
SYMMETRY Symmetry
INVARIANTS
    BudgetKept
    LeaksAtMostOne
    NoInheritedWindow
CHECK_DEADLOCK FALSE
