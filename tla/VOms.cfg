CONSTANTS
    h1 = h1
    Qty = 2
    Http <- MCHttp
    Requests <- PanicOnly
    Expiry <- BothExpiries
    Faults <- AnyFault
    Budgets <- CallAndFault
SPECIFICATION ReviewSpec
INVARIANTS
    ExitMeansClosed
    NoStuckRow
    NoOrphanProtection
    GuardKeepsFilledProtection
    WorkingChainPasses
CHECK_DEADLOCK FALSE
