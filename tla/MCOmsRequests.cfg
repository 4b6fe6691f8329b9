CONSTANTS
    h1 = h1
    Qty = 2
    Http <- MCHttp
    Requests <- AllRequests
    Expiry <- BothExpiries
    Faults <- AnyFault
    Budgets <- CallOrFaults
SPECIFICATION Spec
INVARIANTS
    LocalTerminalIsTrue
    CascadeOnlyUnfilled
CHECK_DEADLOCK FALSE
