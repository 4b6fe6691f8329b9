CONSTANTS
    h1 = h1
    Qty = 2
    Http <- NoHttp
    Requests <- NoRequests
    Expiry <- BothExpiries
    Faults <- AnyFault
    Budgets <- TwoFaults
SPECIFICATION ReviewSpec
INVARIANTS
    RowsSound
    ReviewIsTrue
PROPERTIES
    GuardKeepsUntilConfirmed
CHECK_DEADLOCK FALSE
