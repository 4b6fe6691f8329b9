CONSTANTS
    h1 = h1
    Qty = 1
    Http <- NoHttp
    Requests <- NoRequests
    Expiry <- NoExpiry
    Faults <- AnyFault
    Budgets <- OneFault
SPECIFICATION Spec
INVARIANT CompletedIsProtected
CHECK_DEADLOCK FALSE
