CONSTANTS
    o1 = o1
    o2 = o2
    o3 = o3
    h1 = h1
    Orders <- MCOrders
    Handlers <- MCHandlers
SPECIFICATION Spec
SYMMETRY Symmetry
CONSTRAINT EarlyCalls
INVARIANTS
    AtMostOneEntry
PROPERTIES
    NoPostWhileUnknown
    HeldByOne
CHECK_DEADLOCK FALSE
