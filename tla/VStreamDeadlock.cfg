CONSTANTS
    h1 = h1
    h2 = h2
    h3 = h3
    none = none
    NoHandler <- none
    Handlers <- OneHandler
    Requests <- StartTwice
SPECIFICATION Spec
INVARIANT NoSelfDeadlock
CHECK_DEADLOCK FALSE
