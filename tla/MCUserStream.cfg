CONSTANTS
    h1 = h1
    h2 = h2
    h3 = h3
    none = none
    NoHandler <- none
    Handlers <- AllHandlers
    Requests <- AllRequests
SPECIFICATION Spec
INVARIANTS
    ConsumerSound
PROPERTIES
    RequestsReturn
    StopIsObeyed
CHECK_DEADLOCK FALSE
