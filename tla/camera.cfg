\* Two callers, three requests, every combination of troubles.
CONSTANTS
    Callers = {tick, handler}
    Planes = 2
    Chunks <- TwoPlanes
    MaxRequests = 3
SPECIFICATION FairSpec
INVARIANTS
    UndisturbedCallsSucceed
    PlanesAreNotMixed
PROPERTIES
    CallsReturn
CHECK_DEADLOCK FALSE
