\* One caller: connect, and two pictures.
CONSTANTS
    Callers = {tick}
    Planes = 2
    Chunks <- TwoPlanes
    MaxRequests = 3
SPECIFICATION Spec
INVARIANTS
    ReadsThePlanes
CHECK_DEADLOCK FALSE
