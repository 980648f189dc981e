\* Three packets from the payloads, queues of two, one handler that sends.
CONSTANTS
    Capacity = 2
    SizeMax = 8
    Handlers = {handler}
    Others = {info, alarm}
    Copies = 2
    MaxSent = 3
SPECIFICATION FairSpec
INVARIANTS
    ReceivesInOrder
    NoResetAfterAck
PROPERTIES
    ConstructorReturns
    DestructorReturns
CHECK_DEADLOCK FALSE
