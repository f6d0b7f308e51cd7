SPECIFICATION Spec
CONSTANTS
    a = a
    b = b
    Streams = {a}
    MaxConcurrentStreams = 1
    MaxStreamQueueDepth = 1
    Environments <- Unacknowledged
INVARIANTS SlotsExact
CHECK_DEADLOCK FALSE
