SPECIFICATION Spec
CONSTANTS
    a = a
    b = b
    Streams = {a}
    MaxConcurrentStreams = 1
    MaxStreamQueueDepth = 1
    Environments <- Cancelled
INVARIANTS SessionOutlivesStreams
CHECK_DEADLOCK FALSE
