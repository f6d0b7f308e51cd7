SPECIFICATION FairSpec
CONSTANTS
    a = a
    b = b
    Streams = {a}
    MaxConcurrentStreams = 1
    MaxStreamQueueDepth = 1
    Environments <- ClosedThenFailed
PROPERTIES HandlerCompletes
CHECK_DEADLOCK FALSE
