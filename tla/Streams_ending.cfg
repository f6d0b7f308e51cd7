SPECIFICATION FairSpec
CONSTANTS
    a = a
    b = b
    Streams = {a}
    MaxConcurrentStreams = 1
    MaxStreamQueueDepth = 1
    Environments <- Ending
PROPERTIES HandlerCompletes CloseSendReturns CancelStopsHandler CloseReleasesEveryone
CHECK_DEADLOCK FALSE
