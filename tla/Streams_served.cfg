SPECIFICATION Spec
CONSTANTS
    a = a
    b = b
    Streams = {a, b}
    MaxConcurrentStreams = 1
    MaxStreamQueueDepth = 1
    Environments <- Served
INVARIANTS EOFAfterEverything FailureAfterData InOrder SlotsExactWhileUp OrderlyStreamsEndNoSession AckComesFirst DeliverOnOpenQueue AnswerNeverBlocks GateExact
CHECK_DEADLOCK FALSE
