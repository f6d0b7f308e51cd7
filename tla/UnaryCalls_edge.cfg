SPECIFICATION Spec
CONSTANTS
    c1 = c1
    c2 = c2
    s1 = s1
    ClientCalls = {c1}
    ServerCalls = {}
    MaxConcurrentCalls = 1
    Environments <- Edge
INVARIANTS SessionOutlivesCalls
CHECK_DEADLOCK FALSE
