SPECIFICATION Spec
CONSTANTS
    c1 = c1
    c2 = c2
    s1 = s1
    ClientCalls = {c1, c2}
    ServerCalls = {s1}
    MaxConcurrentCalls = 1
    Environments <- Disturbed
INVARIANTS SettleNeverBlocks NoStrandedCaller OriginalCause BudgetExact CancelNotLost
PROPERTIES ImplementsCallContract
CHECK_DEADLOCK FALSE
