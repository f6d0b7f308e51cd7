SPECIFICATION FairSpec
CONSTANTS
    p = p
    q = q
    s = s
    t = t
    Conns = {p, q}
    Callers = {s, t}
    Environments <- MCEnvironments
INVARIANT Owned
PROPERTIES NothingServedAfterClose DialsEnd CloseStops CancelStops
CHECK_DEADLOCK FALSE
