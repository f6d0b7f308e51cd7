SPECIFICATION FairSpec
CONSTANTS
    root = root
    inter = inter
    x = x
    y = y
    c1 = c1
    c2 = c2
    Issuers = {root, inter}
    Roots = {root}
    Serials = {x, y}
    Bundles <- MCBundles
    Conns = {c1, c2}
    Chain <- MCChain
    Appliers = {"reload", "other"}
    Environments <- MCEnvironments
    MaxRestarts = 1
INVARIANTS NoEscape ActiveIsCurrent ExpiryIsArmed FencedOnReturn RevokedStaysOut PersistedIsKept
PROPERTIES FencedForAReason ExpiryCloses CloseCloses
CHECK_DEADLOCK FALSE
