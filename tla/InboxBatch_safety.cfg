SPECIFICATION Spec
CONSTANTS
    r1 = r1
    r2 = r2
    r3 = r3
    a1 = a1
    j1 = j1
    Items = {r1, r2, j1}
    None = None
    item <- MCItem
    rank <- MCRank
    Batches = {b1}
    Singles = {s1}
    Hashes = {"h1", "h2"}
    maxBytes = 2
INVARIANTS
    Accounted
    AcceptedWasSent
    OnlyOwnKeys
    RejectedAtFault
PROPERTY OthersKept
CHECK_DEADLOCK FALSE
