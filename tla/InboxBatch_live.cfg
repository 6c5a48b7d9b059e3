SPECIFICATION FairSpec
CONSTANTS
    r1 = r1
    r2 = r2
    r3 = r3
    a1 = a1
    j1 = j1
    Items = {r1, r3, a1}
    None = None
    item <- MCItem
    rank <- MCAnyRank
    Batches = {b1}
    Singles = {}
    Hashes = {"h1", "h2"}
    maxBytes = 2
PROPERTY HealthyAccepted
CHECK_DEADLOCK FALSE
