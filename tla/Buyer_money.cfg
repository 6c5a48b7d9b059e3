SPECIFICATION SidesSpec
CONSTANTS
    Calls = {c1, c2}
    threshold = 2
    topUpAmount = 2
    dailyCapVrsc = 5
    minInterval = 1
    DAY = 3
    Balances = {0, 1, 2}
    NaN = NaN
    SendLossy = TRUE
    MaxTime = 7
    MaxSends = 4
    Starts = 2
    Waits = 1
    Events = 2
    Amount = 2
    Fees = {0, 1, 2, 3}
    a1 = a1
    a2 = a2
    Nonces = {n1}
    Sellers = {s1, s2}
    None = None
    Verifs = {v1, v2}
    Guarded = {s1}
    Cosigners = {a1, a2}
    MinimumSignatures = 2
    Signings <- MCSignings
    maxAge = 1
    CLOCK_SKEW = 1
    ACTION_MAX_WINDOW = 2
    MAX_TTL = 2
    TTLs = {0, 1, 3}
    KeyLife = 1
    Skews <- MCSkews
    MaxClock = 3
    Dials <- MCDials
    Reqs = {w, r}
    Writes = {w}
    Secret = {r}
    Gated = TRUE
    MaxTransfer = 0
    NoSocket = NoSocket
SYMMETRY Symmetry
INVARIANTS
    RecordedWithinCap
    TopUpsSpaced
    PaidIsRight
    EndedOnce
    AnnouncedIsDelivered
    KeysAreEarned
    JunkBurnsNothing
    OpenedIsAnswer
    
    FlagsAreReal
PROPERTY LimitHolds
CHECK_DEADLOCK FALSE
