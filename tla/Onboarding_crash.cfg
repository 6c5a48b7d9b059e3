SPECIFICATION FairSides
CONSTANTS
    Keys = {k1, k2}
    Networks = {"verus", "verustest"}
    Services <- MCServices
    None = None
    maxAttempts = 1
    maxIAddressAttempts = 1
    MaxFaults = 2
    MaxRuns = 5
    Requests <- MCRequests
    Callers = {c1, c2}
    Profiles <- MCProfiles
    Containers <- MCContainers
    Rewrites <- MCRewrites
    Accepted <- MCAccepted
    Statuses = {"inactive"}
    Authorities = {a1, a2}
    Hashes = {"h1", "h2"}
    NoTx = NoTx
    MAX_UPDATES = 2
    MAX_VALUE_BYTES = 3
    MAX_PRICE = 5
    MAX_SERVICES = 3
    MAX_PRICINGS = 2
INVARIANTS
    IdentitiesAreSafe
    DoneIsHeld
    ReadsBack
    ReviewsRecovered
PROPERTIES
    FinalizeRefines
    ProgramsEnd
CHECK_DEADLOCK FALSE
