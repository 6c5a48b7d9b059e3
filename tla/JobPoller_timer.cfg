SPECIFICATION Spec
CONSTANTS
    j1 = j1
    j2 = j2
    Jobs = {j1}
    NoHash = {}
    rank <- MCRank
    Starts = {s1, s2}
    None = None
    MAX_SEEN_JOBS = 1
    MAX_ACCEPT_ATTEMPTS = 2
    MAX_PER_POLL = 1
INVARIANT StoppedHasNoTimer
