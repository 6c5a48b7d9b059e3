SPECIFICATION FairSpec
CONSTANTS
    Calls = {c1}
    Logins = {l1}
    Transfers = {}
    None = None
    maxRetries = 3
    Forbids = FALSE
    GuardsChallenge = TRUE
    MaxTokens = 2
CHECK_DEADLOCK FALSE
PROPERTY LoginSettles
