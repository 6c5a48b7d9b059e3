SPECIFICATION FairSpec
CONSTANTS
    Calls = {c1}
    Logins = {l1, l2}
    Transfers = {f1}
    None = None
    maxRetries = 3
    Forbids = FALSE
    GuardsChallenge = FALSE
    MaxTokens = 3
PROPERTIES
    TokenNeverRegresses
    RetryIsFresh
    EveryCallSettles
