SPECIFICATION FairSpec
CONSTANTS
    g1 = g1
    g2 = g2
    Sends = {s1, s2}
    Updates = {u1}
    Genesis = {g1, g2}
    genesis <- MCGenesis
    Amounts = {2}
    Options <- MCOptions
    HasIAddress = TRUE
    FEE = 1
    DUST = 1
    MAX_SPENT_UTXOS = 1
    MAX_PENDING_CHANGE = 1
INVARIANTS
    NoDoubleSpend
    NoDuplicateInputs
    ChangeChained
PROPERTY EveryCallSettles
CHECK_DEADLOCK FALSE
