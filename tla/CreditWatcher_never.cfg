SPECIFICATION Spec
CONSTANTS
    Calls = {c1, c2}
    threshold = 2
    topUpAmount = 2
    dailyCapVrsc = 5
    minInterval = 1
    DAY = 3
    Balances = {0, 1, 2}
    NaN = NaN
    SendLossy = FALSE
    MaxTime = 7
    MaxSends = 4
INVARIANT NeverSpendsPastCap
