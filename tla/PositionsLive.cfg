SPECIFICATION LiveSpec
CONSTANTS
    p1 = p1
    Positions <- MCOne
    Initial <- MCTen
    Tier <- MCStrong
    Quotes = {92, 100, 109}
    Liquidity = {2, 3}
    SmallOrder = 4
    TimeLimit <- MCLimits
CHECK_DEADLOCK FALSE
PROPERTIES CriticalExit
