SPECIFICATION Spec
CONSTANTS
    p1 = p1
    Positions <- MCOne
    Initial <- MCTen
    Tier <- MCStrong
    Quotes = {92, 100, 109, 113, 120}
    Liquidity = {0, 2, 3}
    SmallOrder = 4
    TimeLimit <- MCLimits
CHECK_DEADLOCK FALSE
INVARIANTS QuantitiesAddUp FirstShareOnly LineMatchesStage
PROPERTIES SoldIsFinal LineNeverFalls
