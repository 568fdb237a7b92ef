SPECIFICATION Spec
CONSTANTS
    s1 = s1
    s2 = s2
    x = x
    y = y
    Signals <- MCSignals
    Symbols <- MCSymbols
    SymbolOf <- MCSame
    Score <- MCScore
    Workers = {w1, w2}
    MaxPositions = 1
    FetchLimit = 2
    SweepLimit = 1
    MaxPendingDays = 0
    CalendarKnown <- MCKnown
    MaxFaults = 1
INVARIANTS BuyChainAtomic OneHoldPerSymbol
VIEW MCSeen
PROPERTY ImplementsPaperOrder
