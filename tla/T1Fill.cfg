SPECIFICATION LiveSpec
CONSTANTS
    s1 = s1
    s2 = s2
    x = x
    y = y
    Signals <- MCSignals
    Symbols <- MCSymbols
    SymbolOf <- MCApart
    Score <- MCScore
    Workers = {w1}
    MaxPositions = 1
    FetchLimit = 1
    SweepLimit = 2
    MaxPendingDays = 1
    CalendarKnown <- MCKnown
    MaxFaults = 1
INVARIANTS StatusHasEvidence CapUpToDeferred FillWindow RedecidedOnlyWhenHit
PROPERTY EventuallyDecided
