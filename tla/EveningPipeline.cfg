SPECIFICATION LiveSpec
CONSTANTS
    Stocks = {x}
    MaxRuns = 2
    Receivers = {daemon, cli}
    Daemon = daemon
    MaxFaults = 1
CHECK_DEADLOCK FALSE
INVARIANTS DispatchScope IncompleteOnlyIfCrossed MarkedIsTraced ReinforcementsCounted
PROPERTIES AnsweredUnlessFault
