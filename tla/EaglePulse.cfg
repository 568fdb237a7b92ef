SPECIFICATION LiveSpec
CONSTANTS
    Symbols = {1, 2}
    Verdicts = {"APPROVE", "HOLD"}
    MaxPulses = 2
    MaxScans = 2
    MaxFlushes = 1
CHECK_DEADLOCK FALSE
INVARIANT InTurn
PROPERTIES PulseDecided FlushOver
