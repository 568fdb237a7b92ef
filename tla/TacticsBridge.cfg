SPECIFICATION LiveSpec
CONSTANTS
    Tasks = {t1, t2, t3}
    Writes = {e1, e2}
    Capacity = 2
    EagleCapacity = 1
    MaxFlushes = 2
    MaxFaults = 1
CHECK_DEADLOCK FALSE
INVARIANT SlotsAccounted
PROPERTIES AcceptedWritesRun FlushReturns
