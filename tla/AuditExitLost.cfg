SPECIFICATION Spec
CONSTANTS
    N = 1
    Flows = {"none", "exit"}
    Kinds = {"open", "downgraded", "reject"}
    MaxRuns = 1
    MaxEntries = 1
    MaxFaults = 1
CHECK_DEADLOCK FALSE
INVARIANT ExitNeverPasses
