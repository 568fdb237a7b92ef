SPECIFICATION LiveSpec
CONSTANTS
    N = 2
    Flows = {"none"}
    Kinds = {"open", "reject"}
    MaxRuns = 2
    MaxEntries = 2
    MaxFaults = 2
CHECK_DEADLOCK FALSE
INVARIANTS DoneIsJudged ZeroMeansZero
PROPERTIES CompletedIsFinal DaemonRunEnds
