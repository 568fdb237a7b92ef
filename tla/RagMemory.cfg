SPECIFICATION LiveSpec
CONSTANTS
    audit = audit
    note = note
    long = long
    short = short
    poor = poor
    None = None
    Rows = {audit, note}
    Audits = {audit}
    Echoes = {}
    Rejected = {note}
    Good = {long, short}
    Poor = {poor}
    Chunks <- MCChunks
    Retry = 1
    LastRetry = 2
    MaxFaults = 1
CHECK_DEADLOCK FALSE
INVARIANT IndexAgrees
PROPERTIES CondemnedForGood SettledForGood
