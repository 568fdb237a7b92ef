SPECIFICATION LiveSpec
CONSTANTS
    d1 = d1
    d2 = d2
    e1 = e1
    Threads <- MCThreads
    Processes = {"daemon", "engine"}
    Home <- MCHome
    MaxDepth = 2
    MaxTries = 2
    MaxFaults = 1
INVARIANTS BlockAlone LockMatchesBlocks
PROPERTIES AskedIsAnswered
