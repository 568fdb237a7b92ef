SPECIFICATION CourtLiveSpec
CONSTANTS
    BullReplies = {"STRONG", "MODERATE", "WEAK", "GUARDED", "GARBLED"}
    BearReplies = {"FATAL", "MATERIAL", "MINOR", "GUARDED", "GARBLED"}
    JudgeReplies = {"PASS", "HOLD", "VETO", "UNFIT", "GUARDED", "GARBLED"}
    Phis = {0, 5, 10}
    Weights = {60, 100, 140}
    MaxOutages = 2
INVARIANTS PausedHasIncident PassWithinEnvelope NobodyOutrun
PROPERTIES ImplementsHearing CourtRules
