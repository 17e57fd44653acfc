SPECIFICATION Spec
CONSTANTS
    Sessions = {s1, s2}
    Names = {}
    Categories = {unknown, bugFix}
    Unknown = unknown
    NoIntent = noIntent
    Decisions = {"allow"}
    Blank = blank
    NA = na
    MaxEvents = 0
    MaxPrompts = 2
    CrashMidWrite = FALSE
    WriteErrors = FALSE
INVARIANTS TotalPromptsAddUp HistoryAgreesWithStats
