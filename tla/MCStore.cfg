SPECIFICATION Spec
CONSTANTS
    Sessions = {s1, s2}
    Names = {alice}
    Categories = {unknown}
    Unknown = unknown
    NoIntent = noIntent
    Decisions = {"deny"}
    Blank = blank
    NA = na
    MaxEvents = 1
    MaxPrompts = 0
    CrashMidWrite = TRUE
    WriteErrors = FALSE
SYMMETRY Symmetry
INVARIANTS TypeOK WriteThrough CloseReasonFits CountersAddUp
PROPERTIES ImplementsLedger
