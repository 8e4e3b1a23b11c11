SPECIFICATION SlotsSpec
CONSTANTS
    Entries = {e1, e2}
    TotalSlots = 2
    Empty = Empty
    Cloud = Cloud
    OneInstallation = TRUE
    Overlap = FALSE
    Rewritten = {Empty}
    MaxForeign = 1
    MaxRefused = 2
    MaxLost = 0
INVARIANTS SlotsTypeOK RealtimePath Recorded NothingLeft
CHECK_DEADLOCK FALSE
