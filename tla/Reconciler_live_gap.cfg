SPECIFICATION FairSpec
CONSTANTS
    LastSerial = 4
    Decisions = {1, 2}
    Photos = {2}
    Poison = {}
    SerialOverlap = 2
    MaxPagesPerRun = 2
    PageSize = 2
    MaxBackfillSerials = 2
    MaxFaults = 0
PROPERTIES EventuallyStored
