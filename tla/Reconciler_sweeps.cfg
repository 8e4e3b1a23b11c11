SPECIFICATION FairSweepOnlySpec
CONSTANTS
    LastSerial = 5
    Decisions = {1, 3, 4}
    Photos = {3, 4}
    Poison = {}
    SerialOverlap = 2
    MaxPagesPerRun = 2
    PageSize = 2
    MaxBackfillSerials = 2
    MaxFaults = 2
INVARIANTS NoGap
PROPERTIES EventuallyStored
