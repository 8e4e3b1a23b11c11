SPECIFICATION FairSpec
CONSTANTS
    LastSerial = 5
    Decisions = {1, 2, 4, 5}
    Photos = {2, 4, 5}
    Poison = {5}
    SerialOverlap = 2
    MaxPagesPerRun = 2
    PageSize = 2
    MaxBackfillSerials = 2
    MaxFaults = 1
PROPERTIES OverlapHeals UrlChased
