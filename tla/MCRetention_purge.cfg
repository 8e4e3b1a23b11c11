SPECIFICATION FairSpec
CONSTANTS
    Events = {1, 2}
    Unwanted = {2}
    Unreachable = {2}
    Retentions <- MCRetentions
    WindowDays = 1
    ResendDays = 1
    Batch = 2
    LastDay = 4
    MaxFaults = 1
INVARIANTS FreshPhotoKept AnnouncedOnce
PROPERTIES LeftoversSwept DanglingHeals PendingFetched
