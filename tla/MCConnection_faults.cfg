\* With every fault used up the entry may wait for the user, or for a locked
\* terminal: there nothing need happen any more.
SPECIFICATION FairSpec
CONSTANTS
    LastEvent = 2
    MaxChunk = 2
    MaxBuffer = 5
    FillerSizes = {7}
    MaxFillers = 1
    Backoff <- MCBackoff
    BusyWait = 1
    LockWait = 3
    CrashWait = 1
    SerialOverlap = 1
    SweepLimit = 1
    MaxFaults = 2
INVARIANTS  BackSoon
PROPERTIES LiveOnce StreamReturns ShownFollows
CHECK_DEADLOCK FALSE
