SPECIFICATION FairSpec
CONSTANTS
    Requests = {r1, r2}
    Streams = {s1}
    Gate = 1
    LockTime = 3
    CountTime = 1
    Margin = 2
    Patience = 2
    MaxLost = 1
INVARIANTS ParkCoversLock LateBounded
PROPERTIES UnlocksAgain
