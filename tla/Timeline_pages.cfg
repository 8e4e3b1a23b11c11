SPECIFICATION TimelineSpec
CONSTANTS
    Stores = {{1, 3}, {2, 4}}
    Granted = {1, 2, 4}
    Old = {1, 3, 4}
    Wanted = {}
    Limit = 2
    MaxRequests = 2
    MaxLosses = 1
INVARIANTS TimelineTypeOK NothingSkipped OnlyLiveTwice
PROPERTIES CursorDescends
