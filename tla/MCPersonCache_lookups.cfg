SPECIFICATION MCSpec
CONSTANTS
    Persons = {1, 2}
    Visitors = {1}
    Movers = {1}
    Names = {"n", "m"}
    Blanks = {}
    Callers = {c1, c2}
    Ttl = 1
    NegTtl = 1
    Patience = 1
    PageSize = 1
    Filters = TRUE
    MaxChanges = 1
    MaxFaults = 1
INVARIANTS FreshIsRecent
PROPERTIES NothingForgotten SyncComplete EventuallyKnown
