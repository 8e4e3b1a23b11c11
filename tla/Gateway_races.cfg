SPECIFICATION FairSpec
CONSTANTS
    Handlers = {"push", "sweep"}
    Linked = {"sweep"}
    Events = {1, 2}
    Decisions = {1, 2}
    Unwanted = {}
    MaxFaults = 1
INVARIANTS AtMostOnce SurfaceIsStored
PROPERTIES ImplementsEventLog RewindsOnlyForNews EventuallyAnnounced
