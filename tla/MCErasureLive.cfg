\* Liveness: two requests at once, two deletions, a decision of staff and a fault.
CONSTANTS
    Sessions = {s1, s2}
    Grace = 1
    Attempts = 1
    MaxClock = 1
    MaxRequests = 2
    MaxErasures = 0
    MaxStaff = 1
    MaxFaults = 1
SPECIFICATION FairSpec
PROPERTIES DeletionNotLost RestoredIsKept
CHECK_DEADLOCK FALSE
