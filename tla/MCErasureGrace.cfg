\* What scheduleDeletion's comment says of the window: two deletions, no fault.
CONSTANTS
    Sessions = {s1}
    Grace = 2
    Attempts = 2
    MaxClock = 4
    MaxRequests = 2
    MaxErasures = 0
    MaxStaff = 0
    MaxFaults = 0
SPECIFICATION Spec
PROPERTIES GraceHonoured
CHECK_DEADLOCK FALSE
