\* Two requests at once, two deletions, an erasure by staff and a fault.
CONSTANTS
    Sessions = {s1, s2}
    Grace = 1
    Attempts = 1
    MaxClock = 1
    MaxRequests = 2
    MaxErasures = 1
    MaxStaff = 0
    MaxFaults = 1
SPECIFICATION Spec
SYMMETRY Symmetry
INVARIANTS TypeOK
PROPERTIES RestoredIsKept NeverAtOnce
CHECK_DEADLOCK FALSE
