\* Three Profiles, two calls, a lost socket or an expiry.
CONSTANTS
    Profiles = {p1, p2, p3}
    Calls = {c1, c2}
    None = None
    MaxFaults = 1
SPECIFICATION Spec
SYMMETRY Symmetry
INVARIANTS TypeOK BusyIsInCall OneCallEach ActiveIsAccepted
CHECK_DEADLOCK FALSE
