\* Two Profiles and one call.
CONSTANTS
    Profiles = {p1, p2}
    Calls = {c1}
    None = None
    MaxFaults = 0
SPECIFICATION Spec
INVARIANTS IdleIsDark
CHECK_DEADLOCK FALSE
