\* Two rows that may share the one file, an erasure at a time, two acts and a fault.
CONSTANTS
    Rows = {r1, r2}
    Files = {f1}
    Erasers = {x1}
    None = None
    Kept = 1
    Window = 1
    Grace = 1
    MaxClock = 3
    MaxActs = 2
    MaxFaults = 1
SPECIFICATION FairSpec
INVARIANTS TypeOK KeptRowsHaveFiles
PROPERTIES ErasedOnlyWhenDue LeftoversGo
CHECK_DEADLOCK FALSE
