\* Two deliveries at a time and the job on one event.
CONSTANTS
    Workers = {w1, w2}
    Reconcilers = {r1}
    Events = {e1}
    NoEvent = NoEvent
    Lease = 2
    MaxClock = 3
    FaultHorizon = 1
    MaxFaults = 2
SPECIFICATION FairSpec
INVARIANTS TypeOK ProcessedWasApplied ClaimsAccounted OneHandlerPerLease AckedIsRecorded
PROPERTIES StuckIsSettled
