\* Two processes; one row with as many faults as give it up, or two rows under one id.
CONSTANTS
    Publishers = {p1,p2}
    Events = {e1,e2}
    NoEvent = NoEvent
    id = id
    JobIds = {id}
    JobId <- OneId
    DirectIds = {id}
    DirectJob = DirectJob
    Lease = 1
    MaxRetries = 2
    BatchSize = 1
    MaxClock = 1
    FaultHorizon = 0
    Budget = 4
SPECIFICATION FairSpec
INVARIANTS TypeOK PublishedWasQueued GivenUpOnlyAfterRetries AttemptsAccounted OverlapOnlyAfterExpiry
PROPERTIES EventuallySettled ImplementsHandoff
