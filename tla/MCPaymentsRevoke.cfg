\* One handler at a time, one fault.
CONSTANTS
    Workers = {w1}
    Payments = {p1}
    Kinds = {"UNLOCK"}
    Amount = 1
    MaxFaults = 1
SPECIFICATION Spec
INVARIANTS FullRefundRevokes
CHECK_DEADLOCK FALSE
