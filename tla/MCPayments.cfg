\* Two handlers at once, notices in any order or in Stripe's, one fault.
CONSTANTS
    Workers = {w1, w2}
    Payments = {p1}
    Kinds = {"PROMOTION", "UNLOCK", "MESSAGE", "TIP"}
    Amount = 2
    MaxFaults = 1
SPECIFICATION Spec
SYMMETRY Symmetry
INVARIANTS TypeOK RefundedIsReal NeverOverstated UnlockIsPaid FeeSettledFirst QuietAgreesWithStripe
PROPERTIES RefundedIsFinal PendingNeverEarned EndedStaysEnded KeepsBooks
CHECK_DEADLOCK FALSE
