\* Two actors, a team plan and another, two events: changes at Stripe, requests or faults.
CONSTANTS
    Actors = {a1, a2}
    Subs = {s1, s2}
    TeamPlans = {s1}
    NoSub = NoSub
    MaxEvents = 2
SPECIFICATION Spec
SYMMETRY Symmetry
INVARIANTS TypeOK BilledOnce QuietAgrees StaleRowHasNotice
CHECK_DEADLOCK FALSE
