\* One handler at a time, two events: changes at Stripe, requests or faults.
CONSTANTS
    Actors = {a1}
    Subs = {s1, s2}
    TeamPlans = {s1}
    NoSub = NoSub
    MaxEvents = 2
SPECIFICATION Spec
PROPERTIES MakesRoomForLive
CHECK_DEADLOCK FALSE
