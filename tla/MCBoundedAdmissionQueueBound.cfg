\* Three calls, one slot: a call that arrives while a woken one has not run yet.
SPECIFICATION Spec
CONSTANTS
    Calls = {c1, c2, c3}
    MaxInFlight = 1
    MaxQueued = 1
INVARIANT
    InFlightBounded
CHECK_DEADLOCK FALSE
