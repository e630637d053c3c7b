\* The admission queue: five calls contend for two slots and a line of two.
CONSTANTS
    Calls = {c1, c2, c3, c4, c5}
    MaxInFlight = 2
    MaxQueued = 2
    Envelopes = {i1, i2}
    Arrivals = {a1, a2, a3}
    MaxCompleted = 1
    MaxFailures = 1
    MaxCrashes = 2
    PaidNeed = n1
SPECIFICATION MCSpec
INVARIANTS
    TypeOK
    WorkConserving
    ZeroSilentLoss
    InboxIsDurable
    PaidEffectsSound
PROPERTIES
    ParkedCallsSettle
    InboxRecovers
    StopReturnsInTime
CHECK_DEADLOCK FALSE
