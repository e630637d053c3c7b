\* Two replicas, two events, no failing write, one crash.
CONSTANTS
    Nodes = {a, b}
    Events = {e1, e2}
    Syncs = {s1, s2}
    MaxLogFaults = 1
SPECIFICATION LogSpec
INVARIANT Reloads
CHECK_DEADLOCK FALSE
