\* One envelope that is delivered twice.
CONSTANTS
    Ids = {i1}
    Calls = {c1, c2}
    MaxCompleted = 1
    MaxFailures = 0
    MaxCrashes = 0
SPECIFICATION Spec
PROPERTY CompletedStands
CHECK_DEADLOCK FALSE
