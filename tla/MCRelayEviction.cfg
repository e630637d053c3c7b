CONSTANTS
    Needs = {n1, n2}
    Calls = {c1, c2, c3, c4}
    Offered = {"need", "result"}
    Modes = {"cosmos"}
    Maintenance = TRUE
    MaxTerminals = 1
    MaxRequests = 2
    MaxPartials = 0
    MaxRestarts = 0
SPECIFICATION Spec
INVARIANTS TerminalRoom
CHECK_DEADLOCK FALSE
