CONSTANTS
    Needs = {n1, n2}
    Calls = {c1, c2, c3}
    Offered = {"need", "partial", "result", "revoke", "expire", "status"}
    Modes = {"memory", "cosmos"}
    Maintenance = FALSE
    MaxTerminals = 1
    MaxRequests = 1
    MaxPartials = 1
    MaxRestarts = 0
    RacedNeed = n1
    Reserver = c4
    Compactor = c5
    Frames = {{"c1", "c2"}, {"c3"}}
    LastStage = 1
    MaxChains = 2
    MaxStageRequests = 3
    Nodes = {"p", "q"}
    Offers = {"o1", "o2"}
    MaxNodes = 1
    MaxOffers = 1
    SlotLimit = 1
    Sockets = {"s1", "s2"}
    MaxEvents = 2
    MaxQueued = 1
    MaxBuffered = 1
SYMMETRY CallSymmetry
SPECIFICATION MCSpec
INVARIANTS
    NeedsLiveOnce
    BooksBalance
    CapacityIsKept
    AnswersAreKept
    TablesSound
PROPERTIES
    LedgerKeepsLifecycle
CHECK_DEADLOCK FALSE
