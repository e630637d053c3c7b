CONSTANTS
    Items = {x1, x2, x3}
    Peer = peer
    Near = near
    Far = far
    Messages = {x1, x2, x3}
    Barriers = {x1, x2, x3}
    MaxVersion = 3
    MaxFailures = 1
    MaxCrashes = 1
    Self = publisher
    Replicas <- Directories
    ReplicationFactor = 3
    WriteQuorum = 2
    Records <- Signed
    Budgets <- Rounds
    Sends = {y1, y2}
    Connections = {1, 2, 3}
    MaxGeneration = 2
    SupersededRetries = 1
    MaxFaults = 1
    Nodes = {y1, y2}
    Events = {z1, z2}
    Syncs = {w1}
    MaxLogFaults = 2
    Peers = {y1, y2}
    MaxSequence = 2
    MaxTurns = 2
    MaxAttempts = 1
    AgentCalls = {execution}
    Discoveries = {y1, y2}
    Streams = {stream}
    Cards = {1, 2}
    TaskIds = {"t1", "t2"}
    Contexts = {"c1", "c2"}
    Parts <- FewParts
    MaxBytes = 1
    MaxParts = 2
    MaxPolls = 1
SYMMETRY ItemSymmetry
SPECIFICATION MCSpec
INVARIANTS
    HostSound
    RpcSound
    MailboxSound
    BarriersAreDurable
    QuorumIsDurable
    P2pSound
    LogSound
    RuntimeSound
    OneTaskPerCall
    SemanticSound
CHECK_DEADLOCK FALSE
