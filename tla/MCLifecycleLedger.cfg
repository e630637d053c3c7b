CONSTANTS
    Needs = {n1, n2}
    Nodes = {requester, worker}
    Requester <- SoleRequester
    Digests = {"d1", "d2"}
    NoNode = NoNode
    NoDigest = NoDigest
    MaxRecords = 1
    OutboxPerRecord = 4
    MaxPartials = 3
    MaxBatch = 1
SPECIFICATION FairSpec
INVARIANTS
    TypeOK
    OutboxAgreesWithStatus
    ShownInCommitOrder
    OutboxInLifeOrder
    CommittedPartialsStand
PROPERTIES
    KeepsLifecycle
    CommittedEventsAreShown
CHECK_DEADLOCK FALSE
