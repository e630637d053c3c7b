\* A node with two peers that is started twice.
CONSTANTS
    Peers = {p1, p2}
    MaxSequence = 2
    MaxTurns = 2
    MaxAttempts = 1
SPECIFICATION RuntimeSpec
INVARIANT SequenceNamesOneRecord
CHECK_DEADLOCK FALSE
