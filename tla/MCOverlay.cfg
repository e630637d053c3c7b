CONSTANTS
    Pair = {y1, y2}
    Near = near
    Far = far
    Publisher = publisher
    OneNeed = need
SYMMETRY PairSymmetry
SPECIFICATION MCSpec
INVARIANTS
    DiscoverySound
    QuicSound
    ContextSound
    TrustSound
CHECK_DEADLOCK FALSE
