CONSTANTS
    Pair = {y1, y2}
    Twins = {z1, z2}
    Couple = {w1, w2}
    Third = third
SYMMETRY AgentSymmetry
SPECIFICATION MCSpec
INVARIANTS
    TasksSound
    ImportsSound
    ClientSound
    ServiceSound
    NativeSound
CHECK_DEADLOCK FALSE
