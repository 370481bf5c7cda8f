CONSTANTS
    MAX = 4
    ITERATIONS = 3
    Depth = {1, 2}

CHECK_DEADLOCK FALSE

SPECIFICATION Spec

INVARIANTS
    TypeOK
    QueueSound
    Residue

PROPERTIES
    TakesTurns
