SPECIFICATION Spec
CONSTANTS
    one = one
    two = two
    p1 = p1
    p2 = p2
    Installs = {one, two}
    OldSpelling = {two}
    Phrases = {p1, p2}
    None = None
    MaxRows = 2
    MaxNonces = 3
    MaxPairings = 1
    MaxTurns = 2
    MovesMidway = FALSE
SYMMETRY Symmetric
INVARIANTS
    TypeOK
    BehindIsMarked
    ToldIsKept
CHECK_DEADLOCK FALSE
