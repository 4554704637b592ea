SPECIFICATION Spec
SYMMETRY Symmetric
CONSTANTS
    r = r
    a = a
    b = b
    p = p
    q = q
    x = x
    y = y
    w1 = w1
    w2 = w2
    Nodes <- MCThree
    Root = r
    Names <- MCNames
    Contents <- MCContents
    Writers <- MCWriters
    None = None
    MaxRev = 5
    MaxResets = 1
INVARIANTS
    TypeOK
    LiveUnderLive
    JournalTellsTrash
    CheckedIsStillSo
