SPECIFICATION Spec
CONSTANTS
    Nodes = {n1, n2, n3}
    Contents = {c1}
    Readers = {r1}
    None = None
    Limit = 1
    MaxRev = 3
    MaxResets = 1
    MaxRestores = 2
    MaxRotations = 1
    Purging = TRUE
    Pruning = "some"
    Kinds = {"page", "probe"}
    RestoreMidPass = FALSE
    Unraised = FALSE
SYMMETRY Symmetric
CONSTRAINT SecondRestoreAlone
INVARIANTS
    TypeOK
    NothingJournalledIsMissed
    DeletionsAreReal
CHECK_DEADLOCK FALSE
