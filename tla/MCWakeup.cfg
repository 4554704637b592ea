SPECIFICATION FairSpec
CONSTANTS
    MaxWrites = 1
    MaxEdits = 1
    MaxAttempts = 3
    MaxSockets = 3
    MaxTurns = 2
    LateAnswers = FALSE
INVARIANTS
    TypeOK
    NothingOutlivesStop
PROPERTIES
    BackInTouch
    EditIsCarried
CHECK_DEADLOCK FALSE
