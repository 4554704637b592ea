SPECIFICATION AccountsSpec
CONSTANTS
  ann = ann
  bea = bea
  cy = cy
  b1 = b1
  b2 = b2
  People = {ann, bea, cy}
  Initiator = ann
  Browsers = {b1, b2}
  Overtaken = FALSE
  Ceiling = 3
  MaxPasswords = 2
  MaxSessions = 2
  MaxVersions = 2
  MaxAccountTurns = 5
  Tombstone = Tombstone
  NoSignIn = NoSignIn
SYMMETRY MCSymmetry
CHECK_DEADLOCK FALSE
INVARIANTS
  AccountsTypeOK
  OldPasswordIsOut
PROPERTIES
  HistoryOutlivesItsAuthor
