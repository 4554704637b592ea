SPECIFICATION Spec
SYMMETRY Symmetric
CONSTANTS
  i = i
  p = p
  q = q
  c1 = c1
  c2 = c2
  Users = {i, p, q}
  Initiator = i
  Contents <- MCContents
  None = None
  MaxWrites = 2
  Quota <- MCQuota
  Rooms <- MCRooms
  MaxGaps = 2
  Mishaps <- MCNoMishaps
INVARIANTS
  TypeOK
  RecordHasNoHole
  CopiesAgree
PROPERTIES
  DepartedReceiveNothing
CHECK_DEADLOCK FALSE
