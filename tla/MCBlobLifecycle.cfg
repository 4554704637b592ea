SPECIFICATION FairSpec
CONSTANTS
  u1 = u1
  u2 = u2
  n1 = n1
  n2 = n2
  Users = {u1, u2}
  Blobs = {b1}
  Nodes = {n1, n2}
  OwnerOf <- OneNodeEach
  Uploads = {r1}
  MaxParts = 2
  Migrating = {u1}
  None = None
  MaxPending = 1
  MaxFaults = 1
  Overlap = FALSE
  Window = FALSE
  WrongSizes = FALSE
INVARIANTS
  TypeOK
  KeptIsReadable
PROPERTIES
  GarbageIsCollected
  StagingEnds
