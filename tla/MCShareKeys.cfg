\* A folder of one file written twice, room for a second file and one new
\* address, one account to invite, two writes of other devices.
CONSTANTS
  Users <- MCUsers
  Initiator = "ann"
  Items <- MCItems
  Texts <- MCTexts
  Said <- MCSaid
  None = None
  MaxBlobs = 3
  MaxOthersWrites = 2
  Mishaps = {}
SPECIFICATION KeysFairSpec
INVARIANTS
  KeysTypeOK
  EveryFileOpens
  PreparedIsAccepted
PROPERTY EveryDepartureEnds
\* Everybody may have left and every write been made.
CHECK_DEADLOCK FALSE
