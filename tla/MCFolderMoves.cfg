\* A shared folder with a file and a folder of its own, a private folder, and two
\* events in all: of the person, of others, or a fault.
CONSTANTS
  Folders <- MCFolders
  FileNames <- MCFileNames
  CopyOf <- MCCopyOf
  Texts <- MCTexts
  FileOf <- MCFileOf
  Small <- MCSmall
  Shares <- MCShares
  Start <- MCStart
  Nil = Nil
  MaxNodes = 9
  MaxRemote = 2
  MaxLocal = 2
  MaxFaults = 1
  MaxEvents = 2
  FolderMishaps = {}
SPECIFICATION FoldersSpec
INVARIANTS
  FoldersTypeOK
PROPERTIES
  ShareKeepsItsFiles
  QuietPassAgrees
CHECK_DEADLOCK FALSE
