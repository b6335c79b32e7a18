SPECIFICATION Spec
CONSTANTS
  Backends = {"ftp", "smb", "webdav"}
  MaxBlocks = 2
  MaxAttempts = 3
  Trees <- MCTrees
  Modes = {"auto", "scpOnly"}
  Terminates = {TRUE, FALSE}
  FileBackends = {"sftp", "ftp", "smb", "webdav"}
  Paths <- MCPaths
  Trees0 <- MCFirst
  MaxRemoveDepth = 1
  MaxOthers = 1
  MaxCalls = 1
  Entries0 = {"n1", "n2"}
  DiskPaths <- MCDiskPaths
  Disks0 <- MCDisks
  LinkTo <- MCLinkTo
  Selections <- MCSelections
  Folders <- MCFolders
  MaxJobs = 1
  MaxWrites = 1
  Places <- MCPlaces
  Servers0 <- MCServers
  LinkedDir <- MCLinked
  Picks <- MCPicks
  Matching = {"f"}
  SearchDepth = 3
  MaxMatches = 3
  MaxOps = 1
  MaxSearches = 1
  MaxAdded = 1
INVARIANTS AllTypesOK TransfersDeliver FilesSurvive ListingsAreWhole
PROPERTY DeletedIsGone
CHECK_DEADLOCK FALSE
