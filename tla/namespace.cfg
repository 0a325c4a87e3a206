CONSTANTS
  NoNode = NoNode
  AgCount = 2
  MaxFilesAg = 3
  BlocksAg = 4
  MaxFd = 4
  Pages = 13
  Modules = 1
  MaxCwd = 2
  Words <- MCWords
  SystemDirs <- MCSystemDirs
  Archive <- MCArchive
  Paths <- MCPaths
SPECIFICATION Spec
INVARIANTS TypeOK BlocksAccounted NoSpaceMeansFull Hierarchy HeldNodesAreTrue ArchiveIntact ArchiveLoaded
PROPERTY MkdirMakesNoTwin
CHECK_DEADLOCK FALSE
