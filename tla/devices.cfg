CONSTANTS
  RamNames = {"a", "b"}  RamContents = {"x", "y"}  MAX_DIRECTORIES = 3  MAX_FILES = 3  TmpBuffers = 5
  BlockUnits = 16  InodesPerGroup = 6  BlocksPerGroup = 5  Superblocks <- mc_Superblocks  Ext2Names <- mc_Ext2Names
  CACHE_SLOTS = 6  LastInode = 3  LastBlock = 4  Texts <- mc_Texts  MaxFileCalls = 7
  TextCols = 2  TextRows = 2  GuiCols = 3  GuiRows = 2  TabStop = 2  Letters = {"a", "b"}
  CsiChars = {"2", ";", "3", "1", "J", "H", "m", "C", "B"}  MaxChars = 5
  FbSizes <- mc_FbSizes  GlyphSize = 2  Glyphs <- mc_Glyphs  PageBytes = 16  UINT_RANGE = 64  MaxDraws = 2
  RingLen = 32  RxBytes = 41  FrameLens <- mc_FrameLens  Headers = 6  Hosts = {"h1", "h2"}  Numbers = 8  ISN <- mc_ISN
  MaxFrames = 4  MaxCalls = 3  ChecksumData <- mc_ChecksumData  UsedIndex = 1
  PciFunctions <- mc_Pci  MAX_DISKS = 2  Sectors0 <- mc_Sectors0  Volumes <- mc_Volumes
  RAMDISK_TOTAL_SECTORS = 2  MAX_LOOP_DEVICES = 1  JOURNAL_SIZE = 2  JFS_MAX_FILES = 3  MaxSteps = 5
  Lines = {0, 1, 9, 12, 4}  MaxRaises = 4  MaxDepth = 3
  PageWords = 4  PoolWords = 8  FreePages = {0, 1, 2}  Elfs <- mc_Elfs  Binaries <- mc_Binaries  Args <- mc_Args
  Modules <- mc_Modules  Symtab <- mc_Symtab  MAX_MODULES = 1  MaxLoads = 4
  Moves <- mc_Moves  MAX_USB_DEVICES = 3  Samples <- mc_Samples  TableEntries = 2  DirectoryEntries = 4
  TableFrames = {1, 2, 3}  FrameBufferPages = 2  MaxDeviceCalls = 4
SPECIFICATION Spec
INVARIANTS FilesSound ScreensSound StorageSound NetworkWorks ProcessorSound DevicesSound
\* every part stops at its bound
CHECK_DEADLOCK FALSE
