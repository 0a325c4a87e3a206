CONSTANTS
  MAX_ALARMS = 2  MaxTicks = 3  MaxAlarms = 2  Delays = {0, 2}  Frequencies = {19, 20000}
  Instants <- mc_Instants  Years = {2000, 2024, 2025, 2100}
  Patterns <- mc_Patterns  Texts <- mc_Texts  Sums <- mc_Sums  SumLength = 3
  Pieces <- mc_Pieces  PieceCount = 3  Keystrokes = {"a", "BS", "LF"}  KeystrokeCount = 5  GetsLimit = 4
  LOG_BUFFER_SIZE = 5  Formats <- mc_Formats  Messages <- mc_Messages  Glyphs <- mc_Glyphs  Levels <- mc_Levels  MaxPrinted = 3
  ObjsOfSize <- mc_ObjsOfSize  BitmapBits = 3  SlabPages = 2
  LruPages = {p1, p2, p3, p4}  NULL = NULL
  MAX_TASKS = 2  MAX_USERS = 2  Daemons <- mc_Daemons  TaskPages = 9
  Blocks <- mc_Blocks  Priority <- mc_Priority  Bpfs <- mc_Bpfs  CommandLines <- mc_CommandLines
  SysctlTexts <- mc_SysctlTexts
  Options <- mc_Options  OptionSpace = 3  Procs <- mc_Procs  MaxServices = 8
  MAX_ENV_VARS = 2  MAX_ALIAS = 2  LoopDevices = 2  Archive <- mc_Archive  EdLine = 3  Lines <- mc_Lines  MaxLines = 4
  HISTORY_SIZE = 2  LINE_MAX = 4  QshKeys = {"a", "q", "|", "&", "=", "b"}  MaxKeys = 5  Scripts <- mc_Scripts
  MAX_TTYS = 2  TTY_BUFFER_SIZE = 2  COUNT_RANGE = 4  Letters = {"a"}  MaxTyped = 4
  Md5Block = 4  Md5Chunks = {0, 1, 3, 4, 5, 9}  MaxFed = 14  Lz4Streams <- mc_Lz4Streams  Lz4Rooms = {0, 19, 20, 600}
  DigitValues = 2  OrigP <- mc_OrigP  SboxStep = 3  BlowfishKeys <- mc_BlowfishKeys
  DesKeys <- mc_DesKeys  DesBlocks <- mc_DesBlocks
SPECIFICATION Spec
INVARIANTS ServicesTypeOK ConversionsAgree LogIsTail ListsStayWhole TasksSound LinesSound
PROPERTIES AlarmsOnTime PledgesShrink
\* every part stops at its bound
CHECK_DEADLOCK FALSE
