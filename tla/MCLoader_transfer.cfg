SPECIFICATION MCSpec
CHECK_DEADLOCK FALSE
CONSTANTS
  ImageSizes <- MCSizes
  Skews <- MCSkews
  PageBytes = 2
  SectorPages = 2
  WordBytes = 2
  PollMax = 1
  Autostart = TRUE
  DumpLen = 2
  LongLen = 1
  LoadAddrs <- MCAddrs
  MaxRestarts = 2
  MaxKeys = 3
  Sizes <- SixBlocks
  Start <- SixStarts
  DestSize = 6
  SeqMod = 4
  MaxRetrans = 2
  MaxFaults = 4
  Platforms <- MCPlatforms
  Headers <- MCHeaders
  CellValues = 16
  Timebase = 3
  TreeRoom = 2
  MaxTreeBoots = 1
  AiaHarts <- MCHartNumbers
  NumSources = 4
  NumIds = 3
  PageShift = 2
  WordBits = 2
  Delegations <- MCDelegations
  MaxChild = 1
  Windows <- MCWindows
  ShortPolls = 1
  LongPolls = 2
  Letters <- MCLetters
  MaxStrokes = 3
INVARIANTS KernelIsTold OnlyIpiArrives KeysAsPressed
INVARIANTS UpdateIsExact LoadIsExact AutostartOnce
INVARIANTS ImageIsPrefix DoneIsComplete OutOfSyncOnlyAtWrap
PROPERTIES FlashEnds LineReceiveEnds
