SPECIFICATION MCSpec
CHECK_DEADLOCK FALSE
CONSTANTS
  HypOnly = TRUE
  Confs <- MCConfs
  Pages <- MCPages
  PgSize = 8
  TlbSize = 3
  MaxUnmaps = 0
  Numbers <- MCNumbers
  Fills <- MCFills
  ToZero = FALSE
  Csrs <- MCCsrs
  Builds <- MCBuilds
  MaxTime = 1
  LastCtr = 5
  HwCtrs <- MCHwCtrs
  Masks <- MCMasks
  Strict = TRUE
  PmuEvents <- MCEvents
  CacheKinds <- MCKinds
  PmuHarts <- MCPmuHarts
  NumCounters = 2
  MaxAvail = 5
  MaxCfgs = 3
  MaxBoots = 1
  WordValues = 3
  MaxCount = 10
  NumHarts = 3
  Pattern <- MCPattern
  Others = {"a"}
  MaxPos = 2
INVARIANT SpvpKept
