SPECIFICATION Spec
CONSTANTS
  NumSlots = 3
  MaxHarts = 3
  MasterSlot = 0
  Warm = TRUE
  Timely = TRUE
  Settled = FALSE
INVARIANTS
  SetupAwaited
CHECK_DEADLOCK FALSE
