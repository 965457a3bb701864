SPECIFICATION Spec
CONSTANTS
  NumSlots = 4
  MaxHarts = 3
  MasterSlot = 1
  Warm = TRUE
  Timely = FALSE
  Settled = TRUE
INVARIANTS
  OwnNumber
  TreeIsTrue
PROPERTIES
  SendsToFreeMailbox
  BootCompletes
CHECK_DEADLOCK FALSE
