SPECIFICATION Spec
CONSTANTS
  NumHarts = 2
  MasterHart = 0
  MaxStarts = 2
  Settings <- All
PROPERTIES
  StartsArrive
CHECK_DEADLOCK FALSE
