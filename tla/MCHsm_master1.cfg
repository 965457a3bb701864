SPECIFICATION Spec
CONSTANTS
  NumHarts = 3
  MasterHart = 1
  MaxStarts = 3
  Settings <- Orderly
PROPERTIES
  StopsComplete
CHECK_DEADLOCK FALSE
