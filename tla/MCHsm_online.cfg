SPECIFICATION Spec
CONSTANTS
  NumHarts = 3
  MasterHart = 0
  MaxStarts = 2
  Settings <- InTree
INVARIANTS
  OnlineExact
CHECK_DEADLOCK FALSE
