SPECIFICATION Spec
CONSTANTS
  NumHarts = 3
  MasterHart = 0
  MaxStarts = 4
  Settings <- All
INVARIANTS
  OrderlyOnlineExact
  EntersAsAsked
PROPERTIES
  ResetOnlyAsleep
  StartReturns
  OrderlyStartsArrive
  StopsComplete
CHECK_DEADLOCK FALSE
