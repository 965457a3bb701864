SPECIFICATION Spec
CONSTANTS
  NumHarts = 3
  PoolSize = 2
  Masks <- Everyone
  Kinds = {"rfence"}
  MaxCalls = 2
  Prompt = {}
INVARIANTS
  RefCountExact
  OneOwner
PROPERTIES
  PayloadStable
CHECK_DEADLOCK FALSE
