SPECIFICATION Spec
CONSTANT NumHarts = 2
INVARIANT MutualExclusion
CHECK_DEADLOCK FALSE
