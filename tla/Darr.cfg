SPECIFICATION Spec
CONSTANTS
  Chain = 2
  Bn = 2
  Pn = 2
  MemBlocks = 9
  Index <- Boundaries
  MaxCalls = 4
INVARIANTS FreedOnce
PROPERTIES PermanentPlaces
CHECK_DEADLOCK FALSE
