SPECIFICATION Spec
CONSTANTS
  Entries = 4
  Bn = 2
  MemBlocks = 18
  MaxIndex = 36
  Ahead = 1
INVARIANTS NullMeansFull FreedOnce
PROPERTIES PermanentPlaces
CHECK_DEADLOCK FALSE
