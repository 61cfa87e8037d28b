SPECIFICATION Spec
CONSTANTS
  Cols = 17
  Rows = 11
  TabStop = 2
  CharMod = 6
  Win = {1, 2, 3}
  Boot <- MCBoot
  Sizes <- MCSizes
  MaxMoves = 1
  Printers = {2}
  Strings <- MCStrings
INVARIANTS PrintsInside FastPathAgrees TextIntact
PROPERTY StraysOnlyBy
CHECK_DEADLOCK FALSE
