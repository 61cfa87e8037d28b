CONSTANTS
  WinMax = 4
  k = k
  NoKey = NoKey
  Key <- MCKey
  Double = FALSE
  Launchable <- Reader
  RereadWinp = FALSE
SPECIFICATION Spec
INVARIANT TableFits
CHECK_DEADLOCK FALSE
