CONSTANTS
  WinMax = 4
  k = k
  NoKey = NoKey
  Key <- MCKey
  Double = FALSE
  Launchable <- Reader
  RereadWinp = FALSE
SPECIFICATION FairSpec
INVARIANTS
  TypeOK
  NoStaleKey
  KeyCallIsServed
  WalkEndsAtFirstOpen
PROPERTIES
  CallsAreWanted
  BusyWindowsRun
  FocusStaysOpen
  ImplementsDesktop
CHECK_DEADLOCK FALSE
