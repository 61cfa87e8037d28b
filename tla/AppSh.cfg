SPECIFICATION FairSpec
CONSTANTS
  Cell <- Blocks
  Null = NULL
  Eos = EOS
  Win = {A, B}
  CmdLines <- Streams
  MaxRuns = 3
INVARIANTS LinesAreOwned DoneIsComplete
PROPERTIES ImplementsLoneShells EveryTrainEnds
CHECK_DEADLOCK FALSE
