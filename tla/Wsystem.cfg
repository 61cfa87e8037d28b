SPECIFICATION FairSpec
CONSTANTS
  Cell <- Blocks
  Null = NULL
  Eos = EOS
  CmdLines <- All
  MaxRuns = 2
INVARIANTS RunsLikeUnix CacheSound
PROPERTIES Finishes LinesAreReturned
CHECK_DEADLOCK FALSE
