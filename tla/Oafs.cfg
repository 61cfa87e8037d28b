SPECIFICATION MCSpec
CONSTANTS
  PageSize = 16
  MaxKeys = 3
  Lines <- MCLines
  MaxLines = 4
  Words <- MCWords
  Longs <- MCLongs
  MaxFields = 2
INVARIANTS PagesHold PagesInOrder KeysFreed
           WordsReadBack KeysSortAsNumbers
PROPERTY FlushEnds
CHECK_DEADLOCK FALSE
