SPECIFICATION Spec
CONSTANTS
  BitsetBytes = 32
  MinFold = 2
  Sizes = {2, 4, 8, 16, 32}
  TargetDensity = 25
  HashBits = 8
  CharMod = 4
  Texts <- MCTexts
  Queries <- MCQueries
INVARIANTS MarkedIsFound NothingMissed
PROPERTY UsesBitset
CHECK_DEADLOCK FALSE
