SPECIFICATION Spec
CONSTANTS
  ConstTop = 253
  MaxSlot = 200
  Grammar <- CGrammar
  Start = "P"
  Names <- CNames
  NumVal <- CNumVal
  StrVal <- CStrVal
  MaxStack = 64
  MaxParams = 4
  HeapMax = 64
  Budget = 6000
  Cases <- InitCases
INVARIANT RunsAsWritten

