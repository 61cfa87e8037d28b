SPECIFICATION Spec
CONSTANTS
  ConstTop = 253
  MaxSlot = 200
  Grammar <- MCGrammar
  Start = "P"
  Sources <- MCSources
  Names <- NoNames
  NumVal <- NoValues
  StrVal <- NoValues
  MaxStack = 6
  MaxParams = 4
INVARIANTS ProgramsCompile FramesNest
PROPERTY Judged
