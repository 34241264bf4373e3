SPECIFICATION Spec
CONSTANTS
  WordMod = 128
  ByteMod = 2
  Reg <- MCReg
  CodeStart = 8
  CodeSize = 40
  Data <- MCData
  StackStart = 1
  Programs <- ReturnPrograms
  Memories <- MCMemories
  Strategies = {"AT"}
  MaxCycles = 30
PROPERTY SequentialSpec
CHECK_DEADLOCK FALSE
