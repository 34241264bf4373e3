SPECIFICATION Spec
CONSTANTS
  WordMod = 128
  ByteMod = 2
  Reg <- MCReg
  CodeStart = 8
  CodeSize = 40
  Data <- MCData
  StackStart = 1
  Programs <- ShadowPrograms
  Memories <- MCMemories
  Strategies = {"NT"}
  MaxCycles = 30
INVARIANT NoSpuriousEnd
CHECK_DEADLOCK FALSE
