SPECIFICATION MCSpec
CONSTANTS
  WordMod = 128
  ByteMod = 2
  Reg <- MCReg
  CodeStart = 8
  CodeSize = 40
  Data <- MCData
  StackStart = 1
  Programs <- AllPrograms
  Memories <- MCMemories
  Strategies = {"AT", "NT", "BTFNT"}
  MaxCycles = 26
INVARIANT TypeOK
INVARIANT NoSpuriousEnd
INVARIANT RedirectIsKept
INVARIANT FollowsPrediction
INVARIANT CyclesAccountedFor
INVARIANT KeepsPace
PROPERTY SequentialSpec
CHECK_DEADLOCK FALSE
