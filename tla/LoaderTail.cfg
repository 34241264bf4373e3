SPECIFICATION Spec
CONSTANTS
  Half = 64
  NULL = NULL
  JUNK = JUNK
  NoEntry = NoEntry
  DirSize = 4
  TabSize = 4
  PageSize = 4
  StackStart = 48
  StackSize = 12
  Scenarios <- LooseEnds
  Evicted <- MCEvicted
  MaxCycles = 1
INVARIANT TailIsZero
CHECK_DEADLOCK FALSE
