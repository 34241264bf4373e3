SPECIFICATION Spec
CONSTANTS
  BlockSize = 1
  SetNum = 2
  Assoc = 3
  WriteThrough = FALSE
  WriteAllocate = TRUE
  Latency = 1
  AgeMax = 7
  Mapped <- MCMapped
  Byte = {b0}
  Accesses <- MCAccesses
  LowerLatency = 8
  MaxAccesses = 7
VIEW Behaviour
INVARIANT NoTies
PROPERTY EvictsLeastRecentlyUsed
CHECK_DEADLOCK FALSE
