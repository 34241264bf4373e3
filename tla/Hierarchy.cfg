SPECIFICATION Spec
CONSTANTS
  BlockSize = 1
  L1Sets = 1
  L1Ways = 1
  L1Latency = 1
  L2Sets = 1
  L2Ways = 1
  L2Latency = 8
  LLCSets = 2
  LLCWays = 1
  LLCLatency = 20
  MemoryLatency = 100
  AgeMax = 1
  Mapped <- MCMapped
  Byte = {b0, b1}
  Accesses <- MCAccesses
  MaxAccesses = 2000000000
VIEW Behaviour
SYMMETRY ByteSymmetry
INVARIANT TypeOK
INVARIANT CleanLinesAgree
PROPERTY FlatSpec
PROPERTY StatisticsAgree
CHECK_DEADLOCK FALSE
