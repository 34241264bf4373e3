SPECIFICATION SpecEither
CONSTANTS
  BlockSize = 2
  SetNum = 1
  Assoc = 2
  WriteThrough = TRUE
  WriteAllocate = TRUE
  Latency = 1
  AgeMax = 1
  Mapped <- MCMapped
  Byte = {b0, b1}
  Accesses <- MCAccesses
  LowerLatency = 8
  MaxAccesses = 2000000000
VIEW BehaviourEither
SYMMETRY ByteSymmetry
INVARIANT LowerIsCurrent
PROPERTY FlatSpec
CHECK_DEADLOCK FALSE
