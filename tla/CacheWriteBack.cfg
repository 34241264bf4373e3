SPECIFICATION Spec
CONSTANTS
  BlockSize = 2
  SetNum = 1
  Assoc = 2
  WriteThrough = FALSE
  WriteAllocate = TRUE
  Latency = 1
  AgeMax = 1
  Mapped <- MCMapped
  Byte = {b0, b1}
  Accesses <- MCAccesses
  LowerLatency = 8
  MaxAccesses = 2000000000
VIEW Behaviour
SYMMETRY ByteSymmetry
INVARIANTS TypeOK LinesAreCoherent
PROPERTY FlatSpec
CHECK_DEADLOCK FALSE
