SPECIFICATION MCSpec
CONSTANTS
  ByteWidth = 2
  AddrLen = 5
  BlockSize = 8
  Mapped <- MCMapped
  Contents <- MCContents
  Reg <- MCReg
  Tests <- LoadTests
INVARIANT LoadsExtend
CHECK_DEADLOCK FALSE
