SPECIFICATION MCSpec
CONSTANTS
  ByteWidth = 2
  AddrLen = 5
  BlockSize = 8
  Mapped <- MCMapped
  Contents <- MCContents
  Reg <- MCReg
  Tests <- MCTests
INVARIANT TypeOK
INVARIANT ImmediateIsRecovered
INVARIANT ConformsButForTheList
CHECK_DEADLOCK FALSE
