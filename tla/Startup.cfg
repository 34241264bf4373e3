SPECIFICATION FairSpec
CONSTANTS
  Half = 64
  NULL = NULL
  JUNK = JUNK
  NoEntry = NoEntry
  DirSize = 4
  TabSize = 4
  PageSize = 4
  StackStart = 48
  StackSize = 12
  Scenarios <- MCScenarios
  Evicted <- MCEvicted
  MaxCycles = 3
INVARIANT TypeOK
INVARIANT OptionsAsGiven
INVARIANT LoadedAsLinked
INVARIANT NothingInvented
INVARIANT StartsExactlyWhen
INVARIANT ListingIsTheFile
PROPERTY ComesToAStart
PROPERTY GoIsAnswered
CHECK_DEADLOCK FALSE
