\* Two numbers, a buffer that takes the longest name, any call failing.
SPECIFICATION FairSpec
CONSTANTS
  NULL = NULL
  Words <- SomeWords
  DbNames <- SomeNames
  Numbers <- TwoNumbers
  ChunkSize = 2
  BufferSize = 6
  WritesMayFail = TRUE
INVARIANT TypeOK
INVARIANT RecoverOpens
INVARIANT TmpsOfCrashes
PROPERTY RegisterSpec
PROPERTY CallsReturn
