\* No write fails, and all of a table fits the buffer.
SPECIFICATION Spec
CONSTANTS
  NULL = NULL
  Key <- ThreeKeys
  Value <- TwoLengths
  BufferSize = 99
  WritesMayFail = FALSE
  BlockSize = 6
  MemTables <- SomeMemTables
INVARIANT TableReadable
CHECK_DEADLOCK FALSE
