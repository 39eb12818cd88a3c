\* Memtables of up to five entries, tables of up to five blocks, any write failing, and
\* ends of tables that do not fit the buffer.
SPECIFICATION FairSpec
CONSTANTS
  NULL = NULL
  Key <- ThreeKeys
  Value <- TwoLengths
  BufferSize = 24
  WritesMayFail = TRUE
  BlockSize = 6
  MemTables <- SomeMemTables
INVARIANT TypeOK
INVARIANT OffsetExact
INVARIANT ReadsAsTableGet
INVARIANT IndexComplete
PROPERTY CallsReturn
CHECK_DEADLOCK FALSE
