\* Three records of up to three fragments, any write failing, the end anywhere.
SPECIFICATION FairSpec
CONSTANTS
  BufferSize = 12
  WritesMayFail = TRUE
  kBlockSize = 8
  kHeaderSize = 3
  Lengths = {0, 2, 7}
  MaxRecords = 3
INVARIANT TypeOK
INVARIANT BlockAligned
INVARIANT AckedReadBack
INVARIANT NothingInvented
PROPERTY ReaderEnds
CHECK_DEADLOCK FALSE
