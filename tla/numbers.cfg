\* Failing writes to logs and tables, members nobody initialises, crashes anywhere.
SPECIFICATION Spec
CONSTANTS
  NULL = NULL
  Key <- OneKey
  Value <- TwoValues
  Batches <- TwoPuts
  BlockEntries = 9
  IoErrors = {"wal", "table"}
  Indeterminate = {"eof_", "descriptor_file_"}
  MemLimit = 0
  MaxOpens = 3
  MaxWrites = 3
INVARIANT TypeOK
INVARIANT CurrentUsable
INVARIANT FreshFiles
INVARIANT NumbersInv
PROPERTY ReachableGrows
CHECK_DEADLOCK FALSE
