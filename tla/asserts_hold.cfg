\* Two writes: the same value put twice, or a flush of an empty memtable.
SPECIFICATION Spec
CONSTANTS
  NULL = NULL
  Key <- OneKey
  Value <- TwoValues
  Batches <- OnePut
  BlockEntries = 9
  IoErrors = {}
  Indeterminate = {}
  MemLimit = 1
  MaxOpens = 1
  MaxWrites = 2
INVARIANT AssertsHold
CHECK_DEADLOCK FALSE
