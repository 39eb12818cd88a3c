\* Failing writes to manifests, to CURRENT and to blocks of tables, and crashes anywhere.
SPECIFICATION Spec
CONSTANTS
  NULL = NULL
  Key <- OneKey
  Value <- TwoValues
  Batches <- TwoPuts
  BlockEntries = 9
  IoErrors = {"manifest", "block"}
  Indeterminate = {}
  MemLimit = 0
  MaxOpens = 3
  MaxWrites = 3
PROPERTY LogsOutlived
CHECK_DEADLOCK FALSE
