\* No fault but crashes: what survives them.
SPECIFICATION Spec
CONSTANTS
  NULL = NULL
  Key <- OneKey
  Value <- TwoValues
  Batches <- TwoPuts
  BlockEntries = 9
  IoErrors = {}
  Indeterminate = {}
  MemLimit = 0
  MaxOpens = 6
  MaxWrites = 3
INVARIANT Durable
PROPERTY DurabilitySpec
PROPERTY Kept
PROPERTY TablesStay
CHECK_DEADLOCK FALSE
