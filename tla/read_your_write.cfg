\* Two values put for one key.
SPECIFICATION Spec
CONSTANTS
  NULL = NULL
  Key <- OneKey
  Value <- TwoValues
  Batches <- TwoPuts
  BlockEntries = 9
  IoErrors = {}
  Indeterminate = {}
  MemLimit = 1
  MaxOpens = 1
  MaxWrites = 2
INVARIANT ReadYourWrite
CHECK_DEADLOCK FALSE
