\* Overwrites, deletions, batches of no, one and two operations, keys of two lengths; no
\* fault but crashes.
SPECIFICATION FairSpec
CONSTANTS
  NULL = NULL
  Key <- MixedKeys
  Value <- TwoValues
  Batches <- ReadBatches
  BlockEntries = 2
  IoErrors = {}
  Indeterminate = {}
  MemLimit = 1
  MaxOpens = 2
  MaxWrites = 4
INVARIANT FirstPutReadable
PROPERTY FlushTransparent
PROPERTY CallReturns
CHECK_DEADLOCK FALSE
